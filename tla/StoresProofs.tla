----------------------------- MODULE StoresProofs -----------------------------
(* What was saved is read back, as long as no save is broken twice: the       *)
(* reminders and the automations, with their backups, and the settings, with  *)
(* a temporary file only.  And the plugin trust: what is loaded is trusted,   *)
(* whatever file a start comes to read, and its record is there, unless three *)
(* faults come together.  And the journal: what it saved is read back unless  *)
(* three faults come together, and nothing is left in plaintext.  Each store  *)
(* has its inductive invariant, a lemma per action and its theorem.           *)
EXTENDS ReminderFile, AutomationFile, SettingsFile, PluginTrust, JournalStore, TLAPS

(* Three candidates are enough to have a newest.                              *)
LEMMA NewestExists ==
  ASSUME NEW V \in SUBSET {"path", "temp", "bak"}, V # {}, NEW g, \A f \in V : g[f] \in Nat
  PROVE  \E f \in V : \A h \in V : g[h] <= g[f]
<1>1. CASE "path" \in V
  <2>1. PICK f \in V : g["path"] <= g[f] /\ ("temp" \in V => g["temp"] <= g[f])
    BY <1>1
  <2>2. PICK h \in V : g[f] <= g[h] /\ ("bak" \in V => g["bak"] <= g[h])
    BY <2>1
  <2>3. \A k \in V : g[k] <= g[h]
    BY <2>1, <2>2
  <2> QED  BY <2>3
<1>2. CASE "path" \notin V
  <2>1. CASE "temp" \in V /\ ("bak" \in V => g["bak"] <= g["temp"])
    BY <1>2, <2>1
  <2>2. CASE "bak" \in V /\ ("temp" \in V => g["temp"] <= g["bak"])
    BY <1>2, <2>2
  <2>3. "temp" \in V \/ "bak" \in V
    BY <1>2
  <2> QED  BY <2>1, <2>2, <2>3
<1> QED  BY <1>1, <1>2

-----------------------------------------------------------------------------
ReminderSteps == {"clean", "write", "drop", "rotate", "publish", "sweep"}
ReminderFileSet ==
  [path : ReminderImages \union {Missing}, bak : ReminderImages \union {Missing},
   temp : ReminderImages \union {Missing, Torn}]

ReminderShape ==
  /\ reminderFiles \in ReminderFileSet
  /\ reminderStore \in [up : BOOLEAN, gen : Nat]
  /\ reminderSave \in [step : {"idle"}] \union [step : ReminderSteps, image : ReminderImages]
  /\ reminderAcked \in [asked : Nat, saved : Nat, faults : 0..MaxReminderFaults]
  /\ reminderAcked.saved <= reminderAcked.asked
  /\ ~reminderStore.up => reminderSave.step = "idle"

(* The temporary file is newer than the file, the file than its backup, and   *)
(* neither than the generation of the store that runs.                        *)
ReminderOrder ==
  /\ ReminderParses(reminderFiles.temp) /\ ReminderParses(reminderFiles.path)
       => reminderFiles.temp.gen > reminderFiles.path.gen
  /\ ReminderParses(reminderFiles.temp) /\ ReminderParses(reminderFiles.bak)
       => reminderFiles.temp.gen > reminderFiles.bak.gen
  /\ ReminderParses(reminderFiles.path) /\ ReminderParses(reminderFiles.bak)
       => reminderFiles.path.gen > reminderFiles.bak.gen
  /\ reminderStore.up /\ ReminderParses(reminderFiles.bak)
       => reminderFiles.bak.gen <= reminderStore.gen
  /\ reminderStore.up /\ reminderSave.step # "sweep" /\ ReminderParses(reminderFiles.path)
       => reminderFiles.path.gen <= reminderStore.gen

ReminderRuns ==
  reminderSave.step # "idle" =>
    /\ reminderSave.image.gen = reminderStore.gen + 1
    /\ reminderSave.image.version = reminderAcked.asked
    /\ reminderSave.step \in {"write", "sweep"} => reminderFiles.temp = Missing
    /\ reminderSave.step \in {"drop", "rotate", "publish"}
         => reminderFiles.temp = reminderSave.image
    /\ reminderSave.step = "sweep" => reminderFiles.path = reminderSave.image
    /\ reminderSave.step = "publish" => reminderFiles.path = Missing
    /\ reminderSave.step = "rotate" => reminderFiles.path # Missing /\ reminderFiles.bak = Missing

(* The file, or its backup when there is no file, holds the last save that    *)
(* returned, or a later one: the temporary file is not needed.                *)
ReminderSettled ==
  \/ ReminderParses(reminderFiles.path) /\ reminderFiles.path.version >= reminderAcked.saved
  \/ /\ reminderFiles.path = Missing
     /\ ReminderParses(reminderFiles.bak) /\ reminderFiles.bak.version >= reminderAcked.saved

(* Only while a file is published whose backup was dropped for want of a      *)
(* primary is the temporary file all there is, and that takes a fault before. *)
ReminderPromise ==
  reminderAcked.saved # 0 =>
    /\ ReminderParses(reminderFiles.temp) => reminderFiles.temp.version >= reminderAcked.saved
    /\ ReminderSettled \/ (reminderSave.step = "publish" /\ reminderFiles.bak = Missing)
    /\ reminderFiles.path = Missing /\ reminderAcked.faults = 0
         => reminderSave.step = "publish" /\ reminderFiles.bak # Missing

ReminderInv == ReminderShape /\ ReminderOrder /\ ReminderRuns /\ ReminderPromise

-----------------------------------------------------------------------------
LEMMA ReminderBestIsNewest ==
  ASSUME ReminderShape, ReminderValid # {}
  PROVE  /\ ReminderBest \in ReminderValid /\ ReminderBest \in {"path", "temp", "bak"}
         /\ \A f \in ReminderValid : reminderFiles[f].gen <= reminderFiles[ReminderBest].gen
<1> DEFINE g == [f \in ReminderValid |-> reminderFiles[f].gen]
           newest == {f \in ReminderValid : \A h \in ReminderValid :
                        reminderFiles[h].gen <= reminderFiles[f].gen}
           Chosen(f) == \/ f = "path"
                        \/ f = "temp" /\ "path" \notin newest
                        \/ newest = {"bak"}
<1>1. ReminderValid \in SUBSET {"path", "temp", "bak"}
  BY DEF ReminderValid
<1>2. \A f \in ReminderValid : g[f] \in Nat
  <2> SUFFICES ASSUME NEW f \in ReminderValid PROVE reminderFiles[f].gen \in Nat
    OBVIOUS
  <2>1. f \in {"path", "temp", "bak"} /\ reminderFiles[f] \notin {Missing, Torn}
    BY DEF ReminderValid, ReminderParses, Readable
  <2>2. reminderFiles[f] \in ReminderImages
    BY <2>1 DEF ReminderShape, ReminderFileSet
  <2> QED  BY <2>2 DEF ReminderImages
<1>3. \E f \in ReminderValid : \A h \in ReminderValid : g[h] <= g[f]
  <2> HIDE DEF g
  <2> QED  BY <1>1, <1>2, NewestExists
<1>4. newest # {} /\ newest \subseteq {"path", "temp", "bak"}
  BY <1>1, <1>3
<1>5. \E f \in newest : Chosen(f)
  <2> HIDE DEF newest
  <2> QED  BY <1>4
<1>6. ReminderBest = CHOOSE f \in newest : Chosen(f)
  BY DEF ReminderBest
<1>7. ReminderBest \in newest
  <2> HIDE DEF newest, Chosen
  <2> QED  BY <1>5, <1>6
<1> QED  BY <1>1, <1>7

LEMMA InitReminderInv == ReminderFileInit => ReminderInv
  BY ReminderFileAssumption
     DEF ReminderFileInit, ReminderInv, ReminderShape, ReminderFileSet, ReminderOrder, ReminderRuns,
         ReminderPromise, ReminderParses, Readable

(* What the newest candidate says is no older than any file.                  *)
LEMMA ReminderLoadInv == ASSUME ReminderInv, ReminderLoad PROVE ReminderInv'
<1> USE DEF ReminderInv
<1>1. /\ UNCHANGED <<reminderFiles, reminderSave, reminderAcked>> /\ ~reminderStore.up
      /\ reminderSave.step = "idle"
  BY DEF ReminderLoad, ReminderShape
<1>2. PICK n \in Nat : /\ reminderStore' = [up |-> TRUE, gen |-> n]
                       /\ \A f \in ReminderValid : reminderFiles[f].gen <= n
  <2>1. CASE ReminderValid # {}
    <3>1. PICK f \in {"path", "temp", "bak"} : f = ReminderBest
      BY <2>1, ReminderBestIsNewest
    <3>2. f \in ReminderValid /\ \A h \in ReminderValid : reminderFiles[h].gen <= reminderFiles[f].gen
      BY <2>1, <3>1, ReminderBestIsNewest
    <3>3. reminderFiles[f].gen \in Nat
      BY <3>1, <3>2 DEF ReminderShape, ReminderFileSet, ReminderImages, ReminderValid, ReminderParses,
                        Readable
    <3>4. reminderStore' = [up |-> TRUE, gen |-> reminderFiles[f].gen]
      BY <2>1, <3>1 DEF ReminderLoad, ReminderValid, Present, ReminderParses, Readable, ReminderShape,
                        ReminderFileSet
    <3> QED  BY <3>2, <3>3, <3>4
  <2>2. CASE ReminderValid = {}
    BY <2>2 DEF ReminderLoad
  <2> QED  BY <2>1, <2>2
<1>3. /\ ReminderParses(reminderFiles.path) => reminderFiles.path.gen <= n
      /\ ReminderParses(reminderFiles.bak) => reminderFiles.bak.gen <= n
  BY <1>2 DEF ReminderValid, ReminderShape, ReminderFileSet
<1>4. ReminderShape'
  BY <1>1, <1>2 DEF ReminderShape
<1>5. ReminderOrder' /\ ReminderRuns' /\ ReminderPromise'
  BY <1>1, <1>2, <1>3 DEF ReminderOrder, ReminderRuns, ReminderPromise, ReminderSettled, ReminderParses
<1> QED  BY <1>4, <1>5

LEMMA ReminderBeginInv == ASSUME ReminderInv, ReminderBegin PROVE ReminderInv'
<1> USE DEF ReminderInv
<1>1. /\ UNCHANGED <<reminderFiles, reminderStore>> /\ reminderStore.up /\ reminderSave.step = "idle"
      /\ reminderAcked' = [reminderAcked EXCEPT !.asked = reminderAcked.asked + 1]
      /\ reminderSave' = [step |-> "clean", image |-> [gen |-> reminderStore.gen + 1,
                                                      version |-> reminderAcked.asked + 1]]
  BY DEF ReminderBegin, ReminderAt
<1>2. /\ reminderAcked'.asked = reminderAcked.asked + 1 /\ reminderAcked'.saved = reminderAcked.saved
      /\ reminderAcked'.faults = reminderAcked.faults
      /\ reminderAcked' \in [asked : Nat, saved : Nat, faults : 0..MaxReminderFaults]
  BY <1>1 DEF ReminderShape
<1>3. ReminderShape'
  BY <1>1, <1>2 DEF ReminderShape, ReminderImages, ReminderSteps
<1>4. ReminderOrder' /\ ReminderRuns' /\ ReminderPromise'
  BY <1>1, <1>2 DEF ReminderOrder, ReminderRuns, ReminderPromise, ReminderSettled, ReminderParses
<1> QED  BY <1>3, <1>4

(* A step of a save that runs, and only changes the files.                    *)
ReminderStepTo(step) ==
  /\ step \in ReminderSteps
  /\ reminderSave.step \in ReminderSteps
  /\ reminderSave' = [reminderSave EXCEPT !.step = step]
  /\ UNCHANGED <<reminderStore, reminderAcked>>

LEMMA ReminderStepShape ==
  ASSUME ReminderShape, NEW step, ReminderStepTo(step), reminderFiles' \in ReminderFileSet
  PROVE  /\ ReminderShape' /\ reminderSave'.step = step
         /\ reminderSave'.image = reminderSave.image /\ reminderSave.image \in ReminderImages
<1>1. reminderSave \in [step : ReminderSteps, image : ReminderImages]
  BY DEF ReminderShape, ReminderStepTo, ReminderSteps
<1>2. /\ reminderSave' \in [step : ReminderSteps, image : ReminderImages]
      /\ reminderSave'.step = step /\ reminderSave'.image = reminderSave.image
  BY <1>1 DEF ReminderStepTo
<1>3. reminderStore.up
  BY DEF ReminderShape, ReminderStepTo, ReminderSteps
<1> QED  BY <1>1, <1>2, <1>3 DEF ReminderShape, ReminderStepTo

LEMMA ReminderCleanInv == ASSUME ReminderInv, ReminderClean PROVE ReminderInv'
<1> USE DEF ReminderInv
<1>1. /\ reminderFiles' \in ReminderFileSet
      /\ reminderFiles'.temp = Missing /\ reminderFiles'.path = reminderFiles.path
      /\ reminderFiles'.bak = reminderFiles.bak
  BY DEF ReminderClean, ReminderShape, ReminderFileSet, ReminderAt, ReminderRuns
<1>2. ReminderStepTo("write") /\ reminderSave.step = "clean"
  BY DEF ReminderStepTo, ReminderClean, ReminderAt, ReminderGo, ReminderSteps
<1>3. /\ ReminderShape' /\ reminderSave'.step = "write" /\ reminderSave'.image = reminderSave.image
      /\ reminderSave.image \in ReminderImages
  BY <1>1, <1>2, ReminderStepShape
<1>4. UNCHANGED <<reminderStore, reminderAcked>>
  BY <1>2 DEF ReminderStepTo
<1>5. ReminderOrder' /\ ReminderRuns' /\ ReminderPromise'
  BY <1>1, <1>2, <1>3, <1>4, ReminderFileAssumption
     DEF ReminderShape, ReminderImages, ReminderOrder, ReminderRuns, ReminderPromise, ReminderSettled,
         ReminderParses, Readable
<1> QED  BY <1>3, <1>5

LEMMA ReminderWriteInv == ASSUME ReminderInv, ReminderWrite PROVE ReminderInv'
<1> USE DEF ReminderInv
<1>0. reminderSave.image \in ReminderImages
  BY DEF ReminderWrite, ReminderAt, ReminderShape
<1>1. /\ reminderFiles' \in ReminderFileSet
      /\ reminderFiles'.temp = reminderSave.image /\ reminderFiles'.path = reminderFiles.path
      /\ reminderFiles'.bak = reminderFiles.bak
  BY <1>0 DEF ReminderWrite, ReminderShape, ReminderFileSet, ReminderAt, ReminderRuns
<1>2. ReminderStepTo("drop") /\ reminderSave.step = "write"
  BY DEF ReminderStepTo, ReminderWrite, ReminderAt, ReminderGo, ReminderSteps
<1>3. /\ ReminderShape' /\ reminderSave'.step = "drop" /\ reminderSave'.image = reminderSave.image
      /\ reminderSave.image \in ReminderImages
  BY <1>1, <1>2, ReminderStepShape
<1>4. UNCHANGED <<reminderStore, reminderAcked>>
  BY <1>2 DEF ReminderStepTo
<1>5. ReminderOrder'
  BY <1>1, <1>2, <1>3, <1>4, ReminderFileAssumption
     DEF ReminderShape, ReminderFileSet, ReminderImages, ReminderOrder, ReminderRuns,
         ReminderParses, Readable
<1>6. ReminderRuns'
  BY <1>1, <1>2, <1>3, <1>4, ReminderFileAssumption
     DEF ReminderShape, ReminderImages, ReminderRuns
<1>7. ReminderPromise'
  BY <1>1, <1>2, <1>3, <1>4, ReminderFileAssumption
     DEF ReminderShape, ReminderFileSet, ReminderImages, ReminderRuns, ReminderPromise,
         ReminderSettled, ReminderParses, Readable
<1> QED  BY <1>3, <1>5, <1>6, <1>7

LEMMA ReminderDropBackupInv == ASSUME ReminderInv, ReminderDropBackup PROVE ReminderInv'
<1> USE DEF ReminderInv
<1>1. /\ reminderFiles' \in ReminderFileSet /\ reminderFiles'.bak = Missing
      /\ reminderFiles'.path = reminderFiles.path /\ reminderFiles'.temp = reminderFiles.temp
  BY DEF ReminderDropBackup, ReminderShape, ReminderFileSet
<1>2. PICK step : step = IF Present(reminderFiles.path) THEN "rotate" ELSE "publish"
  OBVIOUS
<1>3. ReminderStepTo(step) /\ reminderSave.step = "drop"
  BY <1>2 DEF ReminderStepTo, ReminderDropBackup, ReminderAt, ReminderGo, ReminderSteps
<1>4. /\ ReminderShape' /\ reminderSave'.step = step /\ reminderSave'.image = reminderSave.image
      /\ reminderSave.image \in ReminderImages
  BY <1>1, <1>3, ReminderStepShape
<1>5. UNCHANGED <<reminderStore, reminderAcked>>
  BY <1>3 DEF ReminderStepTo
<1>6. ReminderOrder' /\ ReminderRuns' /\ ReminderPromise'
  BY <1>1, <1>2, <1>3, <1>4, <1>5, ReminderFileAssumption
     DEF ReminderShape, ReminderImages, ReminderOrder, ReminderRuns, ReminderPromise, ReminderSettled,
         ReminderParses, Readable, Present
<1> QED  BY <1>4, <1>6

LEMMA ReminderRotateInv == ASSUME ReminderInv, ReminderRotate PROVE ReminderInv'
<1> USE DEF ReminderInv
<1>1. /\ reminderFiles' \in ReminderFileSet
      /\ reminderFiles'.bak = reminderFiles.path /\ reminderFiles'.path = Missing
      /\ reminderFiles'.temp = reminderFiles.temp
  BY DEF ReminderRotate, ReminderShape, ReminderFileSet, ReminderAt, ReminderRuns
<1>2. ReminderStepTo("publish") /\ reminderSave.step = "rotate"
  BY DEF ReminderStepTo, ReminderRotate, ReminderAt, ReminderGo, ReminderSteps
<1>3. /\ ReminderShape' /\ reminderSave'.step = "publish" /\ reminderSave'.image = reminderSave.image
      /\ reminderSave.image \in ReminderImages
  BY <1>1, <1>2, ReminderStepShape
<1>4. UNCHANGED <<reminderStore, reminderAcked>>
  BY <1>2 DEF ReminderStepTo
<1>5. ReminderOrder' /\ ReminderRuns' /\ ReminderPromise'
  BY <1>1, <1>2, <1>3, <1>4, ReminderFileAssumption
     DEF ReminderShape, ReminderImages, ReminderOrder, ReminderRuns, ReminderPromise, ReminderSettled,
         ReminderParses, Readable
<1> QED  BY <1>3, <1>5

LEMMA ReminderPublishInv == ASSUME ReminderInv, ReminderPublish PROVE ReminderInv'
<1> USE DEF ReminderInv
<1>0. reminderFiles.temp \in ReminderImages /\ reminderFiles.temp = reminderSave.image
  BY DEF ReminderPublish, ReminderAt, ReminderShape, ReminderRuns
<1>1. /\ reminderFiles' \in ReminderFileSet
      /\ reminderFiles'.path = reminderFiles.temp /\ reminderFiles'.temp = Missing
      /\ reminderFiles'.bak = reminderFiles.bak
  BY <1>0 DEF ReminderPublish, ReminderShape, ReminderFileSet, ReminderAt, ReminderRuns
<1>2. ReminderStepTo("sweep") /\ reminderSave.step = "publish"
  BY DEF ReminderStepTo, ReminderPublish, ReminderAt, ReminderGo, ReminderSteps
<1>3. /\ ReminderShape' /\ reminderSave'.step = "sweep" /\ reminderSave'.image = reminderSave.image
      /\ reminderSave.image \in ReminderImages
  BY <1>1, <1>2, ReminderStepShape
<1>4. UNCHANGED <<reminderStore, reminderAcked>>
  BY <1>2 DEF ReminderStepTo
<1>5. ReminderOrder' /\ ReminderRuns' /\ ReminderPromise'
  BY <1>1, <1>2, <1>3, <1>4, ReminderFileAssumption
     DEF ReminderShape, ReminderImages, ReminderOrder, ReminderRuns, ReminderPromise, ReminderSettled,
         ReminderParses, Readable
<1> QED  BY <1>3, <1>5

(* The save returns, and the files hold what it promises.                     *)
LEMMA ReminderSweepInv == ASSUME ReminderInv, ReminderSweep PROVE ReminderInv'
<1> USE DEF ReminderInv
<1>1. /\ reminderFiles' \in ReminderFileSet /\ reminderFiles'.bak \in {Missing, reminderFiles.bak}
      /\ reminderFiles'.path = reminderFiles.path /\ reminderFiles'.temp = reminderFiles.temp
  BY DEF ReminderSweep, ReminderShape, ReminderFileSet
<1>2. /\ reminderSave.step = "sweep" /\ reminderSave' = [step |-> "idle"] /\ reminderStore.up
      /\ reminderSave.image \in ReminderImages /\ reminderSave'.step = "idle"
  BY DEF ReminderSweep, ReminderAt, ReminderEnd, ReminderShape
<1>3. /\ reminderStore' \in [up : BOOLEAN, gen : Nat]
      /\ reminderStore'.gen = reminderSave.image.gen /\ reminderStore'.up = reminderStore.up
      /\ reminderAcked' \in [asked : Nat, saved : Nat, faults : 0..MaxReminderFaults]
      /\ reminderAcked'.asked = reminderAcked.asked
      /\ reminderAcked'.saved = reminderSave.image.version /\ reminderAcked'.faults = 0
  <2>1. /\ reminderSave.image.gen \in Nat /\ reminderSave.image.version \in Nat
        /\ 0 \in 0..MaxReminderFaults
    BY <1>2, ReminderFileAssumption DEF ReminderImages
  <2>2. /\ reminderStore' \in [up : BOOLEAN, gen : Nat]
        /\ reminderStore'.gen = reminderSave.image.gen /\ reminderStore'.up = reminderStore.up
    BY <2>1 DEF ReminderSweep, ReminderShape
  <2>3. /\ reminderAcked' \in [asked : Nat, saved : Nat, faults : 0..MaxReminderFaults]
        /\ reminderAcked'.asked = reminderAcked.asked
        /\ reminderAcked'.saved = reminderSave.image.version /\ reminderAcked'.faults = 0
    BY <2>1 DEF ReminderSweep, ReminderShape
  <2> QED  BY <2>2, <2>3
<1>4. ReminderShape'
  BY <1>1, <1>2, <1>3 DEF ReminderShape, ReminderRuns, ReminderImages
<1>5. ReminderOrder'
  BY <1>1, <1>2, <1>3, ReminderFileAssumption
     DEF ReminderShape, ReminderFileSet, ReminderImages, ReminderOrder, ReminderRuns,
         ReminderParses, Readable
<1>6. ReminderRuns'
  BY <1>1, <1>2, <1>3, ReminderFileAssumption
     DEF ReminderShape, ReminderImages, ReminderRuns
<1>7. ReminderPromise'
  BY <1>1, <1>2, <1>3, ReminderFileAssumption
     DEF ReminderShape, ReminderFileSet, ReminderImages, ReminderRuns, ReminderPromise,
         ReminderSettled, ReminderParses, Readable
<1> QED  BY <1>4, <1>5, <1>6, <1>7

(* A fault ends the save, and perhaps the process.                            *)
ReminderBroken ==
  /\ ReminderFault /\ reminderSave' = [step |-> "idle"]
  /\ UNCHANGED reminderStore \/ reminderStore' = [up |-> FALSE, gen |-> 0]

LEMMA ReminderBrokenShape ==
  ASSUME ReminderShape, ReminderBroken, reminderFiles' \in ReminderFileSet
  PROVE  /\ ReminderShape' /\ reminderSave'.step = "idle"
         /\ reminderAcked'.asked = reminderAcked.asked /\ reminderAcked'.saved = reminderAcked.saved
         /\ reminderAcked'.faults = reminderAcked.faults + 1
         /\ reminderAcked.faults < MaxReminderFaults /\ reminderAcked.faults \in Nat
         /\ reminderStore'.up => reminderStore.up /\ UNCHANGED reminderStore
<1>1. /\ reminderAcked' \in [asked : Nat, saved : Nat, faults : 0..MaxReminderFaults]
      /\ reminderAcked'.asked = reminderAcked.asked /\ reminderAcked'.saved = reminderAcked.saved
      /\ reminderAcked'.faults = reminderAcked.faults + 1
      /\ reminderAcked.faults < MaxReminderFaults /\ reminderAcked.faults \in Nat
  BY ReminderFileAssumption DEF ReminderBroken, ReminderFault, ReminderShape
<1>2. reminderSave'.step = "idle" /\ reminderSave' \in [step : {"idle"}]
  BY DEF ReminderBroken
<1>3. /\ reminderStore' \in [up : BOOLEAN, gen : Nat]
      /\ reminderStore'.up => reminderStore.up /\ UNCHANGED reminderStore
  <2>1. CASE UNCHANGED reminderStore
    BY <2>1 DEF ReminderShape
  <2>2. CASE reminderStore' = [up |-> FALSE, gen |-> 0]
    BY <2>2
  <2> QED  BY <2>1, <2>2 DEF ReminderBroken
<1> QED  BY <1>1, <1>2, <1>3 DEF ReminderShape

(* Here at most one fault since the last save that returned is used: with two *)
(* the temporary file may be all there is when the next save removes it.      *)
LEMMA ReminderWriteFailsInv == ASSUME ReminderInv, ReminderWriteFails PROVE ReminderInv'
<1> USE DEF ReminderInv
<1>0. reminderSave.image \in ReminderImages /\ reminderSave.step = "write" /\ reminderStore.up
  BY DEF ReminderWriteFails, ReminderAt, ReminderShape
<1>1. /\ reminderFiles' \in ReminderFileSet
      /\ reminderFiles'.temp \in {reminderFiles.temp, Torn, reminderSave.image}
      /\ reminderFiles'.path = reminderFiles.path /\ reminderFiles'.bak = reminderFiles.bak
  BY <1>0 DEF ReminderWriteFails, ReminderShape, ReminderFileSet
<1>2. ReminderBroken /\ UNCHANGED reminderStore
  BY DEF ReminderWriteFails, ReminderBroken, ReminderEnd
<1>3. /\ ReminderShape' /\ reminderSave'.step = "idle"
      /\ reminderAcked'.asked = reminderAcked.asked /\ reminderAcked'.saved = reminderAcked.saved
      /\ reminderAcked'.faults = reminderAcked.faults + 1 /\ reminderAcked.faults \in Nat
  BY <1>1, <1>2, ReminderBrokenShape
<1>4. ReminderOrder'
  BY <1>0, <1>1, <1>2, <1>3, ReminderFileAssumption
     DEF ReminderShape, ReminderFileSet, ReminderImages, ReminderOrder, ReminderRuns,
         ReminderParses, Readable
<1>5. ReminderRuns'
  BY <1>0, <1>1, <1>2, <1>3, ReminderFileAssumption
     DEF ReminderShape, ReminderImages, ReminderRuns
<1>6. ReminderPromise'
  BY <1>0, <1>1, <1>2, <1>3, ReminderFileAssumption
     DEF ReminderShape, ReminderFileSet, ReminderImages, ReminderRuns, ReminderPromise,
         ReminderSettled, ReminderParses, Readable
<1> QED  BY <1>3, <1>4, <1>5, <1>6

LEMMA ReminderRotateFailsInv == ASSUME ReminderInv, ReminderRotateFails PROVE ReminderInv'
<1> USE DEF ReminderInv
<1>0. reminderSave.image \in ReminderImages /\ reminderSave.step = "rotate" /\ reminderStore.up
  BY DEF ReminderRotateFails, ReminderAt, ReminderShape
<1>1. /\ reminderFiles' \in ReminderFileSet /\ reminderFiles'.temp = Missing
      /\ reminderFiles'.path = reminderFiles.path /\ reminderFiles'.bak = reminderFiles.bak
  BY <1>0 DEF ReminderRotateFails, ReminderShape, ReminderFileSet
<1>2. ReminderBroken /\ UNCHANGED reminderStore
  BY DEF ReminderRotateFails, ReminderBroken, ReminderEnd
<1>3. /\ ReminderShape' /\ reminderSave'.step = "idle"
      /\ reminderAcked'.asked = reminderAcked.asked /\ reminderAcked'.saved = reminderAcked.saved
      /\ reminderAcked'.faults = reminderAcked.faults + 1 /\ reminderAcked.faults \in Nat
  BY <1>1, <1>2, ReminderBrokenShape
<1>4. ReminderOrder' /\ ReminderRuns' /\ ReminderPromise'
  BY <1>0, <1>1, <1>2, <1>3, ReminderFileAssumption
     DEF ReminderShape, ReminderImages, ReminderOrder, ReminderRuns, ReminderPromise, ReminderSettled,
         ReminderParses, Readable
<1> QED  BY <1>3, <1>4

LEMMA ReminderPublishFailsInv ==
  ASSUME MaxReminderFaults <= 1, ReminderInv, ReminderPublishFails PROVE ReminderInv'
<1> USE DEF ReminderInv
<1>0. /\ reminderSave.image \in ReminderImages /\ reminderSave.step = "publish" /\ reminderStore.up
      /\ reminderFiles.path = Missing /\ reminderFiles.temp = reminderSave.image
  BY DEF ReminderPublishFails, ReminderAt, ReminderShape, ReminderRuns
<1>1. /\ reminderFiles' \in ReminderFileSet /\ reminderFiles'.temp = reminderFiles.temp
      /\ \/ /\ reminderFiles'.path = reminderFiles.bak /\ reminderFiles'.bak = Missing
            /\ reminderFiles.bak # Missing
         \/ reminderFiles'.path = reminderFiles.path /\ reminderFiles'.bak = reminderFiles.bak
  BY <1>0 DEF ReminderPublishFails, ReminderShape, ReminderFileSet, Present
<1>2. ReminderBroken /\ UNCHANGED reminderStore
  BY DEF ReminderPublishFails, ReminderBroken, ReminderEnd
<1>3. /\ ReminderShape' /\ reminderSave'.step = "idle"
      /\ reminderAcked'.asked = reminderAcked.asked /\ reminderAcked'.saved = reminderAcked.saved
      /\ reminderAcked'.faults = reminderAcked.faults + 1 /\ reminderAcked.faults = 0
  BY <1>1, <1>2, ReminderBrokenShape, ReminderFileAssumption
<1>4. ReminderOrder' /\ ReminderRuns' /\ ReminderPromise'
  BY <1>0, <1>1, <1>2, <1>3, ReminderFileAssumption
     DEF ReminderShape, ReminderImages, ReminderOrder, ReminderRuns, ReminderPromise, ReminderSettled,
         ReminderParses, Readable
<1> QED  BY <1>3, <1>4

LEMMA ReminderKillInv ==
  ASSUME MaxReminderFaults <= 1, ReminderInv, ReminderKill PROVE ReminderInv'
<1> USE DEF ReminderInv
<1>0. reminderSave.step = "write" => reminderSave.image \in ReminderImages
  BY DEF ReminderShape
<1>1. /\ reminderFiles' \in ReminderFileSet
      /\ \/ reminderFiles'.temp = reminderFiles.temp
         \/ reminderSave.step = "write" /\ reminderFiles'.temp \in {Torn, reminderSave.image}
      /\ reminderFiles'.path = reminderFiles.path /\ reminderFiles'.bak = reminderFiles.bak
  BY <1>0 DEF ReminderKill, ReminderAt, ReminderShape, ReminderFileSet
<1>2. ReminderBroken /\ ~reminderStore'.up
  BY DEF ReminderKill, ReminderBroken, ReminderEnd
<1>3. /\ ReminderShape' /\ reminderSave'.step = "idle"
      /\ reminderAcked'.asked = reminderAcked.asked /\ reminderAcked'.saved = reminderAcked.saved
      /\ reminderAcked'.faults = reminderAcked.faults + 1 /\ reminderAcked.faults = 0
  BY <1>1, <1>2, ReminderBrokenShape, ReminderFileAssumption
<1>4. ReminderOrder'
  BY <1>0, <1>1, <1>2, <1>3, ReminderFileAssumption
     DEF ReminderShape, ReminderFileSet, ReminderImages, ReminderOrder, ReminderRuns,
         ReminderParses, Readable
<1>5. ReminderRuns'
  BY <1>0, <1>1, <1>2, <1>3, ReminderFileAssumption
     DEF ReminderShape, ReminderImages, ReminderRuns
<1>6. ReminderPromise'
  BY <1>0, <1>1, <1>2, <1>3, ReminderFileAssumption
     DEF ReminderShape, ReminderFileSet, ReminderImages, ReminderRuns, ReminderPromise,
         ReminderSettled, ReminderParses, Readable
<1> QED  BY <1>3, <1>4, <1>5, <1>6

LEMMA ReminderQuitInv == ASSUME ReminderInv, ReminderQuit PROVE ReminderInv'
<1> USE DEF ReminderInv
<1>1. /\ UNCHANGED <<reminderFiles, reminderSave, reminderAcked>>
      /\ reminderStore' = [up |-> FALSE, gen |-> 0] /\ reminderSave.step = "idle"
  BY DEF ReminderQuit, ReminderAt
<1>2. ReminderShape'
  BY <1>1 DEF ReminderShape
<1>3. ReminderOrder' /\ ReminderRuns' /\ ReminderPromise'
  BY <1>1 DEF ReminderOrder, ReminderRuns, ReminderPromise, ReminderSettled, ReminderParses
<1> QED  BY <1>2, <1>3

LEMMA NextReminderInv ==
  ASSUME MaxReminderFaults <= 1, ReminderInv, [ReminderFileNext]_reminderFileVars PROVE ReminderInv'
<1>1. CASE UNCHANGED reminderFileVars
  BY <1>1 DEF reminderFileVars, ReminderInv, ReminderShape, ReminderOrder, ReminderRuns,
              ReminderPromise, ReminderSettled, ReminderParses
<1> QED  BY <1>1, ReminderLoadInv, ReminderBeginInv, ReminderCleanInv, ReminderWriteInv,
            ReminderDropBackupInv, ReminderRotateInv, ReminderPublishInv, ReminderSweepInv,
            ReminderWriteFailsInv, ReminderRotateFailsInv, ReminderPublishFailsInv, ReminderKillInv,
            ReminderQuitInv DEF ReminderFileNext

(* However long the life of the store and wherever one call fails or the      *)
(* process is killed between two saves that return, the next load reads the   *)
(* last save that returned or a later one.                                    *)
THEOREM RemindersAreReadBack ==
  ASSUME MaxReminderFaults <= 1 PROVE ReminderFileSpec => []RemindersReadBack
<1>1. ReminderFileInit => ReminderInv
  BY InitReminderInv
<1>2. ReminderInv /\ [ReminderFileNext]_reminderFileVars => ReminderInv'
  BY NextReminderInv
<1>3. ReminderInv => RemindersReadBack
  <2> SUFFICES ASSUME ReminderInv, reminderAcked.saved # 0
               PROVE  /\ ReminderValid # {}
                      /\ reminderFiles[ReminderBest].version >= reminderAcked.saved
    BY DEF RemindersReadBack
  <2>1. ReminderSettled \/ ReminderParses(reminderFiles.temp)
    BY ReminderFileAssumption
       DEF ReminderInv, ReminderPromise, ReminderRuns, ReminderShape, ReminderParses, Readable
  <2>2. ReminderValid # {}
    BY <2>1 DEF ReminderSettled, ReminderValid
  <2>3. PICK f \in {"path", "temp", "bak"} : f = ReminderBest
    BY <2>2, ReminderBestIsNewest DEF ReminderInv
  <2>4. /\ ReminderParses(reminderFiles[f])
        /\ \A h \in ReminderValid : reminderFiles[h].gen <= reminderFiles[f].gen
    BY <2>2, <2>3, ReminderBestIsNewest DEF ReminderInv, ReminderValid
  <2>5. \A h \in {"path", "temp", "bak"} :
          ReminderParses(reminderFiles[h]) => reminderFiles[h].gen <= reminderFiles[f].gen
    BY <2>4 DEF ReminderValid
  <2>6. \A h \in {"path", "temp", "bak"} :
          ReminderParses(reminderFiles[h]) => reminderFiles[h].gen \in Nat
    BY DEF ReminderInv, ReminderShape, ReminderFileSet, ReminderImages, ReminderParses, Readable
  <2>7. CASE f = "temp"
    BY <2>2, <2>3, <2>4, <2>7 DEF ReminderInv, ReminderPromise
  <2>8. CASE f = "path"
    <3>1. reminderFiles.path # Missing /\ ReminderParses(reminderFiles.path)
      BY <2>4, <2>8 DEF ReminderParses, Readable
    <3>2. reminderSave.step # "publish"
      BY <3>1 DEF ReminderInv, ReminderRuns
    <3> QED  BY <2>2, <2>3, <2>8, <3>1, <3>2 DEF ReminderInv, ReminderPromise, ReminderSettled
  <2>9. CASE f = "bak"
    <3>1. ReminderParses(reminderFiles.bak) /\ reminderFiles.bak # Missing
      BY <2>4, <2>9 DEF ReminderParses, Readable
    <3>2. ~ReminderParses(reminderFiles.temp) /\ ~ReminderParses(reminderFiles.path)
      BY <2>5, <2>6, <2>9, <3>1 DEF ReminderInv, ReminderOrder
    <3> QED  BY <2>2, <2>3, <2>9, <3>1, <3>2 DEF ReminderInv, ReminderPromise, ReminderSettled
  <2> QED  BY <2>2, <2>3, <2>7, <2>8, <2>9
<1> QED  BY <1>1, <1>2, <1>3, PTL DEF ReminderFileSpec

-----------------------------------------------------------------------------
AutomationSteps == {"clean", "write", "drop", "rotate", "publish"}
(* What was written whole: the codec accepts it.                              *)
AutomationWhole ==
  [gen : Nat, automation : {a \in Automations : Parsable(a)}, version : Nat]
AutomationFileSet ==
  [path : AutomationWhole \union {Missing}, bak : AutomationWhole \union {Missing},
   temp : AutomationWhole \union {Missing, Torn}]

AutomationShape ==
  /\ automationFiles \in AutomationFileSet
  /\ automationStore \in [up : BOOLEAN, gen : Nat]
  /\ automationSave \in [step : {"idle"}] \union [step : AutomationSteps, image : AutomationWhole]
  /\ automationAcked \in [asked : Nat, saved : Nat, faults : 0..MaxAutomationFaults]
  /\ automationAcked.saved <= automationAcked.asked
  /\ ~automationStore.up => automationSave.step = "idle"

(* The temporary file is newer than the file, the file than its backup, and   *)
(* neither than the generation of the store that runs.                        *)
AutomationOrder ==
  /\ Readable(automationFiles.temp) /\ Readable(automationFiles.path)
       => automationFiles.temp.gen > automationFiles.path.gen
  /\ Readable(automationFiles.temp) /\ Readable(automationFiles.bak)
       => automationFiles.temp.gen > automationFiles.bak.gen
  /\ Readable(automationFiles.path) /\ Readable(automationFiles.bak)
       => automationFiles.path.gen > automationFiles.bak.gen
  /\ automationStore.up /\ Readable(automationFiles.bak)
       => automationFiles.bak.gen <= automationStore.gen
  /\ automationStore.up /\ Readable(automationFiles.path)
       => automationFiles.path.gen <= automationStore.gen

AutomationRuns ==
  automationSave.step # "idle" =>
    /\ automationSave.image.gen = automationStore.gen + 1
    /\ automationSave.image.version = automationAcked.asked
    /\ automationSave.step = "write" => automationFiles.temp = Missing
    /\ automationSave.step \in {"drop", "rotate", "publish"}
         => automationFiles.temp = automationSave.image
    /\ automationSave.step = "publish" => automationFiles.path = Missing
    /\ automationSave.step = "rotate" => automationFiles.path # Missing /\ automationFiles.bak = Missing

(* The file, or its backup when there is no file, holds the last save that    *)
(* returned, or a later one: the temporary file is not needed.                *)
AutomationSettled ==
  \/ Readable(automationFiles.path) /\ automationFiles.path.version >= automationAcked.saved
  \/ /\ automationFiles.path = Missing
     /\ Readable(automationFiles.bak) /\ automationFiles.bak.version >= automationAcked.saved

(* Only while a file is published whose backup was dropped for want of a      *)
(* primary is the temporary file all there is, and that takes a fault before. *)
AutomationPromise ==
  automationAcked.saved # 0 =>
    /\ Readable(automationFiles.temp) => automationFiles.temp.version >= automationAcked.saved
    /\ AutomationSettled \/ (automationSave.step = "publish" /\ automationFiles.bak = Missing)
    /\ automationFiles.path = Missing /\ automationAcked.faults = 0
         => automationSave.step = "publish" /\ automationFiles.bak # Missing

AutomationInv == AutomationShape /\ AutomationOrder /\ AutomationRuns /\ AutomationPromise

-----------------------------------------------------------------------------
LEMMA WritableParses == ASSUME NEW a \in Automations, Writable(a) PROVE Parsable(a)
  BY DEF Writable, Parsable, Automations, Automation, MaxRetries

LEMMA WholeParses ==
  ASSUME NEW f \in AutomationWhole \union {Missing, Torn}
  PROVE  AutomationParses(f) <=> Readable(f)
  BY DEF AutomationParses, Readable, AutomationWhole

LEMMA MissingIsNotWhole ==
  Missing # Torn /\ Missing \notin AutomationWhole /\ Torn \notin AutomationWhole
  BY AutomationFileAssumption DEF AutomationWhole, AutomationImages

LEMMA AutomationValidAre ==
  ASSUME AutomationShape
  PROVE  /\ AutomationValid = {f \in {"path", "temp", "bak"} : Readable(automationFiles[f])}
         /\ \A f \in AutomationValid : automationFiles[f] \in AutomationWhole
<1>1. \A f \in {"path", "temp", "bak"} :
        /\ automationFiles[f] \in AutomationWhole \union {Missing, Torn}
        /\ AutomationParses(automationFiles[f]) <=> Readable(automationFiles[f])
  BY WholeParses DEF AutomationShape, AutomationFileSet
<1> QED  BY <1>1 DEF AutomationValid, Readable

LEMMA AutomationBestIsNewest ==
  ASSUME AutomationShape, AutomationValid # {}
  PROVE  /\ AutomationBest \in AutomationValid /\ AutomationBest \in {"path", "temp", "bak"}
         /\ \A f \in AutomationValid : automationFiles[f].gen <= automationFiles[AutomationBest].gen
<1> DEFINE g == [f \in AutomationValid |-> automationFiles[f].gen]
           newest == {f \in AutomationValid : \A h \in AutomationValid :
                        automationFiles[h].gen <= automationFiles[f].gen}
           Chosen(f) == \/ f = "path"
                        \/ f = "temp" /\ "path" \notin newest
                        \/ newest = {"bak"}
<1>1. AutomationValid \in SUBSET {"path", "temp", "bak"}
  BY DEF AutomationValid
<1>2. \A f \in AutomationValid : g[f] \in Nat
  <2> SUFFICES ASSUME NEW f \in AutomationValid PROVE automationFiles[f].gen \in Nat
    OBVIOUS
  <2>1. automationFiles[f] \in AutomationWhole
    BY AutomationValidAre
  <2> QED  BY <2>1 DEF AutomationWhole
<1>3. \E f \in AutomationValid : \A h \in AutomationValid : g[h] <= g[f]
  <2> HIDE DEF g
  <2> QED  BY <1>1, <1>2, NewestExists
<1>4. newest # {} /\ newest \subseteq {"path", "temp", "bak"}
  BY <1>1, <1>3
<1>5. \E f \in newest : Chosen(f)
  <2> HIDE DEF newest
  <2> QED  BY <1>4
<1>6. AutomationBest = CHOOSE f \in newest : Chosen(f)
  BY DEF AutomationBest
<1>7. AutomationBest \in newest
  <2> HIDE DEF newest, Chosen
  <2> QED  BY <1>5, <1>6
<1> QED  BY <1>1, <1>7

LEMMA InitAutomationInv == AutomationFileInit => AutomationInv
  BY AutomationFileAssumption, MissingIsNotWhole
     DEF AutomationFileInit, AutomationInv, AutomationShape, AutomationFileSet, AutomationOrder, AutomationRuns,
         AutomationPromise, Readable

(* What the newest candidate says is no older than any file.                  *)
LEMMA AutomationLoadInv == ASSUME AutomationInv, AutomationLoad PROVE AutomationInv'
<1> USE DEF AutomationInv
<1>1. /\ UNCHANGED <<automationFiles, automationSave, automationAcked>> /\ ~automationStore.up
      /\ automationSave.step = "idle"
  BY DEF AutomationLoad, AutomationShape
<1>2. PICK n \in Nat : /\ automationStore' = [up |-> TRUE, gen |-> n]
                       /\ \A f \in AutomationValid : automationFiles[f].gen <= n
  <2>1. CASE AutomationValid # {}
    <3>1. PICK f \in {"path", "temp", "bak"} : f = AutomationBest
      BY <2>1, AutomationBestIsNewest
    <3>2. f \in AutomationValid /\ \A h \in AutomationValid : automationFiles[h].gen <= automationFiles[f].gen
      BY <2>1, <3>1, AutomationBestIsNewest
    <3>3. automationFiles[f].gen \in Nat
      BY <3>2, AutomationValidAre DEF AutomationWhole
    <3>4. f \in DOMAIN automationFiles /\ Present(automationFiles[f])
      BY <3>1, <3>2, AutomationValidAre, MissingIsNotWhole DEF Present, AutomationShape, AutomationFileSet
    <3>5. automationStore' = [up |-> TRUE, gen |-> automationFiles[f].gen]
      BY <3>1, <3>4 DEF AutomationLoad
    <3> QED  BY <3>2, <3>3, <3>5
  <2>2. CASE AutomationValid = {}
    BY <2>2 DEF AutomationLoad
  <2> QED  BY <2>1, <2>2
<1>3. /\ Readable(automationFiles.path) => automationFiles.path.gen <= n
      /\ Readable(automationFiles.bak) => automationFiles.bak.gen <= n
  BY <1>2, AutomationValidAre
<1>4. AutomationShape'
  BY <1>1, <1>2 DEF AutomationShape
<1>5. AutomationOrder' /\ AutomationRuns' /\ AutomationPromise'
  BY <1>1, <1>2, <1>3 DEF AutomationOrder, AutomationRuns, AutomationPromise, AutomationSettled
<1> QED  BY <1>4, <1>5

(* The generation a save starts from is that of the store or, when it has     *)
(* none, the newest on disk.                                                  *)
LEMMA AutomationGenerationIs ==
  ASSUME AutomationShape
  PROVE  /\ AutomationGeneration \in Nat
         /\ \/ AutomationGeneration = automationStore.gen
            \/ \A f \in AutomationValid : automationFiles[f].gen <= AutomationGeneration
<1> DEFINE S == {0} \union {automationFiles[f].gen : f \in AutomationValid}
           g == [f \in AutomationValid |-> automationFiles[f].gen]
<1>1. automationStore.gen \in Nat
  BY DEF AutomationShape
<1>2. \A f \in AutomationValid : automationFiles[f].gen \in Nat
  BY AutomationValidAre DEF AutomationWhole
<1>3. \E x \in S : x \in Nat /\ \A y \in S : x >= y
  <2>1. CASE AutomationValid = {}
    BY <2>1
  <2>2. CASE AutomationValid # {}
    <3>1. \A f \in AutomationValid : g[f] \in Nat
      BY <1>2
    <3>2. AutomationValid \in SUBSET {"path", "temp", "bak"}
      BY DEF AutomationValid
    <3>3. \E f \in AutomationValid : \A h \in AutomationValid : g[h] <= g[f]
      <4> HIDE DEF g
      <4> QED  BY <2>2, <3>1, <3>2, NewestExists
    <3>4. PICK f \in AutomationValid : \A h \in AutomationValid :
            automationFiles[h].gen <= automationFiles[f].gen
      BY <3>3
    <3>5. automationFiles[f].gen \in S /\ automationFiles[f].gen \in Nat
      BY <1>2
    <3>6. \A y \in S : automationFiles[f].gen >= y
      BY <1>2, <3>4
    <3> QED  BY <3>5, <3>6
  <2> QED  BY <2>1, <2>2
<1>4. S \subseteq Nat
  BY <1>2
<1>5. Max(S) \in S /\ \A y \in S : Max(S) >= y
  <2> HIDE DEF S
  <2> QED  BY <1>3 DEF Max
<1>6. Max(S) \in Nat /\ \A f \in AutomationValid : automationFiles[f].gen <= Max(S)
  BY <1>2, <1>4, <1>5
<1>7. AutomationGeneration = IF automationStore.gen # 0 THEN automationStore.gen ELSE Max(S)
  BY DEF AutomationGeneration
<1> HIDE DEF S
<1> QED  BY <1>1, <1>6, <1>7

LEMMA AutomationBeginInv ==
  ASSUME AutomationInv, NEW a \in Automations, AutomationBegin(a) PROVE AutomationInv'
<1> USE DEF AutomationInv
<1>1. PICK n \in Nat : /\ n = AutomationGeneration
                       /\ \/ n = automationStore.gen
                          \/ \A f \in AutomationValid : automationFiles[f].gen <= n
  BY AutomationGenerationIs
<1>2. /\ UNCHANGED automationFiles /\ automationStore.up /\ automationSave.step = "idle"
      /\ automationAcked' = [automationAcked EXCEPT !.asked = automationAcked.asked + 1]
      /\ automationStore' = [automationStore EXCEPT !.gen = n]
      /\ \/ UNCHANGED automationSave
         \/ /\ Writable(a)
            /\ automationSave' = [step |-> "clean",
                  image |-> [gen |-> n + 1, automation |-> a, version |-> automationAcked.asked + 1]]
  BY <1>1 DEF AutomationBegin, AutomationAt
<1>3. /\ automationAcked'.asked = automationAcked.asked + 1 /\ automationAcked'.saved = automationAcked.saved
      /\ automationAcked'.faults = automationAcked.faults
      /\ automationAcked' \in [asked : Nat, saved : Nat, faults : 0..MaxAutomationFaults]
      /\ automationStore' \in [up : BOOLEAN, gen : Nat] /\ automationStore'.gen = n
      /\ automationStore'.up = automationStore.up
  <2>1. /\ automationAcked'.asked = automationAcked.asked + 1
        /\ automationAcked'.saved = automationAcked.saved
        /\ automationAcked'.faults = automationAcked.faults
        /\ automationAcked' \in [asked : Nat, saved : Nat, faults : 0..MaxAutomationFaults]
    BY <1>2 DEF AutomationShape
  <2>2. /\ automationStore' \in [up : BOOLEAN, gen : Nat] /\ automationStore'.gen = n
        /\ automationStore'.up = automationStore.up
    BY <1>2 DEF AutomationShape
  <2> QED  BY <2>1, <2>2
<1>4. /\ Readable(automationFiles.path) => automationFiles.path.gen <= n
      /\ Readable(automationFiles.bak) => automationFiles.bak.gen <= n
  BY <1>1, <1>2, AutomationValidAre DEF AutomationOrder
<1>5. AutomationShape'
  <2>1. CASE UNCHANGED automationSave
    BY <2>1, <1>2, <1>3 DEF AutomationShape
  <2>2. CASE /\ Writable(a)
             /\ automationSave' = [step |-> "clean",
                  image |-> [gen |-> n + 1, automation |-> a, version |-> automationAcked.asked + 1]]
    <3>1. [gen |-> n + 1, automation |-> a, version |-> automationAcked.asked + 1] \in AutomationWhole
      BY <2>2, <1>1, WritableParses DEF AutomationWhole, AutomationShape
    <3> QED  BY <2>2, <3>1, <1>2, <1>3 DEF AutomationShape, AutomationSteps
  <2> QED  BY <1>2, <2>1, <2>2
<1>6. AutomationOrder'
  BY <1>2, <1>3, <1>4 DEF AutomationOrder
<1>7. AutomationRuns' /\ AutomationPromise'
  BY <1>2, <1>3 DEF AutomationRuns, AutomationPromise, AutomationSettled
<1> QED  BY <1>5, <1>6, <1>7

(* A step of a save that runs, and only changes the files.                    *)
AutomationStepTo(step) ==
  /\ step \in AutomationSteps
  /\ automationSave.step \in AutomationSteps
  /\ automationSave' = [automationSave EXCEPT !.step = step]
  /\ UNCHANGED <<automationStore, automationAcked>>

LEMMA AutomationStepShape ==
  ASSUME AutomationShape, NEW step, AutomationStepTo(step), automationFiles' \in AutomationFileSet
  PROVE  /\ AutomationShape' /\ automationSave'.step = step
         /\ automationSave'.image = automationSave.image /\ automationSave.image \in AutomationWhole
<1>1. automationSave \in [step : AutomationSteps, image : AutomationWhole]
  BY DEF AutomationShape, AutomationStepTo, AutomationSteps
<1>2. /\ automationSave' \in [step : AutomationSteps, image : AutomationWhole]
      /\ automationSave'.step = step /\ automationSave'.image = automationSave.image
  BY <1>1 DEF AutomationStepTo
<1>3. automationStore.up
  BY DEF AutomationShape, AutomationStepTo, AutomationSteps
<1> QED  BY <1>1, <1>2, <1>3 DEF AutomationShape, AutomationStepTo

LEMMA AutomationCleanInv == ASSUME AutomationInv, AutomationClean PROVE AutomationInv'
<1> USE DEF AutomationInv
<1>1. /\ automationFiles' \in AutomationFileSet
      /\ automationFiles'.temp = Missing /\ automationFiles'.path = automationFiles.path
      /\ automationFiles'.bak = automationFiles.bak
  BY DEF AutomationClean, AutomationShape, AutomationFileSet, AutomationAt, AutomationRuns
<1>2. AutomationStepTo("write") /\ automationSave.step = "clean"
  BY DEF AutomationStepTo, AutomationClean, AutomationAt, AutomationGo, AutomationSteps
<1>3. /\ AutomationShape' /\ automationSave'.step = "write" /\ automationSave'.image = automationSave.image
      /\ automationSave.image \in AutomationWhole
  BY <1>1, <1>2, AutomationStepShape
<1>4. UNCHANGED <<automationStore, automationAcked>>
  BY <1>2 DEF AutomationStepTo
<1>5. AutomationOrder' /\ AutomationRuns' /\ AutomationPromise'
  BY <1>1, <1>2, <1>3, <1>4, AutomationFileAssumption, MissingIsNotWhole
     DEF AutomationShape, AutomationWhole, AutomationOrder, AutomationRuns, AutomationPromise, AutomationSettled,
         Readable
<1> QED  BY <1>3, <1>5

LEMMA AutomationWriteInv == ASSUME AutomationInv, AutomationWrite PROVE AutomationInv'
<1> USE DEF AutomationInv
<1>0. automationSave.image \in AutomationWhole
  BY DEF AutomationWrite, AutomationAt, AutomationShape
<1>1. /\ automationFiles' \in AutomationFileSet
      /\ automationFiles'.temp = automationSave.image /\ automationFiles'.path = automationFiles.path
      /\ automationFiles'.bak = automationFiles.bak
  BY <1>0 DEF AutomationWrite, AutomationShape, AutomationFileSet, AutomationAt, AutomationRuns
<1>2. AutomationStepTo("drop") /\ automationSave.step = "write"
  BY DEF AutomationStepTo, AutomationWrite, AutomationAt, AutomationGo, AutomationSteps
<1>3. /\ AutomationShape' /\ automationSave'.step = "drop" /\ automationSave'.image = automationSave.image
      /\ automationSave.image \in AutomationWhole
  BY <1>1, <1>2, AutomationStepShape
<1>4. UNCHANGED <<automationStore, automationAcked>>
  BY <1>2 DEF AutomationStepTo
<1>5. AutomationOrder'
  BY <1>1, <1>2, <1>3, <1>4, AutomationFileAssumption, MissingIsNotWhole
     DEF AutomationShape, AutomationFileSet, AutomationWhole, AutomationOrder, AutomationRuns,
         Readable
<1>6. AutomationRuns'
  BY <1>1, <1>2, <1>3, <1>4, AutomationFileAssumption, MissingIsNotWhole
     DEF AutomationShape, AutomationWhole, AutomationRuns
<1>7. AutomationPromise'
  BY <1>1, <1>2, <1>3, <1>4, AutomationFileAssumption, MissingIsNotWhole
     DEF AutomationShape, AutomationFileSet, AutomationWhole, AutomationRuns, AutomationPromise,
         AutomationSettled, Readable
<1> QED  BY <1>3, <1>5, <1>6, <1>7

LEMMA AutomationDropBackupInv == ASSUME AutomationInv, AutomationDropBackup PROVE AutomationInv'
<1> USE DEF AutomationInv
<1>1. /\ automationFiles' \in AutomationFileSet /\ automationFiles'.bak = Missing
      /\ automationFiles'.path = automationFiles.path /\ automationFiles'.temp = automationFiles.temp
  BY DEF AutomationDropBackup, AutomationShape, AutomationFileSet
<1>2. PICK step : step = IF Present(automationFiles.path) THEN "rotate" ELSE "publish"
  OBVIOUS
<1>3. AutomationStepTo(step) /\ automationSave.step = "drop"
  BY <1>2 DEF AutomationStepTo, AutomationDropBackup, AutomationAt, AutomationGo, AutomationSteps
<1>4. /\ AutomationShape' /\ automationSave'.step = step /\ automationSave'.image = automationSave.image
      /\ automationSave.image \in AutomationWhole
  BY <1>1, <1>3, AutomationStepShape
<1>5. UNCHANGED <<automationStore, automationAcked>>
  BY <1>3 DEF AutomationStepTo
<1>6. AutomationOrder' /\ AutomationRuns' /\ AutomationPromise'
  BY <1>1, <1>2, <1>3, <1>4, <1>5, AutomationFileAssumption, MissingIsNotWhole
     DEF AutomationShape, AutomationWhole, AutomationOrder, AutomationRuns, AutomationPromise, AutomationSettled,
         Readable, Present
<1> QED  BY <1>4, <1>6

LEMMA AutomationRotateInv == ASSUME AutomationInv, AutomationRotate PROVE AutomationInv'
<1> USE DEF AutomationInv
<1>1. /\ automationFiles' \in AutomationFileSet
      /\ automationFiles'.bak = automationFiles.path /\ automationFiles'.path = Missing
      /\ automationFiles'.temp = automationFiles.temp
  BY DEF AutomationRotate, AutomationShape, AutomationFileSet, AutomationAt, AutomationRuns
<1>2. AutomationStepTo("publish") /\ automationSave.step = "rotate"
  BY DEF AutomationStepTo, AutomationRotate, AutomationAt, AutomationGo, AutomationSteps
<1>3. /\ AutomationShape' /\ automationSave'.step = "publish" /\ automationSave'.image = automationSave.image
      /\ automationSave.image \in AutomationWhole
  BY <1>1, <1>2, AutomationStepShape
<1>4. UNCHANGED <<automationStore, automationAcked>>
  BY <1>2 DEF AutomationStepTo
<1>5. AutomationOrder' /\ AutomationRuns' /\ AutomationPromise'
  BY <1>1, <1>2, <1>3, <1>4, AutomationFileAssumption, MissingIsNotWhole
     DEF AutomationShape, AutomationWhole, AutomationOrder, AutomationRuns, AutomationPromise, AutomationSettled,
         Readable
<1> QED  BY <1>3, <1>5

(* The save returns, and the file holds what it promises.                     *)
LEMMA AutomationPublishInv == ASSUME AutomationInv, AutomationPublish PROVE AutomationInv'
<1> USE DEF AutomationInv
<1>1. /\ automationSave.step = "publish" /\ automationSave' = [step |-> "idle"] /\ automationStore.up
      /\ automationSave.image \in AutomationWhole /\ automationSave'.step = "idle"
      /\ automationFiles.temp = automationSave.image
  BY DEF AutomationPublish, AutomationAt, AutomationEnd, AutomationShape, AutomationRuns
<1>2. /\ automationFiles' \in AutomationFileSet /\ automationFiles'.bak = automationFiles.bak
      /\ automationFiles'.path = automationSave.image /\ automationFiles'.temp = Missing
  BY <1>1 DEF AutomationPublish, AutomationShape, AutomationFileSet
<1>3. /\ automationStore' \in [up : BOOLEAN, gen : Nat]
      /\ automationStore'.gen = automationSave.image.gen /\ automationStore'.up = automationStore.up
      /\ automationAcked' \in [asked : Nat, saved : Nat, faults : 0..MaxAutomationFaults]
      /\ automationAcked'.asked = automationAcked.asked
      /\ automationAcked'.saved = automationSave.image.version /\ automationAcked'.faults = 0
  <2>1. /\ automationSave.image.gen \in Nat /\ automationSave.image.version \in Nat
        /\ 0 \in 0..MaxAutomationFaults
    BY <1>1, AutomationFileAssumption DEF AutomationWhole
  <2>2. /\ automationStore' \in [up : BOOLEAN, gen : Nat]
        /\ automationStore'.gen = automationSave.image.gen /\ automationStore'.up = automationStore.up
    BY <2>1 DEF AutomationPublish, AutomationShape
  <2>3. /\ automationAcked' \in [asked : Nat, saved : Nat, faults : 0..MaxAutomationFaults]
        /\ automationAcked'.asked = automationAcked.asked
        /\ automationAcked'.saved = automationSave.image.version /\ automationAcked'.faults = 0
    BY <2>1 DEF AutomationPublish, AutomationShape
  <2> QED  BY <2>2, <2>3
<1>4. AutomationShape'
  BY <1>1, <1>2, <1>3 DEF AutomationShape, AutomationRuns, AutomationWhole
<1>5. AutomationOrder'
  BY <1>1, <1>2, <1>3, MissingIsNotWhole
     DEF AutomationShape, AutomationFileSet, AutomationWhole, AutomationOrder, AutomationRuns, Readable
<1>6. AutomationRuns'
  BY <1>1 DEF AutomationRuns
<1>7. AutomationPromise'
  BY <1>1, <1>2, <1>3, MissingIsNotWhole
     DEF AutomationShape, AutomationFileSet, AutomationWhole, AutomationRuns, AutomationPromise,
         AutomationSettled, Readable
<1> QED  BY <1>4, <1>5, <1>6, <1>7

(* A fault ends the save, and perhaps the process.                            *)
AutomationBroken ==
  /\ AutomationFault /\ automationSave' = [step |-> "idle"]
  /\ UNCHANGED automationStore \/ automationStore' = [up |-> FALSE, gen |-> 0]

LEMMA AutomationBrokenShape ==
  ASSUME AutomationShape, AutomationBroken, automationFiles' \in AutomationFileSet
  PROVE  /\ AutomationShape' /\ automationSave'.step = "idle"
         /\ automationAcked'.asked = automationAcked.asked /\ automationAcked'.saved = automationAcked.saved
         /\ automationAcked'.faults = automationAcked.faults + 1
         /\ automationAcked.faults < MaxAutomationFaults /\ automationAcked.faults \in Nat
         /\ automationStore'.up => automationStore.up /\ UNCHANGED automationStore
<1>1. /\ automationAcked' \in [asked : Nat, saved : Nat, faults : 0..MaxAutomationFaults]
      /\ automationAcked'.asked = automationAcked.asked /\ automationAcked'.saved = automationAcked.saved
      /\ automationAcked'.faults = automationAcked.faults + 1
      /\ automationAcked.faults < MaxAutomationFaults /\ automationAcked.faults \in Nat
  BY AutomationFileAssumption, MissingIsNotWhole DEF AutomationBroken, AutomationFault, AutomationShape
<1>2. automationSave'.step = "idle" /\ automationSave' \in [step : {"idle"}]
  BY DEF AutomationBroken
<1>3. /\ automationStore' \in [up : BOOLEAN, gen : Nat]
      /\ automationStore'.up => automationStore.up /\ UNCHANGED automationStore
  <2>1. CASE UNCHANGED automationStore
    BY <2>1 DEF AutomationShape
  <2>2. CASE automationStore' = [up |-> FALSE, gen |-> 0]
    BY <2>2
  <2> QED  BY <2>1, <2>2 DEF AutomationBroken
<1> QED  BY <1>1, <1>2, <1>3 DEF AutomationShape

(* Here at most one fault since the last save that returned is used: with two *)
(* the temporary file may be all there is when the next save removes it.      *)
LEMMA AutomationWriteFailsInv == ASSUME AutomationInv, AutomationWriteFails PROVE AutomationInv'
<1> USE DEF AutomationInv
<1>0. automationSave.image \in AutomationWhole /\ automationSave.step = "write" /\ automationStore.up
  BY DEF AutomationWriteFails, AutomationAt, AutomationShape
<1>1. /\ automationFiles' \in AutomationFileSet
      /\ automationFiles'.temp \in {automationFiles.temp, Torn, automationSave.image}
      /\ automationFiles'.path = automationFiles.path /\ automationFiles'.bak = automationFiles.bak
  BY <1>0 DEF AutomationWriteFails, AutomationShape, AutomationFileSet
<1>2. AutomationBroken /\ UNCHANGED automationStore
  BY DEF AutomationWriteFails, AutomationBroken, AutomationEnd
<1>3. /\ AutomationShape' /\ automationSave'.step = "idle"
      /\ automationAcked'.asked = automationAcked.asked /\ automationAcked'.saved = automationAcked.saved
      /\ automationAcked'.faults = automationAcked.faults + 1 /\ automationAcked.faults \in Nat
  BY <1>1, <1>2, AutomationBrokenShape
<1>4. AutomationOrder'
  BY <1>0, <1>1, <1>2, <1>3, AutomationFileAssumption, MissingIsNotWhole
     DEF AutomationShape, AutomationFileSet, AutomationWhole, AutomationOrder, AutomationRuns,
         Readable
<1>5. AutomationRuns'
  BY <1>0, <1>1, <1>2, <1>3, AutomationFileAssumption, MissingIsNotWhole
     DEF AutomationShape, AutomationWhole, AutomationRuns
<1>6. AutomationPromise'
  BY <1>0, <1>1, <1>2, <1>3, AutomationFileAssumption, MissingIsNotWhole
     DEF AutomationShape, AutomationFileSet, AutomationWhole, AutomationRuns, AutomationPromise,
         AutomationSettled, Readable
<1> QED  BY <1>3, <1>4, <1>5, <1>6

LEMMA AutomationRotateFailsInv == ASSUME AutomationInv, AutomationRotateFails PROVE AutomationInv'
<1> USE DEF AutomationInv
<1>0. automationSave.image \in AutomationWhole /\ automationSave.step = "rotate" /\ automationStore.up
  BY DEF AutomationRotateFails, AutomationAt, AutomationShape
<1>1. /\ automationFiles' \in AutomationFileSet /\ automationFiles'.temp = Missing
      /\ automationFiles'.path = automationFiles.path /\ automationFiles'.bak = automationFiles.bak
  BY <1>0 DEF AutomationRotateFails, AutomationShape, AutomationFileSet
<1>2. AutomationBroken /\ UNCHANGED automationStore
  BY DEF AutomationRotateFails, AutomationBroken, AutomationEnd
<1>3. /\ AutomationShape' /\ automationSave'.step = "idle"
      /\ automationAcked'.asked = automationAcked.asked /\ automationAcked'.saved = automationAcked.saved
      /\ automationAcked'.faults = automationAcked.faults + 1 /\ automationAcked.faults \in Nat
  BY <1>1, <1>2, AutomationBrokenShape
<1>4. AutomationOrder' /\ AutomationRuns' /\ AutomationPromise'
  BY <1>0, <1>1, <1>2, <1>3, AutomationFileAssumption, MissingIsNotWhole
     DEF AutomationShape, AutomationWhole, AutomationOrder, AutomationRuns, AutomationPromise, AutomationSettled,
         Readable
<1> QED  BY <1>3, <1>4

LEMMA AutomationPublishFailsInv ==
  ASSUME MaxAutomationFaults <= 1, AutomationInv, AutomationPublishFails PROVE AutomationInv'
<1> USE DEF AutomationInv
<1>0. /\ automationSave.image \in AutomationWhole /\ automationSave.step = "publish" /\ automationStore.up
      /\ automationFiles.path = Missing /\ automationFiles.temp = automationSave.image
  BY DEF AutomationPublishFails, AutomationAt, AutomationShape, AutomationRuns
<1>1. /\ automationFiles' \in AutomationFileSet /\ automationFiles'.temp = Missing
      /\ \/ /\ automationFiles'.path = automationFiles.bak /\ automationFiles'.bak = Missing
            /\ automationFiles.bak # Missing
         \/ automationFiles'.path = automationFiles.path /\ automationFiles'.bak = automationFiles.bak
  BY <1>0 DEF AutomationPublishFails, AutomationShape, AutomationFileSet, Present
<1>2. AutomationBroken /\ UNCHANGED automationStore
  BY DEF AutomationPublishFails, AutomationBroken, AutomationEnd
<1>3. /\ AutomationShape' /\ automationSave'.step = "idle"
      /\ automationAcked'.asked = automationAcked.asked /\ automationAcked'.saved = automationAcked.saved
      /\ automationAcked'.faults = automationAcked.faults + 1 /\ automationAcked.faults = 0
  BY <1>1, <1>2, AutomationBrokenShape, AutomationFileAssumption, MissingIsNotWhole
<1>4. AutomationOrder' /\ AutomationRuns' /\ AutomationPromise'
  BY <1>0, <1>1, <1>2, <1>3, AutomationFileAssumption, MissingIsNotWhole
     DEF AutomationShape, AutomationWhole, AutomationOrder, AutomationRuns, AutomationPromise, AutomationSettled,
         Readable
<1> QED  BY <1>3, <1>4

LEMMA AutomationKillInv ==
  ASSUME MaxAutomationFaults <= 1, AutomationInv, AutomationKill PROVE AutomationInv'
<1> USE DEF AutomationInv
<1>0. automationSave.step = "write" => automationSave.image \in AutomationWhole
  BY DEF AutomationShape
<1>1. /\ automationFiles' \in AutomationFileSet
      /\ \/ automationFiles'.temp = automationFiles.temp
         \/ automationSave.step = "write" /\ automationFiles'.temp \in {Torn, automationSave.image}
      /\ automationFiles'.path = automationFiles.path /\ automationFiles'.bak = automationFiles.bak
  BY <1>0 DEF AutomationKill, AutomationAt, AutomationShape, AutomationFileSet
<1>2. AutomationBroken /\ ~automationStore'.up
  BY DEF AutomationKill, AutomationBroken, AutomationEnd
<1>3. /\ AutomationShape' /\ automationSave'.step = "idle"
      /\ automationAcked'.asked = automationAcked.asked /\ automationAcked'.saved = automationAcked.saved
      /\ automationAcked'.faults = automationAcked.faults + 1 /\ automationAcked.faults = 0
  BY <1>1, <1>2, AutomationBrokenShape, AutomationFileAssumption, MissingIsNotWhole
<1>4. AutomationOrder'
  BY <1>0, <1>1, <1>2, <1>3, AutomationFileAssumption, MissingIsNotWhole
     DEF AutomationShape, AutomationFileSet, AutomationWhole, AutomationOrder, AutomationRuns,
         Readable
<1>5. AutomationRuns'
  BY <1>0, <1>1, <1>2, <1>3, AutomationFileAssumption, MissingIsNotWhole
     DEF AutomationShape, AutomationWhole, AutomationRuns
<1>6. AutomationPromise'
  BY <1>0, <1>1, <1>2, <1>3, AutomationFileAssumption, MissingIsNotWhole
     DEF AutomationShape, AutomationFileSet, AutomationWhole, AutomationRuns, AutomationPromise,
         AutomationSettled, Readable
<1> QED  BY <1>3, <1>4, <1>5, <1>6

LEMMA AutomationQuitInv == ASSUME AutomationInv, AutomationQuit PROVE AutomationInv'
<1> USE DEF AutomationInv
<1>1. /\ UNCHANGED <<automationFiles, automationSave, automationAcked>>
      /\ automationStore' = [up |-> FALSE, gen |-> 0] /\ automationSave.step = "idle"
  BY DEF AutomationQuit, AutomationAt
<1>2. AutomationShape'
  BY <1>1 DEF AutomationShape
<1>3. AutomationOrder' /\ AutomationRuns' /\ AutomationPromise'
  BY <1>1 DEF AutomationOrder, AutomationRuns, AutomationPromise, AutomationSettled, Readable
<1> QED  BY <1>2, <1>3

LEMMA NextAutomationInv ==
  ASSUME MaxAutomationFaults <= 1, AutomationInv, [AutomationFileNext]_automationFileVars PROVE AutomationInv'
<1>1. CASE UNCHANGED automationFileVars
  BY <1>1 DEF automationFileVars, AutomationInv, AutomationShape, AutomationOrder, AutomationRuns,
              AutomationPromise, AutomationSettled, Readable
<1> QED  BY <1>1, AutomationLoadInv, AutomationBeginInv, AutomationCleanInv, AutomationWriteInv,
            AutomationDropBackupInv, AutomationRotateInv, AutomationPublishInv,
            AutomationWriteFailsInv, AutomationRotateFailsInv, AutomationPublishFailsInv, AutomationKillInv,
            AutomationQuitInv DEF AutomationFileNext

(* However long the life of the store and wherever one call fails or the      *)
(* process is killed between two saves that return, the next load reads the   *)
(* last save that returned or a later one.                                    *)
THEOREM AutomationsAreReadBack ==
  ASSUME MaxAutomationFaults <= 1 PROVE AutomationFileSpec => []AutomationsReadBack
<1>1. AutomationFileInit => AutomationInv
  BY InitAutomationInv
<1>2. AutomationInv /\ [AutomationFileNext]_automationFileVars => AutomationInv'
  BY NextAutomationInv
<1>3. AutomationInv => AutomationsReadBack
  <2> SUFFICES ASSUME AutomationInv, automationAcked.saved # 0
               PROVE  /\ AutomationValid # {}
                      /\ automationFiles[AutomationBest].version >= automationAcked.saved
    BY DEF AutomationsReadBack
  <2>1. AutomationSettled \/ Readable(automationFiles.temp)
    BY MissingIsNotWhole
       DEF AutomationInv, AutomationPromise, AutomationRuns, AutomationShape, Readable
  <2>2. AutomationValid # {}
    BY <2>1, AutomationValidAre DEF AutomationSettled, AutomationInv
  <2>3. PICK f \in {"path", "temp", "bak"} : f = AutomationBest
    BY <2>2, AutomationBestIsNewest DEF AutomationInv
  <2>4. /\ Readable(automationFiles[f])
        /\ \A h \in AutomationValid : automationFiles[h].gen <= automationFiles[f].gen
    BY <2>2, <2>3, AutomationBestIsNewest, AutomationValidAre DEF AutomationInv
  <2>5. \A h \in {"path", "temp", "bak"} : Readable(automationFiles[h]) =>
          automationFiles[h].gen <= automationFiles[f].gen /\ automationFiles[h].gen \in Nat
    BY <2>4, AutomationValidAre DEF AutomationInv, AutomationWhole
  <2>7. CASE f = "temp"
    BY <2>2, <2>3, <2>4, <2>7 DEF AutomationInv, AutomationPromise
  <2>8. CASE f = "path"
    <3>1. automationFiles.path # Missing /\ Readable(automationFiles.path)
      BY <2>4, <2>8 DEF Readable
    <3>2. automationSave.step # "publish"
      BY <3>1 DEF AutomationInv, AutomationRuns
    <3> QED  BY <2>2, <2>3, <2>8, <3>1, <3>2 DEF AutomationInv, AutomationPromise, AutomationSettled
  <2>9. CASE f = "bak"
    <3>1. Readable(automationFiles.bak) /\ automationFiles.bak # Missing
      BY <2>4, <2>9 DEF Readable
    <3>2. ~Readable(automationFiles.temp) /\ ~Readable(automationFiles.path)
      BY <2>5, <2>9, <3>1 DEF AutomationInv, AutomationOrder
    <3> QED  BY <2>2, <2>3, <2>9, <3>1, <3>2 DEF AutomationInv, AutomationPromise, AutomationSettled
  <2> QED  BY <2>2, <2>3, <2>7, <2>8, <2>9
<1> QED  BY <1>1, <1>2, <1>3, PTL DEF AutomationFileSpec
-----------------------------------------------------------------------------
ConfSteps == {"none", "write", "rename", "again"}
ConfAccounts ==
  [changes : 0..MaxSettingsSaves, saved : Contents, faults : 0..MaxSettingsFaults,
   blind : BOOLEAN]

SettingsShape ==
  /\ current \in Contents
  /\ conf \in Contents \union {Missing}
  /\ confTemp \in Contents \union {Missing, Torn}
  /\ app \in {"down", "loading", "up"}
  /\ confStep \in ConfSteps
  /\ confAcked \in ConfAccounts

(* An App that is not blind has what was saved; a save runs only while there  *)
(* is an App; nothing is missing from the temporary file that is renamed; and *)
(* a file that was removed for a second rename has had its fault.             *)
SettingsRuns ==
  /\ app # "down" /\ ~confAcked.blind => confAcked.saved \subseteq current
  /\ confStep # "none" => app # "down"
  /\ Replaces(confStep) => confTemp = current
  /\ confStep = "again" => confAcked.faults >= 1

SettingsPromise ==
  confAcked.saved # {} /\ confStep # "again" =>
    conf # Missing /\ confAcked.saved \subseteq conf

SettingsInv == SettingsShape /\ SettingsRuns /\ SettingsPromise

-----------------------------------------------------------------------------
LEMMA InitSettingsInv == SettingsFileInit => SettingsInv
<1> SUFFICES ASSUME SettingsFileInit PROVE SettingsInv
  OBVIOUS
<1>1. {} \in Contents /\ 0 \in 0..MaxSettingsSaves /\ 0 \in 0..MaxSettingsFaults
  BY SettingsAssumption DEF Contents
<1>2. confAcked \in ConfAccounts
  BY <1>1 DEF SettingsFileInit, ConfAccounts
<1> QED
  BY <1>1, <1>2 DEF SettingsFileInit, Defaults, SettingsInv, SettingsShape, ConfSteps,
                    SettingsRuns, SettingsPromise, Replaces

(* A fault counts, and leaves the rest of the account.                        *)
LEMMA SettingsFaultAcked ==
  ASSUME SettingsShape, SettingsFault
  PROVE  /\ confAcked'.saved = confAcked.saved /\ confAcked'.blind = confAcked.blind
         /\ confAcked'.faults = confAcked.faults + 1 /\ confAcked.faults < MaxSettingsFaults
         /\ confAcked' \in ConfAccounts
<1>1. /\ confAcked.faults + 1 \in 0..MaxSettingsFaults
      /\ confAcked' = [confAcked EXCEPT !.faults = confAcked.faults + 1]
  BY SettingsAssumption DEF SettingsFault, SettingsShape, ConfAccounts
<1> QED  BY <1>1 DEF SettingsFault, SettingsShape, ConfAccounts

LEMMA ChangeSettingInv == ASSUME SettingsInv, ChangeSetting PROVE SettingsInv'
<1> USE DEF SettingsInv
<1>1. /\ current' = current \union {confAcked.changes + 1}
      /\ confStep' = "write" /\ confStep = "none" /\ app = "up"
      /\ confAcked.changes < MaxSettingsSaves
      /\ confAcked' = [confAcked EXCEPT !.changes = confAcked.changes + 1]
      /\ UNCHANGED <<conf, confTemp, app>>
  BY DEF ChangeSetting
<1>2. confAcked.changes + 1 \in 1..MaxSettingsSaves
  BY <1>1, SettingsAssumption DEF SettingsShape, ConfAccounts
<1>3. current' \in Contents
  BY <1>1, <1>2 DEF SettingsShape, Contents
<1>4. /\ confAcked'.saved = confAcked.saved /\ confAcked'.blind = confAcked.blind
      /\ confAcked' \in ConfAccounts
  BY <1>1, <1>2, SettingsAssumption DEF SettingsShape, ConfAccounts
<1>5. SettingsShape'
  BY <1>1, <1>3, <1>4 DEF SettingsShape, ConfSteps
<1>6. SettingsRuns'
  BY <1>1, <1>4 DEF SettingsRuns, Replaces
<1>7. SettingsPromise'
  BY <1>1, <1>4 DEF SettingsPromise
<1> QED  BY <1>5, <1>6, <1>7

LEMMA LoadSettingsInv == ASSUME SettingsInv, LoadSettings PROVE SettingsInv'
<1> USE DEF SettingsInv
<1>1. /\ app = "down" /\ app' \in {"loading", "up"} /\ confStep' \in {"none", "write"}
      /\ UNCHANGED <<conf, confTemp>>
  BY DEF LoadSettings, ReadConf, ReadLegacy
<1>2. PICK b \in BOOLEAN :
        /\ confAcked' = [confAcked EXCEPT !.blind = b]
        /\ conf # Missing => b \/ current' = conf
        /\ current' \in Contents
  <2>1. CASE ReadConf
    <3>1. current' \in Contents
      BY <2>1 DEF ReadConf, SettingsShape, Contents
    <3> QED  BY <2>1, <3>1 DEF ReadConf
  <2>2. CASE ReadLegacy
    <3>1. current' \in Contents
      BY <2>2 DEF ReadLegacy, Defaults, Contents
    <3> QED  BY <2>2, <3>1 DEF ReadLegacy
  <2> QED  BY <2>1, <2>2 DEF LoadSettings
<1>3. /\ confAcked'.saved = confAcked.saved /\ confAcked'.blind = b
      /\ confAcked'.faults = confAcked.faults /\ confAcked' \in ConfAccounts
  BY <1>2 DEF SettingsShape, ConfAccounts
<1>4. confStep # "again"
  BY <1>1 DEF SettingsRuns
<1>5. b \/ confAcked.saved \subseteq current'
  BY <1>2, <1>4 DEF SettingsPromise
<1>6. SettingsShape'
  BY <1>1, <1>2, <1>3 DEF SettingsShape, ConfSteps
<1>7. SettingsRuns'
  BY <1>1, <1>3, <1>5 DEF SettingsRuns, Replaces
<1>8. SettingsPromise'
  BY <1>1, <1>3, <1>4 DEF SettingsPromise
<1> QED  BY <1>6, <1>7, <1>8

LEMMA WriteConfInv == ASSUME SettingsInv, WriteConf PROVE SettingsInv'
<1> USE DEF SettingsInv
<1>1. /\ confStep = "write" /\ confTemp' = current /\ confStep' = "rename"
      /\ UNCHANGED <<current, conf, app, confAcked>>
  BY DEF WriteConf
<1>2. SettingsShape'
  BY <1>1 DEF SettingsShape, ConfSteps
<1>3. SettingsRuns' /\ SettingsPromise'
  BY <1>1 DEF SettingsRuns, SettingsPromise, Replaces
<1> QED  BY <1>2, <1>3

LEMMA ReplaceConfInv == ASSUME SettingsInv, ReplaceConf PROVE SettingsInv'
<1> USE DEF SettingsInv
<1>1. /\ conf' = current /\ confTemp' = Missing /\ confStep' = "none" /\ app' = "up"
      /\ UNCHANGED current
      /\ app # "down"
  BY DEF ReplaceConf, SettingsRuns, Replaces
<1>2. confAcked' = [confAcked EXCEPT
        !.saved = IF confAcked.blind THEN current ELSE confAcked.saved \union current,
        !.faults = 0, !.blind = FALSE]
  BY DEF ReplaceConf
<1>3. ~confAcked.blind => confAcked.saved \union current = current
  BY <1>1 DEF SettingsRuns
<1>4. /\ confAcked'.saved = current
      /\ confAcked' \in ConfAccounts
  <2>1. confAcked \in ConfAccounts /\ current \in Contents
    BY DEF SettingsShape
  <2>2. (IF confAcked.blind THEN current ELSE confAcked.saved \union current) = current
    BY <1>3
  <2>3. confAcked' = [confAcked EXCEPT !.saved = current, !.faults = 0, !.blind = FALSE]
    BY <1>2, <2>2
  <2>4. confAcked'.saved = current
    BY <2>1, <2>3 DEF ConfAccounts
  <2>5. confAcked' \in ConfAccounts
    <3>1. 0 \in 0..MaxSettingsFaults
      BY SettingsAssumption
    <3> HIDE DEF SettingsInv, Contents
    <3> QED  BY <2>1, <2>3, <3>1 DEF ConfAccounts
  <2> QED  BY <2>4, <2>5
<1>5. SettingsShape'
  BY <1>1, <1>4 DEF SettingsShape, ConfSteps
<1>6. SettingsRuns'
  BY <1>1, <1>4 DEF SettingsRuns, Replaces
<1>7. current # Missing
  BY SettingsAssumption DEF SettingsShape
<1>8. SettingsPromise'
  BY <1>1, <1>4, <1>7 DEF SettingsPromise
<1> QED  BY <1>5, <1>6, <1>8

LEMMA RemoveConfInv == ASSUME SettingsInv, RemoveConf PROVE SettingsInv'
<1> USE DEF SettingsInv
<1>1. /\ confStep = "rename" /\ SettingsFault /\ conf' = Missing /\ confStep' = "again"
      /\ UNCHANGED <<current, confTemp, app>>
  BY DEF RemoveConf
<1>2. SettingsShape'
  BY <1>1, SettingsFaultAcked DEF SettingsShape, ConfSteps
<1>3. SettingsRuns'
  BY <1>1, SettingsFaultAcked DEF SettingsRuns, SettingsShape, ConfAccounts, Replaces
<1>4. SettingsPromise'
  BY <1>1 DEF SettingsPromise
<1> QED  BY <1>2, <1>3, <1>4

(* With one fault at most, none meets a file that has been removed.           *)
LEMMA FaultsSpareTheSecond ==
  ASSUME SettingsInv, SettingsFault, MaxSettingsFaults <= 1
  PROVE  confStep # "again"
<1>1. confAcked.faults = 0
  BY SettingsAssumption DEF SettingsInv, SettingsShape, ConfAccounts, SettingsFault
<1> QED  BY <1>1 DEF SettingsInv, SettingsRuns

LEMMA SaveThrowsInv == ASSUME SettingsInv, SaveThrows, MaxSettingsFaults <= 1 PROVE SettingsInv'
<1> USE DEF SettingsInv
<1>1. /\ SettingsFault /\ confStep = "write" /\ confTemp' \in {confTemp, Torn}
      /\ confStep' = "none" /\ app' \in {"down", app} /\ UNCHANGED <<current, conf>>
  BY FaultsSpareTheSecond DEF SaveThrows
<1>2. SettingsShape'
  BY <1>1, SettingsFaultAcked DEF SettingsShape, ConfSteps
<1>3. SettingsRuns' /\ SettingsPromise'
  BY <1>1, SettingsFaultAcked DEF SettingsRuns, SettingsPromise, Replaces
<1> QED  BY <1>2, <1>3

LEMMA KillSettingsInv == ASSUME SettingsInv, KillSettings, MaxSettingsFaults <= 1 PROVE SettingsInv'
<1> USE DEF SettingsInv
<1>1. /\ SettingsFault /\ confTemp' \in {confTemp, Torn, current} /\ app' = "down"
      /\ confStep' = "none" /\ confStep # "again" /\ UNCHANGED <<current, conf>>
  BY FaultsSpareTheSecond DEF KillSettings
<1>2. SettingsShape'
  BY <1>1, SettingsFaultAcked DEF SettingsShape, ConfSteps
<1>3. SettingsRuns' /\ SettingsPromise'
  BY <1>1, SettingsFaultAcked DEF SettingsRuns, SettingsPromise, Replaces
<1> QED  BY <1>2, <1>3

LEMMA QuitSettingsInv == ASSUME SettingsInv, QuitSettings PROVE SettingsInv'
<1>1. /\ UNCHANGED <<current, conf, confTemp, confStep, confAcked>>
      /\ confStep = "none" /\ app' = "down"
  BY DEF QuitSettings
<1> QED
  BY <1>1 DEF SettingsInv, SettingsShape, ConfSteps, SettingsRuns, SettingsPromise, Replaces

LEMMA NextSettingsInv ==
  ASSUME SettingsInv, [SettingsFileNext]_settingsFileVars, MaxSettingsFaults <= 1
  PROVE  SettingsInv'
<1>1. CASE UNCHANGED settingsFileVars
  BY <1>1 DEF settingsFileVars, SettingsInv, SettingsShape, SettingsRuns, SettingsPromise
<1> QED
  BY <1>1, ChangeSettingInv, LoadSettingsInv, WriteConfInv, ReplaceConfInv, RemoveConfInv,
     SaveThrowsInv, KillSettingsInv, QuitSettingsInv DEF SettingsFileNext

(* SettingsKept: what AppSettingsStore::save reported as saved stays in the   *)
(* file, with one failing save or kill between two saves and any number of    *)
(* starts that do not read the file, until a save by one of those.            *)
THEOREM SettingsAreKept ==
  ASSUME MaxSettingsFaults <= 1 PROVE SettingsFileSpec => []SettingsKept
<1>1. SettingsInv /\ [SettingsFileNext]_settingsFileVars => SettingsInv'
  BY NextSettingsInv
<1>2. SettingsInv => SettingsKept
  <2>1. SUFFICES ASSUME SettingsInv, confAcked.saved # {}, confStep # "again"
                 PROVE  conf \notin {Missing, Torn} /\ confAcked.saved \subseteq conf
    BY DEF SettingsKept
  <2>2. conf # Missing /\ conf \in Contents /\ confAcked.saved \subseteq conf
    BY <2>1 DEF SettingsInv, SettingsPromise, SettingsShape
  <2> QED  BY <2>2, SettingsAssumption
<1> QED  BY InitSettingsInv, <1>1, <1>2, PTL DEF SettingsFileSpec

-----------------------------------------------------------------------------
Trusted == Record(TRUE, FALSE)
Condemned == Record(FALSE, TRUE)
TrustOps == {"none", "install", "enable", "disable", "verify", "reload", "remove", "other",
             "load", "start", "dead"}
CommitSteps == {"write", "backup", "discard", "rename"}
Committing == cmd.step \in CommitSteps

TrustShape ==
  /\ records \in Records
  /\ {main, tmp, bak} \subseteq Records \union {Missing, Torn}
  /\ cmd \in [op : TrustOps, step : {"none", "move", "sweep", "committed", "dead", "plugins"}]
             \union [op : TrustOps, step : CommitSteps, new : Records]
  /\ loaded \in BOOLEAN /\ condemned \in BOOLEAN
  /\ cmd.step \in {"backup", "discard", "rename"} => tmp = cmd.new

(* What is loaded is trusted, but for the moment between the publication of   *)
(* another record and the unloading that the commands below end with.         *)
LoadedShape ==
  /\ loaded => records = Trusted \/ (cmd.step = "committed" /\ cmd.op \notin {"install", "other"})
  /\ cmd.step \in {"dead", "move", "sweep"} => ~loaded
  /\ Committing /\ cmd.op = "install" => records = NoRecord
  /\ Committing /\ cmd.op = "other" => cmd.new = records
  /\ Committing /\ cmd.op = "enable" => cmd.new # NoRecord
  /\ cmd.step = "committed" /\ cmd.op = "enable" => records # NoRecord
  /\ Committing /\ cmd.op = "remove" /\ cmd.new = NoRecord => ~loaded
  /\ cmd.step = "committed" /\ cmd.op = "remove" /\ records = NoRecord => ~loaded

(* While a quarantine is recorded no file that a start may come to read tells *)
(* otherwise: the backup may, but only behind a file that can be read.        *)
Harmless(f) == f \in {Missing, Torn, NoRecord, Condemned}
CondemnedShape ==
  condemned =>
    /\ Harmless(records) /\ Harmless(main) /\ Harmless(tmp)
    /\ TrustReads(main) \/ Harmless(bak)
    /\ cmd.step \in {"discard", "rename"} => Harmless(bak)
    /\ Committing => Harmless(cmd.new)

TrustInv == TrustShape /\ LoadedShape /\ CondemnedShape

-----------------------------------------------------------------------------
LEMMA RecordsAre ==
  /\ Trusted \in Records /\ Condemned \in Records /\ NoRecord \in Records
  /\ Record(FALSE, FALSE) \in Records
  /\ Trusted # NoRecord /\ Condemned # NoRecord /\ Trusted # Condemned
  /\ Missing \notin Records /\ Torn \notin Records
  /\ \A r \in Records : r # NoRecord =>
       /\ r.enabled \in BOOLEAN /\ r.quarantined \in BOOLEAN
       /\ r.quarantined => r = Condemned
       /\ r.enabled /\ ~r.quarantined <=> r = Trusted
       /\ r.enabled <=> r = Trusted
       /\ Record(FALSE, r.quarantined) \in Records /\ Record(FALSE, r.quarantined) # Trusted
       /\ r = Condemned => Record(FALSE, r.quarantined) = Condemned
  BY TrustAssumption DEF Records, Record, Trusted, Condemned

(* The two shapes of a command, by its step.                                  *)
LEMMA CommandIs ==
  ASSUME TrustShape
  PROVE  /\ cmd.op \in TrustOps
         /\ Committing => cmd = [op |-> cmd.op, step |-> cmd.step, new |-> cmd.new] /\ cmd.new \in Records
         /\ Free \in [op : TrustOps, step : {"none", "move", "sweep", "committed", "dead", "plugins"}]
  BY DEF TrustShape, Committing, CommitSteps, Free, TrustOps

(* What a commit of the records begins with.                                  *)
LEMMA CommitBegins ==
  ASSUME NEW op \in TrustOps, NEW new \in Records, CommitTrust(op, new)
  PROVE  /\ cmd'.op = op /\ cmd'.step = "write" /\ cmd'.new = new
         /\ cmd' \in [op : TrustOps, step : CommitSteps, new : Records]
  BY DEF CommitTrust, CommitSteps

LEMMA InitTrustInv == TrustInit => TrustInv
<1> SUFFICES ASSUME TrustInit PROVE TrustInv
  OBVIOUS
<1>1. /\ Free \in [op : TrustOps, step : {"none", "move", "sweep", "committed", "dead", "plugins"}]
      /\ Free.step = "none"
  BY DEF Free, TrustOps
<1>2. TrustShape
  BY <1>1, RecordsAre DEF TrustInit, TrustShape
<1>3. LoadedShape /\ CondemnedShape
  BY <1>1 DEF TrustInit, LoadedShape, CondemnedShape, Committing, CommitSteps
<1> QED  BY <1>2, <1>3 DEF TrustInv

(* A command begins with a commit, and ends with what is loaded in order.     *)
LEMMA CommitsInv ==
  ASSUME TrustInv, cmd.step \notin CommitSteps, NEW op \in TrustOps, NEW new \in Records, CommitTrust(op, new),
         UNCHANGED <<records, files>>, loaded' \in BOOLEAN, condemned' \in BOOLEAN,
         loaded' => records = Trusted,
         condemned' => condemned /\ Harmless(new),
         op = "install" => records = NoRecord, op = "other" => new = records,
         op = "enable" => new # NoRecord,
         op = "remove" /\ new = NoRecord => ~loaded'
  PROVE  TrustInv'
<1>1. /\ cmd'.op = op /\ cmd'.step = "write" /\ cmd'.new = new
      /\ cmd' \in [op : TrustOps, step : CommitSteps, new : Records]
  BY CommitBegins
<1>2. TrustShape'
  BY <1>1 DEF TrustInv, TrustShape, files
<1>3. LoadedShape'
  BY <1>1 DEF LoadedShape, Committing, CommitSteps
<1>4. CondemnedShape'
  BY <1>1 DEF TrustInv, CondemnedShape, Committing, CommitSteps, files, Harmless, TrustReads
<1> QED  BY <1>2, <1>3, <1>4 DEF TrustInv

LEMMA EndsInv ==
  ASSUME TrustInv, NEW op \in TrustOps, NEW step \in {"none", "move", "sweep"},
         cmd' = [op |-> op, step |-> step], UNCHANGED <<records, files>>,
         loaded' \in BOOLEAN, condemned' = condemned,
         loaded' => records = Trusted /\ step = "none"
  PROVE  TrustInv'
<1>1. /\ cmd'.op = op /\ cmd'.step = step
      /\ cmd' \in [op : TrustOps, step : {"none", "move", "sweep", "committed", "dead", "plugins"}]
  OBVIOUS
<1>2. TrustShape'
  BY <1>1 DEF TrustInv, TrustShape, files
<1>3. LoadedShape'
  BY <1>1 DEF LoadedShape, Committing, CommitSteps
<1>4. CondemnedShape'
  BY <1>1 DEF TrustInv, CondemnedShape, Committing, CommitSteps, files, Harmless, TrustReads
<1> QED  BY <1>2, <1>3, <1>4 DEF TrustInv

-----------------------------------------------------------------------------
(* At rest nothing is loaded that its record does not allow.                  *)
LEMMA AtRest ==
  ASSUME TrustInv, cmd.step \in {"none", "plugins"}
  PROVE  /\ records \in Records /\ loaded \in BOOLEAN /\ condemned \in BOOLEAN
         /\ loaded => records = Trusted
         /\ condemned => Harmless(records)
  BY DEF TrustInv, TrustShape, LoadedShape, CondemnedShape

LEMMA ReadyStep == Ready => cmd.step = "none" /\ cmd.step \notin CommitSteps
  BY DEF Ready, Free, CommitSteps

(* The records that the commands commit while a quarantine is recorded.       *)
LEMMA HarmlessRecords ==
  /\ Harmless(Condemned) /\ Harmless(NoRecord)
  /\ \A r \in Records : Harmless(r) => r \in {NoRecord, Condemned}
  BY RecordsAre DEF Harmless

LEMMA QuarantineInv ==
  ASSUME TrustInv, cmd.step \in {"none", "plugins"}, NEW op \in {"enable", "verify", "reload", "load"},
         Quarantine(op), UNCHANGED <<records, files, loaded, condemned>>
  PROVE  TrustInv'
<1>1. /\ CommitTrust(op, Condemned) /\ Harmless(Condemned) /\ Condemned \in Records
      /\ Condemned # NoRecord
  BY RecordsAre DEF Quarantine, Condemned, Harmless
<1> QED  BY <1>1, AtRest, CommitsInv DEF TrustOps, CommitSteps

LEMMA AbortInv ==
  ASSUME TrustInv, Abort, UNCHANGED <<records, files, condemned>>,
         loaded' \in BOOLEAN, loaded' => records = Trusted
  PROVE  TrustInv'
  BY EndsInv DEF Abort, Free, TrustOps

LEMMA InstallInv == ASSUME TrustInv, Install PROVE TrustInv'
<1>1. Record(FALSE, FALSE) \in Records /\ records = NoRecord /\ "install" \in TrustOps
  BY RecordsAre DEF Install, Known, TrustOps
<1>2. ~loaded /\ loaded \in BOOLEAN
  BY <1>1, AtRest, ReadyStep, RecordsAre DEF Install
<1> QED  BY <1>1, <1>2, ReadyStep, CommitsInv DEF Install

LEMMA EnableInv == ASSUME TrustInv, Enable PROVE TrustInv'
<1>1. CASE Quarantine("enable")
  BY <1>1, ReadyStep, QuarantineInv DEF Enable
<1>2. CASE ~records.quarantined /\ CommitTrust("enable", Trusted)
  <2>1. ~condemned
    BY <1>2, AtRest, ReadyStep, HarmlessRecords, RecordsAre DEF Enable, Known, Condemned, Record
  <2> QED  BY <1>2, <2>1, AtRest, ReadyStep, CommitsInv, RecordsAre DEF Enable, TrustOps
<1> QED  BY <1>1, <1>2 DEF Enable, Trusted

LEMMA DisableInv == ASSUME TrustInv, Disable PROVE TrustInv'
<1> DEFINE new == Record(FALSE, records.quarantined)
<1>1. records \in Records /\ records # NoRecord /\ CommitTrust("disable", new)
  BY AtRest, ReadyStep DEF Disable, Known
<1>2. new \in Records /\ (records = Condemned => new = Condemned)
  BY <1>1, RecordsAre
<1> HIDE DEF new
<1>3. condemned => Harmless(new)
  BY <1>1, <1>2, AtRest, ReadyStep, HarmlessRecords DEF Disable
<1> QED  BY <1>1, <1>2, <1>3, AtRest, ReadyStep, CommitsInv DEF Disable, TrustOps

LEMMA VerifyInv == ASSUME TrustInv, Verify PROVE TrustInv'
  BY ReadyStep, QuarantineInv DEF Verify

LEMMA ReloadInv == ASSUME TrustInv, Reload PROVE TrustInv'
<1>1. CASE Quarantine("reload") /\ UNCHANGED loaded
  BY <1>1, ReadyStep, QuarantineInv DEF Reload
<1>2. CASE loaded' \in BOOLEAN /\ Abort
  <2>1. records = Trusted
    BY AtRest, ReadyStep, RecordsAre DEF Reload, Known
  <2> QED  BY <1>2, <2>1, AbortInv DEF Reload
<1> QED  BY <1>1, <1>2 DEF Reload

LEMMA RemoveInv == ASSUME TrustInv, Remove PROVE TrustInv'
<1>1. CASE records.enabled /\ CommitTrust("remove", Record(FALSE, FALSE)) /\ UNCHANGED loaded
  <2>1. records = Trusted
    BY <1>1, AtRest, ReadyStep, RecordsAre DEF Remove, Known
  <2>2. ~condemned
    BY <2>1, AtRest, ReadyStep, HarmlessRecords, RecordsAre DEF Remove
  <2>3. Record(FALSE, FALSE) \in Records /\ Record(FALSE, FALSE) # NoRecord
    BY TrustAssumption, RecordsAre
  <2> QED  BY <1>1, <2>1, <2>2, <2>3, AtRest, ReadyStep, CommitsInv DEF Remove, TrustOps
<1>2. CASE loaded' = FALSE /\ Step("remove", "move")
  BY <1>2, EndsInv DEF Remove, Step, TrustOps
<1> QED  BY <1>1, <1>2 DEF Remove

LEMMA SettingsOffInv == ASSUME TrustInv, SettingsOff PROVE TrustInv'
<1>1. cmd = Free /\ cmd' = Free /\ (loaded' = loaded \/ loaded' = FALSE)
  BY DEF SettingsOff, SettingsSaveFails, Ready
<1>2. loaded' \in BOOLEAN /\ (loaded' => records = Trusted)
  <2>1. loaded \in BOOLEAN /\ (loaded => records = Trusted) /\ records' = records
    BY AtRest, ReadyStep DEF SettingsOff
  <2>2. CASE loaded' = loaded
    BY <2>1, <2>2
  <2>3. CASE loaded' = FALSE
    BY <2>3
  <2> QED  BY <1>1, <2>2, <2>3
<1> QED  BY <1>1, <1>2, AbortInv DEF SettingsOff, Abort

LEMMA LoadEnabledInv ==
  ASSUME TrustInv, cmd.step \in {"none", "plugins"}, LoadEnabled, UNCHANGED <<records, files, condemned>>
  PROVE  TrustInv'
<1>1. CASE UNCHANGED loaded /\ Abort
  BY <1>1, AtRest, AbortInv
<1>2. CASE records.enabled /\ ~records.quarantined /\ records # NoRecord /\ LoadModule /\ Abort
  BY <1>2, AtRest, AbortInv, RecordsAre DEF LoadModule
<1>3. CASE UNCHANGED loaded /\ Quarantine("load")
  BY <1>3, QuarantineInv
<1> QED  BY <1>1, <1>2, <1>3 DEF LoadEnabled, Known

LEMMA SettingsOnInv == ASSUME TrustInv, SettingsOn PROVE TrustInv'
<1>1. CASE LoadEnabled
  BY <1>1, ReadyStep, LoadEnabledInv DEF SettingsOn
<1>2. CASE UNCHANGED <<loaded, cmd>>
  BY <1>2, AtRest, ReadyStep, AbortInv DEF SettingsOn, Ready, Abort
<1> QED  BY <1>1, <1>2 DEF SettingsOn

LEMMA OtherPluginInv == ASSUME TrustInv, OtherPlugin PROVE TrustInv'
  BY AtRest, ReadyStep, CommitsInv DEF OtherPlugin, TrustOps

-----------------------------------------------------------------------------
(* A commit goes on: what it carries stays.                                   *)
LEMMA CommitGoesOn ==
  ASSUME TrustInv, Committing, NEW step \in CommitSteps, cmd' = [cmd EXCEPT !.step = step]
  PROVE  /\ cmd'.op = cmd.op /\ cmd'.step = step /\ cmd'.new = cmd.new
         /\ cmd' \in [op : TrustOps, step : CommitSteps, new : Records]
         /\ Committing'
<1>1. cmd = [op |-> cmd.op, step |-> cmd.step, new |-> cmd.new] /\ cmd.op \in TrustOps /\ cmd.new \in Records
  BY CommandIs DEF TrustInv
<1>2. cmd' = [op |-> cmd.op, step |-> step, new |-> cmd.new]
  BY <1>1
<1>3. cmd'.op = cmd.op /\ cmd'.step = step /\ cmd'.new = cmd.new
  BY <1>2
<1> QED  BY <1>1, <1>2, <1>3 DEF Committing

LEMMA GoesOnShape ==
  ASSUME TrustInv, Committing, NEW step \in CommitSteps, cmd' = [cmd EXCEPT !.step = step],
         UNCHANGED <<records, loaded, condemned>>,
         {main', tmp', bak'} \subseteq Records \union {Missing, Torn},
         tmp' = cmd.new,
         condemned => /\ Harmless(main') /\ Harmless(tmp')
                      /\ TrustReads(main') \/ Harmless(bak')
                      /\ step \in {"discard", "rename"} => Harmless(bak')
  PROVE  TrustInv'
<1>1. /\ cmd'.op = cmd.op /\ cmd'.step = step /\ cmd'.new = cmd.new
      /\ cmd' \in [op : TrustOps, step : CommitSteps, new : Records]
      /\ Committing'
  BY CommitGoesOn
<1>2. TrustShape'
  BY <1>1 DEF TrustInv, TrustShape
<1>3. LoadedShape'
  BY <1>1 DEF TrustInv, LoadedShape, Committing, CommitSteps
<1>4. CondemnedShape'
  BY <1>1 DEF TrustInv, CondemnedShape, Harmless, TrustReads
<1> QED  BY <1>2, <1>3, <1>4 DEF TrustInv

LEMMA WriteTrustTempInv == ASSUME TrustInv, WriteTrustTemp PROVE TrustInv'
<1>1. /\ Committing /\ tmp' = cmd.new
      /\ \E step \in {"rename", "backup"} :
           cmd' = [cmd EXCEPT !.step = step] /\ (step = "rename" => main = Missing)
      /\ UNCHANGED <<records, loaded, condemned, main, bak>>
  BY DEF WriteTrustTemp, TrustAt, Committing, CommitSteps
<1>2. PICK step \in {"rename", "backup"} :
        cmd' = [cmd EXCEPT !.step = step] /\ (step = "rename" => main = Missing)
  BY <1>1
<1>3. cmd.new \in Records /\ step \in CommitSteps
  BY <1>1, CommandIs DEF TrustInv, CommitSteps
<1>4. {main', tmp', bak'} \subseteq Records \union {Missing, Torn}
  BY <1>1, <1>3 DEF TrustInv, TrustShape
<1>5. condemned => /\ Harmless(main') /\ Harmless(tmp') /\ (TrustReads(main') \/ Harmless(bak'))
                   /\ step = "rename" => Harmless(bak')
  BY <1>1, <1>2, RecordsAre DEF TrustInv, CondemnedShape, Harmless, TrustReads
<1> QED  BY <1>1, <1>2, <1>3, <1>4, <1>5, GoesOnShape

LEMMA CopyBackupInv == ASSUME TrustInv, CopyBackup PROVE TrustInv'
<1>1. /\ Committing /\ bak' = main /\ tmp = cmd.new /\ cmd' = [cmd EXCEPT !.step = "discard"]
      /\ UNCHANGED <<records, loaded, condemned, main, tmp>>
  BY DEF CopyBackup, TrustAt, Committing, CommitSteps, TrustInv, TrustShape
<1>2. {main', tmp', bak'} \subseteq Records \union {Missing, Torn} /\ "discard" \in CommitSteps
  BY <1>1 DEF TrustInv, TrustShape, CommitSteps
<1>3. condemned => Harmless(main') /\ Harmless(tmp') /\ Harmless(bak')
  BY <1>1 DEF TrustInv, CondemnedShape, Harmless
<1> QED  BY <1>1, <1>2, <1>3, GoesOnShape

LEMMA DiscardMainInv == ASSUME TrustInv, DiscardMain PROVE TrustInv'
<1>1. /\ Committing /\ cmd.step = "discard" /\ tmp = cmd.new /\ main' = Missing /\ cmd' = [cmd EXCEPT !.step = "rename"]
      /\ UNCHANGED <<records, loaded, condemned, bak, tmp>>
  BY DEF DiscardMain, TrustAt, Committing, CommitSteps, TrustInv, TrustShape
<1>2. {main', tmp', bak'} \subseteq Records \union {Missing, Torn} /\ "rename" \in CommitSteps
  BY <1>1 DEF TrustInv, TrustShape, CommitSteps
<1>3. condemned => Harmless(main') /\ Harmless(tmp') /\ Harmless(bak')
  BY <1>1 DEF TrustInv, CondemnedShape, Harmless
<1> QED  BY <1>1, <1>2, <1>3, GoesOnShape

LEMMA PublishTrustInv == ASSUME TrustInv, PublishTrust PROVE TrustInv'
<1>1. /\ cmd.step = "rename" /\ Committing
      /\ main' = tmp /\ tmp' = Missing /\ records' = cmd.new /\ bak' = bak /\ loaded' = loaded
      /\ condemned' = IF cmd.op = "other" THEN condemned ELSE Condemns(cmd.new)
      /\ cmd' = [op |-> cmd.op, step |-> "committed"]
  BY DEF PublishTrust, TrustAt, GoOn, Step, Committing, CommitSteps
<1>2. cmd.new \in Records /\ cmd.op \in TrustOps /\ tmp = cmd.new
  BY <1>1, CommandIs DEF TrustInv, TrustShape
<1>3. /\ cmd'.op = cmd.op /\ cmd'.step = "committed" /\ ~Committing'
      /\ cmd' \in [op : TrustOps, step : {"none", "move", "sweep", "committed", "dead", "plugins"}]
  BY <1>1, <1>2 DEF Committing, CommitSteps
<1>4. condemned' \in BOOLEAN /\ (condemned' => Harmless(cmd.new))
  <2>1. CASE cmd.op = "other"
    BY <1>1, <2>1 DEF TrustInv, TrustShape, CondemnedShape
  <2>2. CASE cmd.op # "other"
    <3>1. condemned' = Condemns(cmd.new)
      BY <1>1, <2>2
    <3>2. cmd.new # NoRecord => cmd.new.quarantined \in BOOLEAN
      BY <1>2, RecordsAre
    <3>3. cmd.new # NoRecord /\ cmd.new.quarantined => cmd.new = Condemned
      BY <1>2, RecordsAre
    <3> QED  BY <3>1, <3>2, <3>3 DEF Condemns, Harmless
  <2> QED  BY <2>1, <2>2
<1>5. TrustShape'
  BY <1>1, <1>2, <1>3, <1>4 DEF TrustInv, TrustShape
<1>6. CondemnedShape'
  BY <1>1, <1>2, <1>3, <1>4 DEF CondemnedShape, Harmless, TrustReads
<1>7. LoadedShape'
  <2>1. loaded => records = Trusted
    BY <1>1 DEF TrustInv, LoadedShape
  <2>2. cmd.op \in {"install", "other"} => (loaded => records' = Trusted)
    BY <1>1, <2>1, RecordsAre DEF TrustInv, LoadedShape
  <2>3. cmd.op = "remove" /\ records' = NoRecord => ~loaded
    BY <1>1 DEF TrustInv, LoadedShape
  <2>4. cmd.op = "enable" => records' # NoRecord
    BY <1>1 DEF TrustInv, LoadedShape
  <2> QED  BY <1>1, <1>3, <2>2, <2>3, <2>4 DEF LoadedShape
<1> QED  BY <1>5, <1>6, <1>7 DEF TrustInv

-----------------------------------------------------------------------------
(* What the commands do once their record is committed.                       *)
LEMMA CommittedInv == ASSUME TrustInv, Committed PROVE TrustInv'
<1>0. /\ cmd.step = "committed" /\ AfterCommit /\ UNCHANGED <<records, files, condemned>>
      /\ records \in Records /\ cmd.op \in TrustOps /\ loaded \in BOOLEAN
      /\ cmd.op = "enable" => records # NoRecord
      /\ loaded => records = Trusted \/ cmd.op \notin {"install", "other"}
      /\ cmd.op = "remove" /\ records = NoRecord => ~loaded
  BY CommandIs DEF Committed, TrustAt, TrustInv, TrustShape, LoadedShape
<1>1. CASE records.enabled /\ cmd.op = "enable" /\ Abort /\ (loaded' = loaded \/ LoadModule)
  <2>1. records = Trusted
    BY <1>0, <1>1, RecordsAre
  <2> QED  BY <1>0, <1>1, <2>1, AbortInv DEF LoadModule
<1>2. CASE loaded' = FALSE /\ Abort
  BY <1>0, <1>2, AbortInv
<1>3. CASE cmd.op \in {"install", "other"} /\ Abort /\ UNCHANGED loaded
  BY <1>0, <1>3, AbortInv
<1>4. CASE cmd.op = "remove" /\ records # NoRecord /\ loaded' = FALSE /\ GoOn("move")
  BY <1>0, <1>4, EndsInv DEF GoOn, Step
<1>5. CASE cmd.op = "remove" /\ records = NoRecord /\ UNCHANGED loaded /\ GoOn("sweep")
  BY <1>0, <1>5, EndsInv DEF GoOn, Step
<1> QED  BY <1>0, <1>1, <1>2, <1>3, <1>4, <1>5 DEF AfterCommit, Known

LEMMA PutAsideInv == ASSUME TrustInv, PutAside PROVE TrustInv'
<1>1. /\ cmd.step = "move" /\ CommitTrust("remove", NoRecord)
      /\ UNCHANGED <<records, files, loaded, condemned>>
  BY DEF PutAside, TrustAt
<1>2. ~loaded /\ loaded \in BOOLEAN /\ condemned \in BOOLEAN
  BY <1>1 DEF TrustInv, TrustShape, LoadedShape
<1>3. "remove" \in TrustOps /\ cmd.step \notin CommitSteps /\ NoRecord \in Records /\ Harmless(NoRecord)
  BY <1>1, RecordsAre DEF TrustOps, CommitSteps, Harmless
<1> QED  BY <1>1, <1>2, <1>3, CommitsInv

LEMMA SweepInv == ASSUME TrustInv, Sweep PROVE TrustInv'
<1>1. cmd.step = "sweep" /\ Abort /\ UNCHANGED <<records, files, loaded, condemned>>
  BY DEF Sweep, TrustAt
<1>2. ~loaded /\ loaded \in BOOLEAN
  BY <1>1 DEF TrustInv, TrustShape, LoadedShape
<1> QED  BY <1>1, <1>2, AbortInv

(* A call fails: the command is over, and a file may be torn.                 *)
LEMMA FailureInv ==
  ASSUME TrustInv, cmd.step \notin {"committed"}, Abort, AfterFailure, UNCHANGED <<records, condemned>>,
         {main', tmp', bak'} \subseteq Records \union {Missing, Torn},
         condemned => /\ Harmless(main') /\ Harmless(tmp') /\ (TrustReads(main') \/ Harmless(bak'))
  PROVE  TrustInv'
<1>1. /\ cmd' \in [op : TrustOps, step : {"none", "move", "sweep", "committed", "dead", "plugins"}]
      /\ cmd'.step = "none" /\ ~Committing'
  BY DEF Abort, Free, TrustOps, Committing, CommitSteps
<1>2. TrustShape'
  BY <1>1 DEF TrustInv, TrustShape, AfterFailure
<1>3. LoadedShape'
  BY <1>1 DEF TrustInv, LoadedShape, AfterFailure
<1>4. CondemnedShape'
  BY <1>1 DEF TrustInv, CondemnedShape, Harmless, TrustReads
<1> QED  BY <1>2, <1>3, <1>4 DEF TrustInv

LEMMA FilesAre ==
  ASSUME TrustInv
  PROVE  /\ {main, tmp, bak} \subseteq Records \union {Missing, Torn}
         /\ Harmless(Missing) /\ Harmless(Torn) /\ Missing \notin Records /\ Torn \notin Records
         /\ condemned => /\ Harmless(main) /\ Harmless(tmp) /\ (TrustReads(main) \/ Harmless(bak))
                         /\ Committing => Harmless(cmd.new)
         /\ Committing => cmd.new \in Records
  BY RecordsAre, CommandIs DEF TrustInv, TrustShape, CondemnedShape, Harmless

LEMMA WriteFailsInv == ASSUME TrustInv, WriteFails PROVE TrustInv'
<1>1. /\ cmd.step = "write" /\ Committing /\ Abort /\ AfterFailure /\ tmp' \in {Torn, cmd.new}
      /\ UNCHANGED <<records, condemned, main, bak>>
  BY DEF WriteFails, TrustAt, Committing, CommitSteps
<1>2. {main', tmp', bak'} \subseteq Records \union {Missing, Torn}
  BY <1>1, FilesAre
<1>3. condemned => /\ Harmless(main') /\ Harmless(tmp') /\ (TrustReads(main') \/ Harmless(bak'))
  BY <1>1, FilesAre DEF TrustReads
<1> QED  BY <1>1, <1>2, <1>3, FailureInv

LEMMA BackupFailsInv == ASSUME TrustInv, BackupFails PROVE TrustInv'
<1>1. /\ cmd.step = "backup" /\ Abort /\ AfterFailure /\ tmp' = Missing /\ bak' \in {bak, Torn}
      /\ UNCHANGED <<records, condemned, main>>
  BY DEF BackupFails, TrustAt
<1>2. {main', tmp', bak'} \subseteq Records \union {Missing, Torn}
  BY <1>1, FilesAre
<1>3. condemned => /\ Harmless(main') /\ Harmless(tmp') /\ (TrustReads(main') \/ Harmless(bak'))
  BY <1>1, FilesAre DEF TrustReads
<1> QED  BY <1>1, <1>2, <1>3, FailureInv

(* The backup that may take the place of the file is harmless by then.        *)
LEMMA RenameFailsInv == ASSUME TrustInv, RenameFails PROVE TrustInv'
<1>1. /\ cmd.step = "rename" /\ Abort /\ AfterFailure /\ main' \in {bak, Missing, Torn}
      /\ UNCHANGED <<records, condemned, tmp, bak>>
  BY DEF RenameFails, TrustAt
<1>2. {main', tmp', bak'} \subseteq Records \union {Missing, Torn}
  BY <1>1, FilesAre
<1>3. condemned => Harmless(bak)
  BY <1>1 DEF TrustInv, CondemnedShape
<1>4. condemned => /\ Harmless(main') /\ Harmless(tmp') /\ (TrustReads(main') \/ Harmless(bak'))
  BY <1>1, <1>3, FilesAre
<1> QED  BY <1>1, <1>2, <1>4, FailureInv

LEMMA MoveFailsInv == ASSUME TrustInv, MoveFails PROVE TrustInv'
<1>1. cmd.step = "move" /\ Abort /\ UNCHANGED <<records, files, loaded, condemned>>
  BY DEF MoveFails, TrustAt
<1>2. ~loaded /\ loaded \in BOOLEAN
  BY <1>1 DEF TrustInv, TrustShape, LoadedShape
<1> QED  BY <1>1, <1>2, AbortInv

LEMMA KillTrustInv == ASSUME TrustInv, KillTrust PROVE TrustInv'
<1>1. /\ tmp' \in {tmp} \/ (cmd.step = "write" /\ tmp' \in {Torn, cmd.new})
      /\ bak' \in {bak} \/ (cmd.step = "backup" /\ bak' \in {Torn, main})
      /\ records' = NoRecord /\ loaded' = FALSE /\ cmd' = [op |-> "dead", step |-> "dead"]
      /\ UNCHANGED <<main, condemned>>
  BY DEF KillTrust, TrustAt, Step
<1>2. /\ cmd' \in [op : TrustOps, step : {"none", "move", "sweep", "committed", "dead", "plugins"}]
      /\ cmd'.step = "dead" /\ ~Committing'
  BY <1>1 DEF TrustOps, Committing, CommitSteps
<1>3. {main', tmp', bak'} \subseteq Records \union {Missing, Torn}
  BY <1>1, FilesAre DEF Committing, CommitSteps
<1>4. condemned => /\ Harmless(main') /\ Harmless(tmp') /\ (TrustReads(main') \/ Harmless(bak'))
  BY <1>1, FilesAre DEF Committing, CommitSteps, TrustReads
<1>5. TrustShape'
  BY <1>1, <1>2, <1>3, RecordsAre DEF TrustInv, TrustShape
<1>6. LoadedShape'
  BY <1>1, <1>2 DEF LoadedShape
<1>7. CondemnedShape'
  BY <1>1, <1>2, <1>4 DEF CondemnedShape, Harmless
<1> QED  BY <1>5, <1>6, <1>7 DEF TrustInv

(* The first file that reads is harmless, when a quarantine is recorded.      *)
LEMMA StartInv == ASSUME TrustInv, Start PROVE TrustInv'
<1>1. /\ cmd.step = "dead" /\ records' = FirstReadable /\ cmd' = [op |-> "start", step |-> "plugins"]
      /\ UNCHANGED <<files, loaded, condemned>>
  BY DEF Start, LoadTrust, TrustAt, Step
<1>2. /\ cmd' \in [op : TrustOps, step : {"none", "move", "sweep", "committed", "dead", "plugins"}]
      /\ cmd'.step = "plugins" /\ ~Committing'
  BY <1>1 DEF TrustOps, Committing, CommitSteps
<1>3. FirstReadable \in Records /\ ~loaded
  BY <1>1, RecordsAre DEF FirstReadable, TrustReads, TrustInv, LoadedShape
<1>4. condemned => Harmless(FirstReadable)
  BY FilesAre DEF FirstReadable, Harmless
<1>5. TrustShape'
  BY <1>1, <1>2, <1>3 DEF TrustInv, TrustShape, files
<1>6. LoadedShape' /\ CondemnedShape'
  BY <1>1, <1>2, <1>3, <1>4 DEF TrustInv, LoadedShape, CondemnedShape, files, Harmless, TrustReads
<1> QED  BY <1>5, <1>6 DEF TrustInv

LEMMA StartPluginsInv == ASSUME TrustInv, StartPlugins PROVE TrustInv'
<1>1. cmd.step = "plugins" /\ UNCHANGED <<records, files, condemned>>
  BY DEF StartPlugins, TrustAt
<1> QED  BY <1>1, AtRest, LoadEnabledInv, AbortInv DEF StartPlugins

LEMMA NextTrustInv == ASSUME TrustInv, [TrustNext]_trustVars PROVE TrustInv'
<1>1. CASE PackageChanges \/ UNCHANGED trustVars
  <2>1. UNCHANGED <<records, files, loaded, cmd, condemned>>
    BY <1>1 DEF PackageChanges, trustVars
  <2>2. Committing' = Committing
    BY <2>1 DEF Committing
  <2> QED  BY <2>1, <2>2 DEF TrustInv, TrustShape, LoadedShape, CondemnedShape, files, Harmless, TrustReads
<1>2. CASE Commands
  BY <1>2, InstallInv, EnableInv, DisableInv, VerifyInv, ReloadInv, RemoveInv, SettingsOffInv,
     SettingsOnInv, OtherPluginInv DEF Commands
<1>3. CASE TrustSteps
  BY <1>3, WriteTrustTempInv, CopyBackupInv, DiscardMainInv, PublishTrustInv, CommittedInv, PutAsideInv,
     SweepInv DEF TrustSteps
<1>4. CASE Failures
  BY <1>4, WriteFailsInv, BackupFailsInv, RenameFailsInv, MoveFailsInv DEF Failures
<1> QED  BY <1>1, <1>2, <1>3, <1>4, KillTrustInv, StartInv, StartPluginsInv DEF TrustNext

(* However many calls fail and wherever the process is killed, a plugin is    *)
(* loaded only if its record allows it, and a recorded quarantine is not      *)
(* lifted by any file that a start may come to read.                          *)
THEOREM TrustIsNotRaised == TrustSpec => [](LoadedIsTrusted /\ QuarantineLasts)
<1>1. TrustInv => LoadedIsTrusted /\ QuarantineLasts
  <2> SUFFICES ASSUME TrustInv, Ready PROVE LoadedIsTrusted /\ QuarantineLasts
    BY DEF LoadedIsTrusted, QuarantineLasts
  <2>1. loaded => Known /\ records.enabled /\ ~records.quarantined
    BY AtRest, ReadyStep, RecordsAre DEF Known
  <2>2. condemned /\ Known => records = Condemned
    BY AtRest, ReadyStep, HarmlessRecords DEF Known
  <2> QED  BY <2>1, <2>2 DEF LoadedIsTrusted, QuarantineLasts, Condemned, Record
<1>2. TrustInv /\ [TrustNext]_trustVars => TrustInv'
  BY NextTrustInv
<1> QED  BY InitTrustInv, <1>1, <1>2, PTL DEF TrustSpec

-----------------------------------------------------------------------------
(* A record is owed to a package, and to a plugin whose quarantine was        *)
(* recorded; a removal that can still be undone owes it, too.                 *)
Owed ==
  /\ ~halfDone
  /\ package # "absent" \/ condemned \/ (cmd.op = "remove" /\ Committing /\ aside # "absent")
Installing == cmd.op = "install" /\ Committing
Removing ==
  /\ cmd.op = "remove"
  /\ (Committing /\ cmd.new = NoRecord) \/ (cmd.step = "committed" /\ ~Known) \/ cmd.step = "sweep"

OwedShape ==
  /\ trustFaults \in 0..MaxTrustFaults
  /\ Installing => ~condemned
  /\ aside # "absent" => halfDone \/ Removing
  /\ cmd.op = "remove" /\ Committing /\ cmd.new = NoRecord => package = "absent"
  /\ cmd.step = "sweep" => cmd.op = "remove" /\ ~Owed
  /\ cmd.step = "move" => cmd.op = "remove"
  /\ cmd.step = "dead" => cmd.op = "dead"
  /\ cmd.step # "dead" /\ Owed => Known \/ Installing
  /\ Owed /\ Committing /\ cmd.op # "remove" => cmd.new # NoRecord

(* Until the first fault the file holds the record, or its backup and the     *)
(* temporary file do; after it one of the two ways to the record is left, and *)
(* after the second the one that the next start takes.                        *)
Telling(f) == f \in Records \ {NoRecord}
Spared == ~TrustReads(main) /\ Telling(tmp) /\ Telling(bak)
NoFaultYet ==
  /\ cmd.step # "dead"
  /\ cmd.step = "rename" => ~TrustReads(main)
  /\ cmd.step # "rename" => Telling(main)
  /\ cmd.step \in {"discard", "rename"} => Telling(bak)
OneFault ==
  /\ cmd.step \in {"backup", "discard"} => Telling(main) \/ ~TrustReads(main)
  /\ cmd.step = "rename" => ~TrustReads(main)
  /\ cmd.step \notin {"backup", "discard", "rename"} => Telling(main) \/ Spared
FilesTell ==
  /\ trustFaults = 0 => NoFaultYet
  /\ trustFaults = 1 => OneFault
  /\ cmd.step = "dead" => Telling(FirstReadable)

OwedInv == OwedShape /\ (Owed /\ ~Installing => FilesTell)

-----------------------------------------------------------------------------
LEMMA InitOwedInv == TrustInit => OwedInv
  BY TrustAssumption DEF TrustInit, OwedInv, OwedShape, Owed, Free, Installing, Committing, CommitSteps

OwedVars == <<records, files, package, aside, trustFaults, condemned, halfDone>>

(* A command but for an installation begins its commit.                       *)
LEMMA CommitsOwedInv ==
  ASSUME OwedInv, cmd.step \in {"none", "plugins"}, NEW op \in TrustOps \ {"install"}, NEW new \in Records,
         CommitTrust(op, new), UNCHANGED OwedVars, Owed \/ op = "remove" => new # NoRecord
  PROVE  OwedInv'
<1>1. cmd'.op = op /\ cmd'.step = "write" /\ cmd'.new = new /\ Committing' /\ ~Committing /\ ~Installing'
  BY CommitBegins DEF Committing, CommitSteps, Installing
<1>2. aside # "absent" => halfDone
  BY DEF OwedInv, OwedShape, Removing, Committing, CommitSteps
<1>3. Owed' <=> Owed
  BY <1>1, <1>2 DEF Owed, OwedVars
<1>4. OwedShape'
  BY <1>1, <1>2, <1>3 DEF OwedInv, OwedShape, OwedVars, Known, Installing
<1>5. Owed => FilesTell'
  BY <1>1 DEF OwedInv, FilesTell, NoFaultYet, OneFault, Spared, Telling, TrustReads, OwedVars, files,
              Installing
<1> QED  BY <1>3, <1>4, <1>5 DEF OwedInv

(* A command ends, or goes on without a commit.                               *)
LEMMA EndsOwedInv ==
  ASSUME OwedInv, cmd.step \in {"none", "plugins", "move", "sweep", "committed"}, NEW op, NEW step \in {"none", "move", "sweep"},
         cmd' = [op |-> op, step |-> step], UNCHANGED OwedVars,
         aside # "absent" => halfDone \/ (step = "sweep" /\ op = "remove"),
         step = "move" => op = "remove", step = "sweep" => op = "remove" /\ records = NoRecord
  PROVE  OwedInv'
<1>1. cmd'.op = op /\ cmd'.step = step /\ ~Committing' /\ ~Committing /\ ~Installing' /\ ~Installing
  BY DEF Committing, CommitSteps, Installing
<1>2. Owed' <=> Owed
  BY <1>1 DEF Owed, OwedVars
<1>3. OwedShape'
  BY <1>1, <1>2 DEF OwedInv, OwedShape, OwedVars, Known, Removing
<1>4. Owed => FilesTell'
  BY <1>1 DEF OwedInv, FilesTell, NoFaultYet, OneFault, Spared, Telling, TrustReads, OwedVars, files
<1> QED  BY <1>2, <1>3, <1>4 DEF OwedInv

(* Before a commit and after nothing is put aside.                            *)
LEMMA NothingAside ==
  ASSUME OwedInv, cmd.step \in {"none", "plugins", "move"}
  PROVE  (aside # "absent" => halfDone) /\ (Owed => Known)
  BY DEF OwedInv, OwedShape, Removing, Installing, Committing, CommitSteps

LEMMA AbortOwedInv ==
  ASSUME OwedInv, cmd.step \in {"none", "plugins", "move"}, Abort, UNCHANGED OwedVars
  PROVE  OwedInv'
  BY NothingAside, EndsOwedInv DEF Abort, Free

LEMMA QuarantineOwedInv ==
  ASSUME OwedInv, cmd.step \in {"none", "plugins"}, NEW op \in {"enable", "verify", "reload", "load"},
         Quarantine(op), UNCHANGED OwedVars
  PROVE  OwedInv'
  BY RecordsAre, CommitsOwedInv DEF Quarantine, Condemned, TrustOps

LEMMA InstallOwedInv == ASSUME TrustInv, OwedInv, Install PROVE OwedInv'
<1>1. /\ cmd.step = "none" /\ CommitTrust("install", Record(FALSE, FALSE)) /\ ~condemned'
      /\ UNCHANGED <<records, files, aside, trustFaults, halfDone>>
  BY ReadyStep DEF Install
<1>2. /\ cmd'.op = "install" /\ cmd'.step = "write" /\ cmd'.new = Record(FALSE, FALSE) /\ Installing'
      /\ cmd'.new # NoRecord
  BY <1>1, TrustAssumption DEF CommitTrust, Installing, Committing, CommitSteps
<1>3. OwedShape'
  BY <1>1, <1>2, NothingAside DEF OwedInv, OwedShape
<1> QED  BY <1>2, <1>3 DEF OwedInv

LEMMA CommandOwedInv ==
  ASSUME TrustInv, OwedInv, Enable \/ Disable \/ Verify \/ Reload \/ Remove \/ OtherPlugin
  PROVE  OwedInv'
<1>1. cmd.step = "none" /\ UNCHANGED OwedVars /\ records \in Records
  BY ReadyStep, AtRest DEF Enable, Disable, Verify, Reload, Remove, OtherPlugin, OwedVars
<1>2. CASE Enable
  BY <1>1, <1>2, QuarantineOwedInv, CommitsOwedInv, RecordsAre DEF Enable, TrustOps, Trusted
<1>3. CASE Disable
  <2> DEFINE new == Record(FALSE, records.quarantined)
  <2>1. new \in Records /\ new # NoRecord /\ CommitTrust("disable", new)
    BY <1>1, <1>3, RecordsAre, TrustAssumption DEF Disable, Known
  <2> HIDE DEF new
  <2> QED  BY <1>1, <2>1, CommitsOwedInv DEF TrustOps
<1>4. CASE Verify
  BY <1>1, <1>4, QuarantineOwedInv DEF Verify
<1>5. CASE Reload
  BY <1>1, <1>5, QuarantineOwedInv, AbortOwedInv DEF Reload
<1>6. CASE Remove
  <2>1. CASE CommitTrust("remove", Record(FALSE, FALSE))
    BY <1>1, <2>1, CommitsOwedInv, RecordsAre, TrustAssumption DEF TrustOps
  <2>2. CASE Step("remove", "move")
    BY <1>1, <2>2, NothingAside, EndsOwedInv DEF Step
  <2> QED  BY <1>6, <2>1, <2>2 DEF Remove
<1>7. CASE OtherPlugin
  BY <1>1, <1>7, NothingAside, CommitsOwedInv DEF OtherPlugin, TrustOps, Known
<1> QED  BY <1>2, <1>3, <1>4, <1>5, <1>6, <1>7

(* A fault while no command touches the files.                                *)
LEMMA FaultAtRest ==
  ASSUME OwedInv, cmd.step \in {"none", "move"}, Budget, cmd' = cmd \/ Abort,
         UNCHANGED <<records, files, package, aside, condemned, halfDone>>
  PROVE  OwedInv'
<1>1. (aside # "absent" => halfDone) /\ (Owed => Known)
  BY NothingAside
<1>2. /\ cmd'.step \in {"none", "move"} /\ ~Committing' /\ ~Committing /\ ~Installing' /\ ~Installing
      /\ cmd'.step = "move" => cmd'.op = "remove"
  BY DEF Abort, Free, Committing, CommitSteps, Installing, OwedInv, OwedShape
<1>3. Owed' <=> Owed
  BY <1>2 DEF Owed
<1>4. trustFaults' = trustFaults + 1 /\ trustFaults \in Nat /\ trustFaults' \in 0..MaxTrustFaults
  BY TrustAssumption DEF Budget, OwedInv, OwedShape
<1>5. OwedShape'
  BY <1>1, <1>2, <1>3, <1>4 DEF OwedShape, Known
<1>6. Owed => FilesTell'
  BY <1>2, <1>4 DEF OwedInv, FilesTell, NoFaultYet, OneFault, Spared, Telling, TrustReads, files
<1> QED  BY <1>3, <1>5, <1>6 DEF OwedInv

LEMMA LoadEnabledOwedInv ==
  ASSUME TrustInv, OwedInv, cmd.step \in {"none", "plugins"}, LoadEnabled, UNCHANGED OwedVars
  PROVE  OwedInv'
  BY AbortOwedInv, QuarantineOwedInv DEF LoadEnabled

LEMMA SettingsOwedInv == ASSUME TrustInv, OwedInv, SettingsOff \/ SettingsOn PROVE OwedInv'
<1>1. cmd.step = "none" /\ UNCHANGED <<records, files, package, aside, condemned, halfDone>>
  BY ReadyStep DEF SettingsOff, SettingsOn
<1>2. CASE UNCHANGED trustFaults /\ cmd' = Free
  BY <1>1, <1>2, AbortOwedInv DEF Abort, OwedVars
<1>3. CASE UNCHANGED trustFaults /\ LoadEnabled
  BY <1>1, <1>3, LoadEnabledOwedInv DEF OwedVars
<1>4. CASE Budget /\ UNCHANGED cmd
  BY <1>1, <1>4, FaultAtRest
<1> QED  BY <1>2, <1>3, <1>4 DEF SettingsOff, SettingsOn, SettingsSaveFails, Ready

LEMMA StartOwedInv == ASSUME TrustInv, OwedInv, Start PROVE OwedInv'
<1>1. /\ cmd.step = "dead" /\ records' = FirstReadable /\ cmd' = [op |-> "start", step |-> "plugins"]
      /\ UNCHANGED <<files, package, aside, trustFaults, condemned, halfDone>>
  BY DEF Start, LoadTrust, TrustAt, Step
<1>2. cmd'.op = "start" /\ cmd'.step = "plugins" /\ ~Committing' /\ ~Committing /\ ~Installing' /\ ~Installing
  BY <1>1 DEF Committing, CommitSteps, Installing
<1>3. (Owed' <=> Owed) /\ (aside # "absent" => halfDone)
  BY <1>1, <1>2 DEF Owed, OwedInv, OwedShape, Removing
<1>4. Owed => FilesTell /\ Telling(FirstReadable)
  BY <1>1, <1>2 DEF OwedInv, FilesTell
<1>5. OwedShape'
  BY <1>1, <1>2, <1>3, <1>4 DEF OwedInv, OwedShape, Telling, Known
<1>6. Owed => FilesTell'
  BY <1>1, <1>2, <1>4 DEF FilesTell, NoFaultYet, OneFault, Spared, Telling, TrustReads, files
<1> QED  BY <1>3, <1>5, <1>6 DEF OwedInv

LEMMA StartPluginsOwedInv == ASSUME TrustInv, OwedInv, StartPlugins PROVE OwedInv'
<1>1. cmd.step = "plugins" /\ UNCHANGED OwedVars
  BY DEF StartPlugins, TrustAt, OwedVars
<1> QED  BY <1>1, LoadEnabledOwedInv, AbortOwedInv DEF StartPlugins

(* A commit goes on.                                                          *)
LEMMA GoesOnOwedInv ==
  ASSUME TrustInv, OwedInv, Committing, NEW step \in CommitSteps, cmd' = [cmd EXCEPT !.step = step],
         UNCHANGED <<records, package, aside, trustFaults, condemned, halfDone>>,
         Owed /\ ~Installing => FilesTell'
  PROVE  OwedInv'
<1>1. /\ cmd'.op = cmd.op /\ cmd'.step = step /\ cmd'.new = cmd.new /\ Committing'
      /\ step \notin {"none", "sweep", "move", "dead", "committed"}
      /\ cmd.step \notin {"none", "sweep", "move", "dead", "committed"}
  BY CommitGoesOn DEF Committing, CommitSteps
<1>2. (Owed' <=> Owed) /\ (Installing' <=> Installing) /\ (Removing' <=> Removing)
  BY <1>1 DEF Owed, Installing, Removing
<1>3. OwedShape'
  BY <1>1, <1>2 DEF OwedInv, OwedShape, Known
<1> QED  BY <1>2, <1>3 DEF OwedInv

LEMMA WriteTrustTempOwedInv == ASSUME TrustInv, OwedInv, WriteTrustTemp PROVE OwedInv'
<1>1. /\ cmd.step = "write" /\ Committing
      /\ UNCHANGED <<records, main, bak, package, aside, trustFaults, condemned, halfDone>>
  BY DEF WriteTrustTemp, TrustAt, Committing, CommitSteps
<1>2. PICK step \in {"rename", "backup"} :
        cmd' = [cmd EXCEPT !.step = step] /\ (step = "rename" <=> main = Missing)
  BY DEF WriteTrustTemp
<1>3. cmd'.step = step /\ step \in CommitSteps
  BY <1>1, <1>2, CommitGoesOn DEF CommitSteps
<1>4. Owed /\ ~Installing => FilesTell'
  BY <1>1, <1>2, <1>3, RecordsAre DEF OwedInv, FilesTell, NoFaultYet, OneFault, Spared, Telling, TrustReads
<1> QED  BY <1>1, <1>2, <1>3, <1>4, GoesOnOwedInv

LEMMA CopyBackupOwedInv == ASSUME TrustInv, OwedInv, CopyBackup PROVE OwedInv'
<1>1. /\ cmd.step = "backup" /\ Committing /\ bak' = main /\ cmd' = [cmd EXCEPT !.step = "discard"]
      /\ UNCHANGED <<records, main, tmp, package, aside, trustFaults, condemned, halfDone>>
  BY DEF CopyBackup, TrustAt, Committing, CommitSteps
<1>2. cmd'.step = "discard" /\ "discard" \in CommitSteps
  BY <1>1, CommitGoesOn DEF CommitSteps
<1>3. Owed /\ ~Installing => FilesTell'
  BY <1>1, <1>2 DEF OwedInv, FilesTell, NoFaultYet, OneFault, Spared, Telling, TrustReads
<1> QED  BY <1>1, <1>2, <1>3, GoesOnOwedInv

LEMMA DiscardMainOwedInv == ASSUME TrustInv, OwedInv, DiscardMain PROVE OwedInv'
<1>1. /\ cmd.step = "discard" /\ Committing /\ main' = Missing /\ cmd' = [cmd EXCEPT !.step = "rename"]
      /\ UNCHANGED <<records, bak, tmp, package, aside, trustFaults, condemned, halfDone>>
  BY DEF DiscardMain, TrustAt, Committing, CommitSteps
<1>2. cmd'.step = "rename" /\ "rename" \in CommitSteps
  BY <1>1, CommitGoesOn DEF CommitSteps
<1>3. Owed /\ ~Installing => FilesTell'
  BY <1>1, <1>2, RecordsAre DEF OwedInv, FilesTell, NoFaultYet, OneFault, Spared, Telling, TrustReads
<1> QED  BY <1>1, <1>2, <1>3, GoesOnOwedInv

LEMMA PublishTrustOwedInv == ASSUME TrustInv, OwedInv, PublishTrust PROVE OwedInv'
<1>1. /\ cmd.step = "rename" /\ Committing
      /\ main' = tmp /\ tmp' = Missing /\ records' = cmd.new /\ bak' = bak
      /\ condemned' = IF cmd.op = "other" THEN condemned ELSE Condemns(cmd.new)
      /\ cmd' = [op |-> cmd.op, step |-> "committed"]
      /\ UNCHANGED <<package, aside, trustFaults, halfDone>>
  BY DEF PublishTrust, TrustAt, GoOn, Step, Committing, CommitSteps
<1>2. cmd.new \in Records /\ tmp = cmd.new
  BY <1>1, CommandIs DEF TrustInv, TrustShape
<1>3. cmd'.op = cmd.op /\ cmd'.step = "committed" /\ ~Committing' /\ ~Installing' /\ (Removing' <=> Removing)
  BY <1>1 DEF Committing, CommitSteps, Installing, Removing, Known
<1>4. Owed' => cmd.new # NoRecord
  <2>1. ASSUME Owed', cmd.new = NoRecord PROVE FALSE
    <3>1. CASE cmd.op = "remove"
      BY <1>1, <1>3, <2>1, <3>1 DEF Owed, OwedInv, OwedShape, Condemns
    <3>2. CASE cmd.op # "remove"
      <4>1. condemned' => condemned
        BY <1>1, <2>1 DEF Condemns
      <4>2. Owed
        BY <1>1, <1>3, <2>1, <3>2, <4>1 DEF Owed
      <4> QED  BY <1>1, <2>1, <3>2, <4>2 DEF OwedInv, OwedShape
    <3> QED  BY <3>1, <3>2
  <2> QED  BY <2>1
<1>5. OwedShape'
  BY <1>1, <1>3, <1>4 DEF OwedInv, OwedShape, Known
<1>6. Owed' => FilesTell'
  BY <1>1, <1>2, <1>3, <1>4 DEF FilesTell, NoFaultYet, OneFault, Telling
<1> QED  BY <1>5, <1>6 DEF OwedInv

LEMMA CommittedOwedInv == ASSUME TrustInv, OwedInv, Committed PROVE OwedInv'
<1>1. cmd.step = "committed" /\ AfterCommit /\ UNCHANGED OwedVars
  BY DEF Committed, TrustAt, OwedVars
<1>2. aside # "absent" => halfDone \/ (cmd.op = "remove" /\ records = NoRecord)
  BY <1>1 DEF OwedInv, OwedShape, Removing, Installing, Committing, CommitSteps, Owed, Known
<1>3. CASE cmd.op # "remove" /\ Abort
  BY <1>1, <1>2, <1>3, EndsOwedInv DEF Abort, Free
<1>4. CASE cmd.op = "remove" /\ Known /\ GoOn("move")
  BY <1>1, <1>2, <1>4, EndsOwedInv DEF GoOn, Step, Known
<1>5. CASE cmd.op = "remove" /\ ~Known /\ GoOn("sweep")
  BY <1>1, <1>2, <1>5, EndsOwedInv DEF GoOn, Step, Known
<1> QED  BY <1>1, <1>3, <1>4, <1>5 DEF AfterCommit, UnloadAfter

LEMMA PutAsideOwedInv == ASSUME TrustInv, OwedInv, PutAside PROVE OwedInv'
<1>1. /\ cmd.step = "move" /\ CommitTrust("remove", NoRecord) /\ aside' = package /\ package' = "absent"
      /\ UNCHANGED <<records, files, trustFaults, condemned, halfDone>>
  BY DEF PutAside, TrustAt
<1>2. /\ cmd'.op = "remove" /\ cmd'.step = "write" /\ cmd'.new = NoRecord /\ Committing' /\ ~Committing
      /\ ~Installing' /\ ~Installing /\ Removing'
  BY <1>1 DEF CommitTrust, Committing, CommitSteps, Installing, Removing
<1>3. Owed' => Owed
  BY <1>1, <1>2 DEF Owed
<1>4. OwedShape'
  BY <1>1, <1>2, <1>3, NothingAside DEF OwedInv, OwedShape, Known
<1>5. Owed => FilesTell'
  BY <1>1, <1>2 DEF OwedInv, FilesTell, NoFaultYet, OneFault, Spared, Telling, TrustReads, files
<1> QED  BY <1>3, <1>4, <1>5 DEF OwedInv

LEMMA SweepOwedInv == ASSUME TrustInv, OwedInv, Sweep PROVE OwedInv'
<1>1. /\ cmd.step = "sweep" /\ aside' = "absent" /\ cmd' = Free
      /\ UNCHANGED <<records, files, package, trustFaults, condemned, halfDone>>
  BY DEF Sweep, TrustAt, Abort
<1>2. cmd'.step = "none" /\ cmd'.op = "none" /\ ~Committing' /\ ~Owed /\ ~Installing'
  BY <1>1 DEF Free, Committing, CommitSteps, OwedInv, OwedShape, Installing
<1>3. ~Owed'
  BY <1>1, <1>2 DEF Owed
<1> QED  BY <1>1, <1>2, <1>3 DEF OwedInv, OwedShape

-----------------------------------------------------------------------------
(* A failing call uses up a fault.                                            *)
LEMMA FaultsAre ==
  ASSUME OwedInv, MaxTrustFaults <= 2, Budget
  PROVE  /\ trustFaults \in {0, 1} /\ trustFaults' = trustFaults + 1
         /\ trustFaults' \in 0..MaxTrustFaults /\ trustFaults' # 0
         /\ trustFaults' = 1 <=> trustFaults = 0
  BY TrustAssumption DEF OwedInv, OwedShape, Budget

(* A command that fails leaves no debt but the one there was.                 *)
LEMMA UndoneOwes ==
  ASSUME TrustInv, OwedInv, Committing, Undo, Abort, halfDone' = (halfDone \/ LeftBehind), UNCHANGED condemned
  PROVE  /\ aside' # "absent" => halfDone'
         /\ Owed' => Owed /\ ~Installing /\ (cmd.op = "remove" => tmp' # NoRecord)
         /\ ~Committing' /\ ~Installing' /\ cmd'.step = "none"
<1>1. ~Committing' /\ ~Installing' /\ cmd'.step = "none" /\ cmd'.op = "none"
  BY DEF Abort, Free, Committing, CommitSteps, Installing
<1>2. CASE cmd.op = "install"
  <2>1. aside' # "absent" => halfDone'
    BY <1>2 DEF Undo, OwedInv, OwedShape, Removing
  <2>2. ~Owed'
    BY <1>1, <1>2 DEF Undo, LeftBehind, Owed, OwedInv, OwedShape, Installing
  <2> QED  BY <1>1, <2>1, <2>2
<1>3. CASE cmd.op = "remove"
  <2>1. aside' # "absent" => halfDone'
    BY <1>3 DEF LeftBehind
  <2>2. Owed' => Owed /\ tmp' # NoRecord
    BY <1>1, <1>3 DEF Undo, LeftBehind, Owed
  <2> QED  BY <1>1, <1>3, <2>1, <2>2 DEF Installing
<1>4. CASE cmd.op \notin {"install", "remove"}
  BY <1>1, <1>4 DEF Undo, Owed, OwedInv, OwedShape, Removing, Installing
<1> QED  BY <1>2, <1>3, <1>4

LEMMA FailsOwedInv ==
  ASSUME TrustInv, OwedInv, MaxTrustFaults <= 2, Budget, Committing, Undo, Abort,
         halfDone' = (halfDone \/ LeftBehind), UNCHANGED <<records, condemned>>,
         Owed /\ ~Installing /\ (cmd.op = "remove" => tmp' # NoRecord) /\ trustFaults = 0
           => Telling(main') \/ (~TrustReads(main') /\ Telling(tmp') /\ Telling(bak'))
  PROVE  OwedInv'
<1>1. /\ aside' # "absent" => halfDone'
      /\ Owed' => Owed /\ ~Installing /\ (cmd.op = "remove" => tmp' # NoRecord)
      /\ ~Committing' /\ ~Installing' /\ cmd'.step = "none"
  BY UndoneOwes
<1>2. cmd.step # "dead"
  BY DEF Committing, CommitSteps
<1>3. OwedShape'
  BY <1>1, <1>2, FaultsAre DEF OwedInv, OwedShape, Known
<1>4. Owed' => FilesTell'
  BY <1>1, FaultsAre DEF FilesTell, NoFaultYet, OneFault, Spared
<1> QED  BY <1>3, <1>4 DEF OwedInv

LEMMA FailuresOwedInv == ASSUME TrustInv, OwedInv, MaxTrustFaults <= 2, Failures PROVE OwedInv'
<1>1. CASE WriteFails
  <2>1. cmd.step = "write" /\ Committing /\ Budget /\ Undo /\ Abort /\ UNCHANGED <<records, main, condemned>>
    BY <1>1 DEF WriteFails, TrustAt, Committing, CommitSteps
  <2>2. Owed /\ ~Installing /\ trustFaults = 0 => Telling(main')
    BY <2>1 DEF OwedInv, FilesTell, NoFaultYet, Telling
  <2> QED  BY <1>1, <2>1, <2>2, FailsOwedInv DEF WriteFails
<1>2. CASE BackupFails
  <2>1. cmd.step = "backup" /\ Committing /\ Budget /\ Undo /\ Abort /\ UNCHANGED <<records, main, condemned>>
    BY <1>2 DEF BackupFails, TrustAt, Committing, CommitSteps
  <2>2. Owed /\ ~Installing /\ trustFaults = 0 => Telling(main')
    BY <2>1 DEF OwedInv, FilesTell, NoFaultYet, Telling
  <2> QED  BY <1>2, <2>1, <2>2, FailsOwedInv DEF BackupFails
<1>3. CASE RenameFails
  <2>1. /\ cmd.step = "rename" /\ Committing /\ Budget /\ Undo /\ Abort
        /\ UNCHANGED <<records, tmp, bak, condemned>>
        /\ main' \in (IF bak = Missing THEN {Missing} ELSE {bak, Missing, Torn})
        /\ tmp = cmd.new /\ cmd.new \in Records
    BY <1>3, CommandIs DEF RenameFails, TrustAt, Committing, CommitSteps, TrustInv, TrustShape
  <2>2. Owed /\ ~Installing /\ trustFaults = 0 => Telling(bak)
    BY <2>1 DEF OwedInv, FilesTell, NoFaultYet
  <2>3. Owed /\ (cmd.op = "remove" => tmp' # NoRecord) => Telling(tmp')
    BY <2>1 DEF OwedInv, OwedShape, Telling
  <2>4. Telling(bak) => Telling(main') \/ ~TrustReads(main')
    BY <2>1, RecordsAre DEF Telling, TrustReads
  <2>5. bak' = bak
    BY <2>1
  <2>6. Telling(bak) <=> Telling(bak')
    BY <2>5 DEF Telling
  <2> QED  BY <1>3, <2>1, <2>2, <2>3, <2>4, <2>6, FailsOwedInv DEF RenameFails
<1>4. CASE MoveFails
  BY <1>4, FaultAtRest DEF MoveFails, TrustAt
<1> QED  BY <1>1, <1>2, <1>3, <1>4 DEF Failures

LEMMA KillOwedInv == ASSUME TrustInv, OwedInv, MaxTrustFaults <= 2, KillTrust PROVE OwedInv'
<1>1. /\ tmp' = tmp \/ (cmd.step = "write" /\ tmp' \in {Torn, cmd.new})
      /\ bak' = bak \/ cmd.step = "backup"
      /\ cmd.op # "dead" /\ cmd' = [op |-> "dead", step |-> "dead"] /\ Budget
      /\ halfDone' = (halfDone \/ cmd.op \in {"install", "remove"})
      /\ UNCHANGED <<main, package, aside, condemned>>
  BY DEF KillTrust, TrustAt, Step
<1>2. cmd'.op = "dead" /\ cmd'.step = "dead" /\ ~Committing' /\ ~Installing' /\ cmd.step # "dead"
  BY <1>1 DEF Committing, CommitSteps, Installing, OwedInv, OwedShape
<1>3. aside' # "absent" => halfDone'
  BY <1>1 DEF OwedInv, OwedShape, Removing
<1>4. Owed' => Owed /\ cmd.op \notin {"install", "remove"}
  BY <1>1, <1>2 DEF Owed
<1>5. OwedShape'
  BY <1>1, <1>2, <1>3, <1>4, FaultsAre DEF OwedInv, OwedShape
<1>6. ASSUME Owed' PROVE FilesTell'
  <2>1. Owed /\ ~Installing /\ FilesTell
    BY <1>4, <1>6 DEF Installing, OwedInv
  <2>2. Committing => cmd.new \in Records /\ Telling(cmd.new)
    BY <1>4, <1>6, CommandIs DEF TrustInv, OwedInv, OwedShape, Telling
  <2>3. cmd.step \in {"backup", "discard", "rename"} => Committing /\ tmp = cmd.new /\ tmp' = tmp /\ Telling(tmp')
    BY <1>1, <2>2 DEF TrustInv, TrustShape, Committing, CommitSteps
  <2>4. cmd.step = "write" => Committing
    BY DEF Committing, CommitSteps
  <2>5. Torn \notin Records
    BY RecordsAre
  <2>6. ASSUME trustFaults = 0
        PROVE  Telling(main') \/ (~TrustReads(main') /\ Telling(tmp') /\ Telling(bak'))
    BY <1>1, <2>1, <2>3, <2>6 DEF FilesTell, NoFaultYet, Telling, TrustReads
  <2>7. ASSUME trustFaults = 1
        PROVE  FirstReadable' \in Records \ {NoRecord}
    <3>1. CASE cmd.step \in {"backup", "discard", "rename"}
      BY <1>1, <2>1, <2>3, <2>7, <3>1 DEF FilesTell, OneFault, Telling, TrustReads, FirstReadable
    <3>2. CASE cmd.step \notin {"backup", "discard", "rename"}
      <4>1. Telling(main) \/ Spared
        BY <2>1, <2>7, <3>2 DEF FilesTell, OneFault
      <4>2. bak' = bak /\ main' = main /\ (tmp' \in {tmp, Torn} \/ Telling(tmp'))
        BY <1>1, <2>2, <2>4, <3>2 DEF Telling
      <4> QED  BY <1>1, <2>5, <3>2, <4>1, <4>2 DEF Spared, Telling, TrustReads, FirstReadable
    <3> QED  BY <3>1, <3>2
  <2>8. trustFaults = 0 => Telling(FirstReadable')
    BY <2>6 DEF Telling, TrustReads, FirstReadable
  <2> QED  BY <1>1, <1>2, <2>6, <2>7, <2>8, FaultsAre DEF FilesTell, NoFaultYet, OneFault, Spared, Telling, TrustReads
<1> QED  BY <1>5, <1>6 DEF OwedInv

LEMMA NextOwedInv ==
  ASSUME TrustInv, OwedInv, MaxTrustFaults <= 2, [TrustNext]_trustVars PROVE OwedInv'
<1>1. CASE PackageChanges
  <2>1. /\ UNCHANGED <<records, files, aside, cmd, trustFaults, condemned, halfDone>>
        /\ package # "absent" /\ package' # "absent"
    BY <1>1 DEF PackageChanges
  <2> QED  BY <2>1 DEF OwedInv, OwedShape, Owed, Installing, Removing, Committing, Known, FilesTell,
                       NoFaultYet, OneFault, Spared, FirstReadable, files
<1>2. CASE UNCHANGED trustVars
  BY <1>2 DEF trustVars, OwedInv, OwedShape, Owed, Installing, Removing, Committing, Known, FilesTell,
              NoFaultYet, OneFault, Spared, FirstReadable, files
<1>3. CASE Commands
  BY <1>3, InstallOwedInv, CommandOwedInv, SettingsOwedInv DEF Commands
<1>4. CASE TrustSteps
  BY <1>4, WriteTrustTempOwedInv, CopyBackupOwedInv, DiscardMainOwedInv, PublishTrustOwedInv,
     CommittedOwedInv, PutAsideOwedInv, SweepOwedInv DEF TrustSteps
<1> QED  BY <1>1, <1>2, <1>3, <1>4, FailuresOwedInv, KillOwedInv, StartOwedInv, StartPluginsOwedInv
         DEF TrustNext

(* With at most two failing calls and kills the record of a quarantine is not *)
(* lost either, and no package is left without its record.                    *)
THEOREM TrustIsKept == ASSUME MaxTrustFaults <= 2 PROVE TrustSpec => []TrustKept
<1>1. TrustInv /\ OwedInv => QuarantineKnown /\ PackageHasRecord
  <2> SUFFICES ASSUME OwedInv, Ready PROVE QuarantineKnown /\ PackageHasRecord
    BY DEF QuarantineKnown, PackageHasRecord
  <2>1. Owed => Known
    BY ReadyStep, NothingAside
  <2> QED  BY <2>1 DEF Owed, QuarantineKnown, PackageHasRecord
<1>2. TrustInv /\ [TrustNext]_trustVars => TrustInv'
  BY NextTrustInv
<1>3. TrustInv /\ OwedInv /\ [TrustNext]_trustVars => OwedInv'
  BY NextOwedInv
<1>4. (LoadedIsTrusted /\ QuarantineLasts) /\ (QuarantineKnown /\ PackageHasRecord) => TrustKept
  BY DEF TrustKept
<1> QED  BY InitTrustInv, InitOwedInv, TrustIsNotRaised, <1>1, <1>2, <1>3, <1>4, PTL DEF TrustSpec

-----------------------------------------------------------------------------
JournalSteps == {"write", "drop", "rotate", "discard", "publish"}
Nexts == {"idle", "settings", "loaded"}
Journals == [entries : SUBSET Nat, next : Nat \ {0}, gen : Nat, bad : SUBSET Nat, limit : Nat,
             protect : BOOLEAN, atRest : BOOLEAN, skip : BOOLEAN]
JournalSaving == saving.step \in JournalSteps
JournalUp == saving.step \in {"idle", "settings", "tidy"}

JournalTypes ==
  /\ held \in Journals
  /\ onDisk \in [path : JournalImages \union {Missing}, temp : JournalImages \union {Missing, Torn},
                 bak : JournalImages \union {Missing}]
  /\ saving.step \in JournalSteps \union {"idle", "settings", "tidy", "down"}
  /\ JournalSaving => saving \in [step : JournalSteps, new : Journals, back : Journals, next : Nexts]
  /\ saving.step = "tidy" => saving.next \in Nexts
  /\ settings \in [protect : BOOLEAN, limit : Nat]
  /\ promised \in [kept : SUBSET Nat, gone : SUBSET Nat, saved : BOOLEAN, faults : 0..MaxJournalFaults,
                   plain : BOOLEAN]
  /\ ~promised.saved => promised.kept = {} /\ promised.gone = {}

WriteShape ==
  /\ saving.step \in JournalSteps \ {"write"} => onDisk.temp = Image(saving.new)
  /\ saving.step \in {"drop", "rotate", "discard"} => onDisk.path # Missing
  /\ saving.step = "publish" => onDisk.path = Missing

(* No file is in plaintext that the protection of j should cover, but for the *)
(* temporary file of a save that is under way.                                *)
Covers(j) ==
  j.protect /\ j.atRest /\ ~promised.plain /\ ~j.skip => ~Plain(onDisk.path) /\ ~Plain(onDisk.bak)
CoversAll(j) == 
  j.protect /\ j.atRest /\ ~promised.plain /\ ~j.skip => \A f \in Names : ~Plain(onDisk[f])
PlainShape ==
  /\ saving.step \in {"idle", "settings"} => CoversAll(held)
  /\ JournalSaving /\ saving.next # "loaded" => Covers(saving.back)
  /\ saving.step = "tidy" => held.protect /\ (~held.skip => ~Plain(onDisk.path))

PlainInv == JournalTypes /\ WriteShape /\ PlainShape

-----------------------------------------------------------------------------
LEMMA InitPlainInv == JournalInit => PlainInv
  BY JournalAssumption
     DEF JournalInit, PlainInv, JournalTypes, WriteShape, PlainShape, Blank, Idle, Journals,
     JournalSteps, JournalSaving, CoversAll

LEMMA BlankIs == Blank \in Journals /\ Blank.protect = FALSE
  BY JournalAssumption DEF Blank, Journals

(* The best of the files that read.                                           *)
LEMMA BestIs ==
  ASSUME JournalTypes, Valid(onDisk) # {}
  PROVE  /\ Best \in Valid(onDisk) /\ Best \in Names
         /\ \A g \in Valid(onDisk) : onDisk[g].gen <= onDisk[Best].gen
<1> DEFINE V == Valid(onDisk)
           Rank(f) == 8 * onDisk[f].gen + (IF onDisk[f].sealed = settings.protect THEN 4 ELSE 0) + Priority(f)
           r == [f \in V |-> Rank(f)]
<1>1. V \in SUBSET {"path", "temp", "bak"} /\ V # {}
  BY DEF Valid, Names
<1>2. \A f \in V : onDisk[f] \in JournalImages
  BY DEF Valid, Names, Readable, JournalTypes
<1>3. \A f \in V : Rank(f) \in Nat /\ r[f] = Rank(f) /\ Priority(f) \in 1..3
  BY <1>2 DEF JournalImages, Priority
<1>4. \E f \in V : \A g \in V : r[g] <= r[f]
  BY <1>1, <1>3, NewestExists
<1>5. \A f, g \in V : Rank(g) <= Rank(f) => Better(f, g)
  <2> SUFFICES ASSUME NEW f \in V, NEW g \in V, Rank(g) <= Rank(f) PROVE Better(f, g)
    OBVIOUS
  <2>1. onDisk[f].gen \in Nat /\ onDisk[g].gen \in Nat
    BY <1>2 DEF JournalImages
  <2> QED  BY <1>3, <2>1 DEF Better
<1>6. \E f \in V : \A g \in V : Better(f, g)
  BY <1>3, <1>4, <1>5
<1>7. Best \in V /\ \A g \in V : Better(Best, g)
  BY <1>6 DEF Best
<1>8. \A g \in V : onDisk[g].gen <= onDisk[Best].gen
  <2> SUFFICES ASSUME NEW g \in V PROVE onDisk[g].gen <= onDisk[Best].gen
    OBVIOUS
  <2>1. onDisk[Best].gen \in Nat /\ onDisk[g].gen \in Nat
    BY <1>2, <1>7 DEF JournalImages
  <2> QED  BY <1>7, <2>1 DEF Better
<1> QED  BY <1>7, <1>8 DEF Valid

(* The first save of a process numbers from the files.                        *)
LEMMA NumberedIs ==
  ASSUME JournalTypes, NEW j \in Journals
  PROVE  /\ Numbered(j) \in Journals
         /\ Numbered(j) = [j EXCEPT !.gen = Numbered(j).gen]
         /\ j.gen # 0 => Numbered(j) = j
         /\ j.gen = 0 => \A f \in Valid(onDisk) : onDisk[f].gen <= Numbered(j).gen
<1>1. CASE j.gen # 0
  BY <1>1 DEF Numbered, Journals
<1>2. CASE j.gen = 0
  <2> DEFINE S == {0} \union {onDisk[f].gen : f \in Valid(onDisk)}
  <2>1. Numbered(j) = [j EXCEPT !.gen = Max(S)]
    BY <1>2 DEF Numbered
  <2>2. \E m \in S : \A x \in S : m >= x
    <3>1. CASE Valid(onDisk) = {}
      BY <3>1
    <3>2. CASE Valid(onDisk) # {}
      <4>1. onDisk[Best].gen \in S /\ \A g \in Valid(onDisk) : onDisk[g].gen <= onDisk[Best].gen
        BY <3>2, BestIs
      <4>2. onDisk[Best].gen \in Nat
        BY <3>2, BestIs DEF Valid, Names, Readable, JournalTypes, JournalImages
      <4>3. \A x \in S : onDisk[Best].gen >= x
        BY <4>1, <4>2
      <4> QED  BY <4>1, <4>3
    <3> QED  BY <3>1, <3>2
  <2>3. Max(S) \in S /\ \A x \in S : Max(S) >= x
    BY <2>2 DEF Max
  <2>4. \A x \in S : x \in Nat
    BY DEF Valid, Names, Readable, JournalTypes, JournalImages
  <2>5. Max(S) \in Nat /\ \A f \in Valid(onDisk) : onDisk[f].gen <= Max(S)
    BY <2>3, <2>4
  <2> HIDE DEF S
  <2> QED  BY <1>2, <2>1, <2>5 DEF Journals
<1> QED  BY <1>1, <1>2

(* A save that begins promises less, and changes nothing else of the record.  *)
LEMMA PromiseShrinks ==
  ASSUME JournalTypes, NEW S, promised' = [promised EXCEPT !.kept = @ \cap S]
  PROVE  /\ promised'.kept = promised.kept \cap S /\ promised'.gone = promised.gone
         /\ promised'.saved = promised.saved /\ promised'.faults = promised.faults
         /\ promised'.plain = promised.plain
         /\ promised' \in [kept : SUBSET Nat, gone : SUBSET Nat, saved : BOOLEAN,
                           faults : 0..MaxJournalFaults, plain : BOOLEAN]
  BY DEF JournalTypes

LEMMA FaultIs ==
  ASSUME JournalTypes, JournalFault
  PROVE  /\ Faulty.kept = promised.kept /\ Faulty.gone = promised.gone /\ Faulty.saved = promised.saved
         /\ Faulty.faults = promised.faults + 1 /\ Faulty.plain = promised.plain
         /\ Faulty \in [kept : SUBSET Nat, gone : SUBSET Nat, saved : BOOLEAN,
                        faults : 0..MaxJournalFaults, plain : BOOLEAN]
  BY JournalAssumption DEF JournalTypes, JournalFault, Faulty

(* How a save begins: it goes on to write, or throws before it has written.   *)
LEMMA SaveIs ==
  ASSUME JournalTypes, NEW j \in Journals, NEW back \in Journals, NEW next \in Nexts, Save(j, back, next)
  PROVE  /\ promised' = [promised EXCEPT !.kept = @ \cap j.entries]
         /\ \/ /\ saving' = [step |-> "write", new |-> Numbered(j), back |-> Numbered(back), next |-> next]
               /\ saving'.step = "write" /\ saving'.new = Numbered(j) /\ saving'.back = Numbered(back)
               /\ saving'.next = next /\ held' = held
               /\ saving' \in [step : JournalSteps, new : Journals, back : Journals, next : Nexts]
            \/ saving' = Down /\ saving'.step = "down" /\ held' = Blank /\ next = "loaded"
            \/ saving' = Idle /\ saving'.step = "idle" /\ held' = Numbered(back) /\ next # "loaded"
<1>1. Numbered(j) \in Journals /\ Numbered(back) \in Journals
  BY NumberedIs
<1> QED  BY <1>1 DEF Save, JournalThrown, Down, Idle, JournalSteps

LEMMA SaveTypes ==
  ASSUME JournalTypes, NEW j \in Journals, NEW back \in Journals, NEW next \in Nexts, Save(j, back, next),
         UNCHANGED <<onDisk, settings>>
  PROVE  JournalTypes'
<1>1. Numbered(back) \in Journals /\ Blank \in Journals
  BY NumberedIs, BlankIs
<1> QED  BY <1>1, SaveIs, PromiseShrinks DEF JournalTypes, JournalSaving, JournalSteps

LEMMA SavePlain ==
  ASSUME PlainInv, NEW j \in Journals, NEW back \in Journals, NEW next \in Nexts, Save(j, back, next),
         UNCHANGED <<onDisk, settings>>,
         next # "loaded" => /\ saving.step = "idle" /\ back.protect = held.protect
                            /\ back.atRest = held.atRest /\ back.skip = held.skip
  PROVE  PlainInv'
<1>1. Numbered(back).protect = back.protect /\ Numbered(back).atRest = back.atRest
        /\ Numbered(back).skip = back.skip
  <2>1. Numbered(back) = [back EXCEPT !.gen = Numbered(back).gen]
    BY NumberedIs DEF PlainInv
  <2> QED  BY <2>1 DEF Journals
<1>2. JournalTypes'
  BY SaveTypes DEF PlainInv
<1>3. promised'.plain = promised.plain
  BY SaveIs, PromiseShrinks DEF PlainInv
<1>4. next # "loaded" => CoversAll(back) /\ Covers(back)
  BY DEF PlainInv, PlainShape, CoversAll, Covers, Names
<1>5. next # "loaded" /\ held' = Numbered(back) => CoversAll(held)'
  BY <1>1, <1>3, <1>4 DEF CoversAll
<1>6. PlainShape'
  <2>1. CASE /\ saving'.step = "write" /\ saving'.back = Numbered(back) /\ saving'.next = next
    <3>1. next # "loaded" => Covers(saving.back)'
      BY <1>1, <1>3, <1>4, <2>1 DEF Covers
    <3> QED  BY <2>1, <3>1 DEF PlainShape
  <2>2. CASE saving'.step = "down"
    BY <2>2 DEF PlainShape, JournalSaving, JournalSteps
  <2>3. CASE saving'.step = "idle" /\ held' = Numbered(back) /\ next # "loaded"
    BY <1>5, <2>3 DEF PlainShape, JournalSaving, JournalSteps
  <2> QED  BY <2>1, <2>2, <2>3, SaveIs DEF PlainInv
<1>7. WriteShape'
  BY SaveIs DEF PlainInv, WriteShape, JournalSteps
<1> QED  BY <1>2, <1>6, <1>7 DEF PlainInv

(* What the operations make of the journal in memory.                         *)
LEMMA EnforcedIs ==
  ASSUME NEW j \in Journals
  PROVE  /\ Enforced(j) \in Journals /\ Enforced(j).entries \subseteq j.entries
         /\ Enforced(j).next = j.next /\ Enforced(j).gen = j.gen /\ Enforced(j).protect = j.protect
         /\ Enforced(j).atRest = j.atRest /\ Enforced(j).skip = j.skip
<1>1. Enforced(j) = [j EXCEPT !.entries = Newest(j.entries, j.limit)]
        /\ Newest(j.entries, j.limit) \subseteq j.entries
  BY DEF Enforced, Newest
<1> DEFINE E == Newest(j.entries, j.limit)
<1>2. E \subseteq j.entries /\ Enforced(j) = [j EXCEPT !.entries = E]
  BY <1>1
<1> HIDE DEF E
<1> QED  BY <1>2 DEF Journals

Added(j, n, new, bad) ==
  [j EXCEPT !.entries = @ \union new, !.next = @ + n, !.bad = @ \union (IF bad THEN new ELSE {})]

LEMMA AddedIs ==
  ASSUME NEW j \in Journals, NEW n \in Nat, NEW bad \in BOOLEAN, NEW new \in SUBSET Nat
  PROVE  /\ Added(j, n, new, bad) \in Journals /\ Added(j, n, new, bad).entries = j.entries \union new
         /\ Added(j, n, new, bad).next = j.next + n /\ Added(j, n, new, bad).gen = j.gen
         /\ Added(j, n, new, bad).protect = j.protect /\ Added(j, n, new, bad).atRest = j.atRest
         /\ Added(j, n, new, bad).skip = j.skip
<1>1. PICK E, N, B : E = j.entries \union new /\ N = j.next + n
                     /\ B = j.bad \union (IF bad THEN new ELSE {})
  OBVIOUS
<1>2. E \in SUBSET Nat /\ N \in Nat \ {0} /\ B \in SUBSET Nat
  <2>1. j.entries \in SUBSET Nat /\ j.next \in Nat \ {0} /\ j.bad \in SUBSET Nat
    BY DEF Journals
  <2>2. (IF bad THEN new ELSE {}) \in SUBSET Nat
    OBVIOUS
  <2>3. E \in SUBSET Nat
    BY <1>1, <2>1
  <2>5. N \in Nat \ {0}
    BY <1>1, <2>1
  <2>4. B \in SUBSET Nat
    BY <1>1, <2>1, <2>2
  <2> QED  BY <2>3, <2>4, <2>5
<1>3. Added(j, n, new, bad) = [j EXCEPT !.entries = E, !.next = N, !.bad = B]
  BY <1>1 DEF Added
<1> QED  BY <1>1, <1>2, <1>3 DEF Journals

(* An operation on the journal in memory: a save of what it makes of it, that *)
(* stays in memory if it fails, but for imports and the protection.           *)
Operates(j, back, next) ==
  /\ j \in Journals /\ back \in Journals /\ next \in {"idle", "settings"}
  /\ Save(j, back, next) /\ UNCHANGED <<onDisk, settings>>
  /\ saving.step = "idle" /\ j.gen = held.gen /\ back.gen = held.gen /\ j.skip = held.skip
  /\ back.protect = held.protect /\ back.atRest = held.atRest /\ back.skip = held.skip
  /\ next = "idle" => j.protect = held.protect
  /\ held.next <= j.next /\ held.next <= back.next
  /\ \A i \in j.entries \union back.entries : i \in held.entries \/ i >= held.next
  /\ held.entries \cap j.entries \subseteq back.entries

LEMMA AddEntryIs ==
  ASSUME JournalTypes, NEW bad \in BOOLEAN, AddEntry(bad) PROVE \E j \in Journals : Operates(j, j, "idle")
<1> DEFINE k == Added(held, 1, {held.next}, bad)
<1>0. held \in Journals /\ held.next \in Nat /\ {held.next} \in SUBSET Nat
  BY DEF JournalTypes, Journals
<1>1. /\ k \in Journals /\ k.entries = held.entries \union {held.next} /\ k.next = held.next + 1
      /\ k.gen = held.gen /\ k.protect = held.protect /\ k.atRest = held.atRest /\ k.skip = held.skip
  BY <1>0, AddedIs
<1>2. saving.step = "idle" /\ Save(Enforced(k), Enforced(k), "idle") /\ UNCHANGED <<onDisk, settings>>
  BY DEF AddEntry, Change, JournalAt, Added
<1> HIDE DEF k
<1> QED  BY <1>0, <1>1, <1>2, EnforcedIs DEF Operates

LEMMA ImportIs ==
  ASSUME JournalTypes, NEW n \in 1..2, NEW bad \in BOOLEAN, ImportEntries(n, bad)
  PROVE  \E j \in Journals : Operates(j, held, "idle")
<1> DEFINE new == held.next..(held.next + n - 1)
           k == Added(held, n, new, bad)
<1>0. held \in Journals /\ held.next \in Nat /\ n \in Nat /\ new \in SUBSET Nat
  BY DEF JournalTypes, Journals
<1>1. /\ k \in Journals /\ k.entries = held.entries \union new /\ k.next = held.next + n
      /\ k.gen = held.gen /\ k.protect = held.protect /\ k.atRest = held.atRest /\ k.skip = held.skip
  BY <1>0, AddedIs
<1>2. saving.step = "idle" /\ Save(Enforced(k), held, "idle") /\ UNCHANGED <<onDisk, settings>>
  BY DEF ImportEntries, JournalAt, Added
<1>3. \A i \in new : i >= held.next /\ i \in Nat
  BY <1>0
<1> HIDE DEF k, new
<1>4. held.entries \cap Enforced(k).entries \subseteq held.entries
  OBVIOUS
<1>5. k.next >= held.next
  BY <1>0, <1>1
<1>6. \A i \in Enforced(k).entries \union held.entries : i \in held.entries \/ i >= held.next
  BY <1>1, <1>3, EnforcedIs
<1> QED  BY <1>0, <1>1, <1>2, <1>4, <1>5, <1>6, EnforcedIs DEF Operates

LEMMA EraseIs ==
  ASSUME JournalTypes, NEW S, EraseAll(S) PROVE \E j \in Journals : Operates(j, j, "idle")
<1> DEFINE k == [held EXCEPT !.entries = @ \ S]
<1>0. held \in Journals /\ held.next \in Nat
  BY DEF JournalTypes, Journals
<1>1. /\ k \in Journals /\ k.entries = held.entries \ S /\ k.next = held.next
      /\ k.gen = held.gen /\ k.protect = held.protect /\ k.atRest = held.atRest /\ k.skip = held.skip
  BY <1>0 DEF Journals
<1>2. saving.step = "idle" /\ Save(k, k, "idle") /\ UNCHANGED <<onDisk, settings>>
  BY DEF EraseAll, Change, JournalAt
<1> HIDE DEF k
<1> QED  BY <1>0, <1>1, <1>2 DEF Operates

(* A new limit that evicts nothing is not saved.                              *)
Relimits ==
  /\ held' \in Journals /\ saving' = [step |-> "settings"] /\ saving.step = "idle"
  /\ UNCHANGED <<promised, onDisk, settings>>
  /\ held'.entries = held.entries /\ held'.next = held.next /\ held'.gen = held.gen
  /\ held'.protect = held.protect /\ held'.atRest = held.atRest /\ held'.skip = held.skip

LEMMA SetMaxEntriesIs ==
  ASSUME JournalTypes, NEW n \in Limits, SetMaxEntries(n)
  PROVE  Relimits \/ \E j \in Journals : Operates(j, j, "settings")
<1> DEFINE k == [held EXCEPT !.limit = n]
<1>0. held \in Journals /\ held.next \in Nat /\ n \in Nat
  BY JournalAssumption DEF JournalTypes, Journals
<1>1. /\ k \in Journals /\ k.entries = held.entries /\ k.next = held.next
      /\ k.gen = held.gen /\ k.protect = held.protect /\ k.atRest = held.atRest /\ k.skip = held.skip
  BY <1>0 DEF Journals
<1>2. /\ saving.step = "idle" /\ UNCHANGED <<onDisk, settings>>
      /\ \/ Save(Enforced(k), Enforced(k), "settings")
         \/ /\ Enforced(k).entries = held.entries /\ held' = Enforced(k)
            /\ saving' = [step |-> "settings"] /\ UNCHANGED promised
  BY DEF SetMaxEntries, JournalAt
<1> HIDE DEF k
<1> QED  BY <1>0, <1>1, <1>2, EnforcedIs DEF Operates, Relimits

LEMMA SetProtectionIs ==
  ASSUME JournalTypes, NEW on \in BOOLEAN, SetProtection(on)
  PROVE  \E j \in Journals : Operates(j, held, "settings")
<1> DEFINE k == [held EXCEPT !.protect = on]
<1>0. held \in Journals /\ held.next \in Nat
  BY DEF JournalTypes, Journals
<1>1. /\ k \in Journals /\ k.entries = held.entries /\ k.next = held.next
      /\ k.gen = held.gen /\ k.atRest = held.atRest /\ k.skip = held.skip
  BY <1>0 DEF Journals
<1>2. saving.step = "idle" /\ Save(k, held, "settings") /\ UNCHANGED <<onDisk, settings>>
  BY DEF SetProtection, JournalAt
<1> HIDE DEF k
<1> QED  BY <1>0, <1>1, <1>2 DEF Operates

(* Every operation on the journal in memory is of one of these kinds.         *)
Operations ==
  \/ \E b \in BOOLEAN : AddEntry(b) \/ SetProtection(b) \/ \E n \in 1..2 : ImportEntries(n, b)
  \/ \E i \in Ids : Erase(i) \/ PruneBefore(i, Notes) \/ PruneBefore(i, Ids \ Notes)
  \/ ClearNotes \/ \E n \in Limits : SetMaxEntries(n)

LEMMA OperationsAre ==
  ASSUME JournalTypes, Operations
  PROVE  Relimits \/ \E j, back \in Journals, next \in {"idle", "settings"} : Operates(j, back, next)
<1>0. held \in Journals
  BY DEF JournalTypes
<1>1. ASSUME NEW S, EraseAll(S) PROVE \E j, back \in Journals : Operates(j, back, "idle")
  BY <1>1, EraseIs
<1> QED  BY <1>0, <1>1, AddEntryIs, ImportIs, SetMaxEntriesIs, SetProtectionIs
         DEF Operations, Erase, PruneBefore, ClearNotes

LEMMA OperatesPlain ==
  ASSUME PlainInv, NEW j, NEW back, NEW next, Operates(j, back, next)
  PROVE  PlainInv'
  BY SavePlain DEF Operates, Nexts

LEMMA RelimitsPlain == ASSUME PlainInv, Relimits PROVE PlainInv'
<1>1. saving'.step = "settings"
  BY DEF Relimits
<1>2. JournalTypes' /\ WriteShape'
  BY <1>1 DEF Relimits, PlainInv, JournalTypes, WriteShape, JournalSaving, JournalSteps
<1>3. PlainShape'
  BY <1>1 DEF Relimits, PlainInv, PlainShape, CoversAll, JournalSaving, JournalSteps
<1> QED  BY <1>2, <1>3 DEF PlainInv

-----------------------------------------------------------------------------
(* The steps of a save.                                                       *)
JournalFiles ==
  [path : JournalImages \union {Missing}, temp : JournalImages \union {Missing, Torn},
   bak : JournalImages \union {Missing}]

LEMMA ImageIs ==
  ASSUME NEW j \in Journals
  PROVE  /\ Image(j) \in JournalImages /\ Image(j).gen = j.gen + 1 /\ Image(j).entries = j.entries
         /\ Image(j).next = j.next /\ Image(j).sealed = j.protect
  BY DEF Image, Journals, JournalImages

(* An image is a file that reads.                                             *)
LEMMA SavedIs ==
  ASSUME NEW j \in Journals
  PROVE  /\ Saved(j) \in Journals /\ Saved(j).entries = j.entries /\ Saved(j).next = j.next
         /\ Saved(j).gen = j.gen + 1 /\ Saved(j).protect = j.protect /\ Saved(j).atRest = j.protect
         /\ Saved(j).skip = FALSE
<1>1. PICK g, p : g = j.gen + 1 /\ p = j.protect
  OBVIOUS
<1>2. Saved(j) = [j EXCEPT !.gen = g, !.skip = FALSE, !.atRest = p]
  BY <1>1 DEF Saved
<1>3. g \in Nat /\ p \in BOOLEAN
  BY <1>1 DEF Journals
<1> QED  BY <1>1, <1>2, <1>3 DEF Journals

LEMMA GoIs ==
  ASSUME JournalTypes, JournalSaving, NEW step \in JournalSteps \union {"tidy"}, Go(step)
  PROVE  /\ saving'.step = step /\ saving'.new = saving.new /\ saving'.back = saving.back
              /\ saving'.next = saving.next
         /\ step \in JournalSteps => saving' \in [step : JournalSteps, new : Journals, back : Journals, next : Nexts]
         /\ saving.new \in Journals /\ saving.back \in Journals /\ saving.next \in Nexts
  BY DEF JournalTypes, JournalSaving, Go

LEMMA AfterIs ==
  ASSUME NEW next \in Nexts, After(next)
  PROVE  saving'.step = IF next = "loaded" THEN "idle" ELSE next
  BY DEF After

(* The files of a step.                                                       *)
LEMMA StepTypes ==
  ASSUME JournalTypes, JournalSaving, NEW step \in JournalSteps, Go(step), onDisk' \in JournalFiles,
         UNCHANGED <<held, settings, promised>>
  PROVE  JournalTypes'
  BY GoIs DEF JournalTypes, JournalSaving, JournalFiles, JournalSteps

LEMMA StepPlain ==
  ASSUME PlainInv, JournalSaving, NEW step \in JournalSteps, Go(step), onDisk' \in JournalFiles,
         UNCHANGED <<held, settings, promised>>,
         onDisk'.path \in {onDisk.path, Missing}, onDisk'.bak \in {onDisk.path, onDisk.bak, Missing},
         WriteShape'
  PROVE  PlainInv'
<1>1. JournalTypes'
  BY StepTypes DEF PlainInv
<1>2. /\ saving'.step = step /\ saving'.back = saving.back /\ saving'.next = saving.next
           /\ JournalSaving'
  BY GoIs DEF PlainInv, JournalSaving
<1>3. saving.next # "loaded" => Covers(saving.back)'
  BY <1>2 DEF PlainInv, PlainShape, Covers, Plain, Readable
<1>4. PlainShape'
  BY <1>2, <1>3 DEF PlainShape, JournalSaving, JournalSteps
<1> QED  BY <1>1, <1>4 DEF PlainInv

WriteSteps == WriteJournalTemp \/ DropBackup \/ Rotate \/ DiscardPrimary

(* What the steps of a save do to the files.                                  *)
LEMMA WriteStepsAre ==
  ASSUME JournalTypes, WriteShape, WriteSteps
  PROVE  /\ JournalSaving /\ UNCHANGED <<held, settings, promised>> /\ onDisk' \in JournalFiles
         /\ WriteShape'
         /\ \E step \in JournalSteps \ {"write"} :
              /\ Go(step)
              /\ \/ /\ saving.step = "write" /\ onDisk'.path = onDisk.path /\ onDisk'.bak = onDisk.bak
                    /\ onDisk'.temp = Image(saving.new)
                    /\ step = IF onDisk.path = Missing THEN "publish"
                              ELSE IF saving.new.skip THEN "discard" ELSE "drop"
                 \/ /\ saving.step = "drop" /\ step = "rotate" /\ onDisk'.path = onDisk.path
                    /\ onDisk'.bak = Missing /\ onDisk'.temp = onDisk.temp
                 \/ /\ saving.step = "rotate" /\ step = "publish" /\ onDisk'.path = Missing
                    /\ onDisk'.bak = onDisk.path /\ onDisk'.temp = onDisk.temp
                 \/ /\ saving.step = "discard" /\ step = "publish" /\ onDisk'.path = Missing
                    /\ onDisk'.bak = onDisk.bak /\ onDisk'.temp = onDisk.temp
<1>1. saving.step \in JournalSteps /\ UNCHANGED <<held, settings, promised>>
  BY DEF WriteSteps, WriteJournalTemp, DropBackup, Rotate, DiscardPrimary, JournalAt, JournalSteps
<1>2. saving.new \in Journals /\ Image(saving.new) \in JournalImages
  BY <1>1, ImageIs DEF JournalTypes, JournalSaving
<1>3. onDisk \in JournalFiles
  BY DEF JournalTypes, JournalFiles
<1>4. CASE WriteJournalTemp
  <2> DEFINE m == Image(saving.new)
  <2>1. onDisk' = [onDisk EXCEPT !.temp = m]
    BY <1>4 DEF WriteJournalTemp
  <2>2. m \in JournalImages
    BY <1>2
  <2>3. PICK step \in JournalSteps \ {"write"} : Go(step)
          /\ step = IF onDisk.path = Missing THEN "publish"
                              ELSE IF saving.new.skip THEN "discard" ELSE "drop"
    BY <1>4 DEF WriteJournalTemp, Present, JournalSteps
  <2>4. onDisk' \in JournalFiles /\ onDisk'.path = onDisk.path /\ onDisk'.bak = onDisk.bak
          /\ onDisk'.temp = m
    <3> HIDE DEF m
    <3> QED  BY <1>3, <2>1, <2>2 DEF JournalFiles
  <2>5. saving'.step = step /\ saving'.new = saving.new
    BY <1>1, <2>3, GoIs DEF JournalSaving
  <2>6. WriteShape'
    BY <2>3, <2>4, <2>5 DEF WriteShape, Image
  <2> QED  BY <1>1, <1>4, <2>3, <2>4, <2>6 DEF WriteJournalTemp, JournalAt, JournalSaving
<1>5. CASE DropBackup
  <2>1. onDisk' = [onDisk EXCEPT !.bak = Missing] /\ Go("rotate") /\ saving.step = "drop"
    BY <1>5 DEF DropBackup, JournalAt
  <2>2. onDisk' \in JournalFiles /\ onDisk'.path = onDisk.path /\ onDisk'.bak = Missing
          /\ onDisk'.temp = onDisk.temp
    BY <1>3, <2>1 DEF JournalFiles
  <2>3. saving'.step = "rotate" /\ saving'.new = saving.new
    BY <1>1, <2>1, GoIs DEF JournalSaving, JournalSteps
  <2>4. WriteShape'
    BY <2>1, <2>2, <2>3 DEF WriteShape, JournalSteps, Image
  <2> QED  BY <1>1, <2>1, <2>2, <2>4 DEF JournalSaving, JournalSteps
<1>6. CASE Rotate
  <2>1. onDisk' = [onDisk EXCEPT !.bak = onDisk.path, !.path = Missing] /\ Go("publish")
          /\ saving.step = "rotate"
    BY <1>6 DEF Rotate, JournalAt
  <2>2. onDisk' \in JournalFiles /\ onDisk'.path = Missing /\ onDisk'.bak = onDisk.path
          /\ onDisk'.temp = onDisk.temp
    BY <1>3, <2>1 DEF JournalFiles
  <2>3. saving'.step = "publish" /\ saving'.new = saving.new
    BY <1>1, <2>1, GoIs DEF JournalSaving, JournalSteps
  <2>4. WriteShape'
    BY <2>1, <2>2, <2>3 DEF WriteShape, JournalSteps, Image
  <2> QED  BY <1>1, <2>1, <2>2, <2>4 DEF JournalSaving, JournalSteps
<1>7. CASE DiscardPrimary
  <2>1. onDisk' = [onDisk EXCEPT !.path = Missing] /\ Go("publish") /\ saving.step = "discard"
    BY <1>7 DEF DiscardPrimary, JournalAt
  <2>2. onDisk' \in JournalFiles /\ onDisk'.path = Missing /\ onDisk'.bak = onDisk.bak
          /\ onDisk'.temp = onDisk.temp
    BY <1>3, <2>1 DEF JournalFiles
  <2>3. saving'.step = "publish" /\ saving'.new = saving.new
    BY <1>1, <2>1, GoIs DEF JournalSaving, JournalSteps
  <2>4. WriteShape'
    BY <2>1, <2>2, <2>3 DEF WriteShape, JournalSteps, Image
  <2> QED  BY <1>1, <2>1, <2>2, <2>4 DEF JournalSaving, JournalSteps
<1> QED  BY <1>4, <1>5, <1>6, <1>7 DEF WriteSteps

LEMMA WriteStepsPlain == ASSUME PlainInv, WriteSteps PROVE PlainInv'
  BY WriteStepsAre, StepPlain DEF PlainInv

(* The file is what the save wrote, and memory says so.                       *)
LEMMA PublishIs ==
  ASSUME JournalTypes, WriteShape, PublishJournal
  PROVE  /\ JournalTypes' /\ saving.step = "publish" /\ saving.new \in Journals /\ UNCHANGED settings
         /\ held' = Saved(saving.new)
         /\ onDisk'.path = Image(saving.new) /\ onDisk'.temp = Missing /\ onDisk'.bak = onDisk.bak
         /\ promised'.kept = saving.new.entries /\ promised'.saved
         /\ promised'.gone = promised.gone \union (1..(saving.new.next - 1) \ saving.new.entries)
         /\ promised'.plain = promised.plain
         /\ promised'.faults = IF SettingsAgree(held') THEN 0 ELSE promised.faults
         /\ IF saving.new.protect THEN saving'.step = "tidy" /\ saving'.next = saving.next
            ELSE saving'.step = IF saving.next = "loaded" THEN "idle" ELSE saving.next
<1> DEFINE new == saving.new
           image == Image(new)
<1>1. saving.step = "publish" /\ JournalSaving
  BY DEF PublishJournal, JournalAt, JournalSaving, JournalSteps
<1>2. new \in Journals /\ saving.next \in Nexts
        /\ saving \in [step : JournalSteps, new : Journals, back : Journals, next : Nexts]
  BY <1>1 DEF JournalTypes
<1>3. held' = Saved(new) /\ held' \in Journals /\ held'.entries = new.entries /\ held'.next = new.next
      /\ held'.protect = new.protect
  BY <1>2, SavedIs DEF PublishJournal
<1>4. onDisk.temp = image /\ image \in JournalImages
  BY <1>1, <1>2, ImageIs DEF WriteShape, JournalSteps
<1>5. /\ onDisk'.path = image /\ onDisk'.temp = Missing /\ onDisk'.bak = onDisk.bak
      /\ onDisk' \in JournalFiles
  <2>1. onDisk' = [onDisk EXCEPT !.path = image, !.temp = Missing] /\ onDisk \in JournalFiles
    BY <1>4 DEF PublishJournal, JournalTypes, JournalFiles
  <2> HIDE DEF image
  <2> QED  BY <1>4, <2>1 DEF JournalFiles
<1>6. promised' = Promise(held')
  BY DEF PublishJournal
<1>7. /\ promised'.kept = new.entries /\ promised'.saved = TRUE /\ promised'.plain = promised.plain
      /\ promised'.gone = promised.gone \union (1..(new.next - 1) \ new.entries)
      /\ promised'.faults = IF SettingsAgree(held') THEN 0 ELSE promised.faults
  BY <1>3, <1>6 DEF Promise
<1>8. promised' \in [kept : SUBSET Nat, gone : SUBSET Nat, saved : BOOLEAN, faults : 0..MaxJournalFaults,
                     plain : BOOLEAN]
  <2>1. /\ new.entries \in SUBSET Nat /\ new.next \in Nat /\ promised.gone \in SUBSET Nat
        /\ promised.plain \in BOOLEAN /\ promised.faults \in 0..MaxJournalFaults
             /\ 0 \in 0..MaxJournalFaults
    BY <1>2, JournalAssumption DEF Journals, JournalTypes
  <2>2. promised.gone \union (1..(new.next - 1) \ new.entries) \in SUBSET Nat
    BY <2>1
  <2>3. (IF SettingsAgree(held') THEN 0 ELSE promised.faults) \in 0..MaxJournalFaults
    BY <2>1
  <2> QED  BY <1>3, <1>6, <2>1, <2>2, <2>3 DEF Promise
<1>9. CASE new.protect
  <2>1. Go("tidy")
    BY <1>3, <1>9 DEF PublishJournal
  <2>2. saving'.step = "tidy" /\ saving'.next = saving.next
    BY <1>1, <2>1, GoIs
  <2>3. JournalTypes'
    BY <1>2, <1>3, <1>5, <1>7, <1>8, <2>2
       DEF JournalTypes, JournalFiles, JournalSaving, JournalSteps, PublishJournal
  <2> QED  BY <1>1, <1>2, <1>3, <1>5, <1>7, <1>9, <2>2, <2>3 DEF PublishJournal
<1>10. CASE ~new.protect
  <2>1. After(saving.next)
    BY <1>3, <1>10 DEF PublishJournal
  <2>2. saving'.step = IF saving.next = "loaded" THEN "idle" ELSE saving.next
    BY <2>1 DEF After
  <2>3. saving'.step \in {"idle", "settings"}
    BY <1>2, <2>2 DEF Nexts
  <2>4. JournalTypes'
    BY <1>3, <1>5, <1>7, <1>8, <2>3
       DEF JournalTypes, JournalFiles, JournalSaving, JournalSteps, PublishJournal
  <2> QED  BY <1>1, <1>2, <1>3, <1>5, <1>7, <1>10, <2>2, <2>4 DEF PublishJournal
<1> QED  BY <1>9, <1>10

LEMMA PublishPlain == ASSUME PlainInv, PublishJournal PROVE PlainInv'
<1>1. JournalTypes /\ WriteShape
  BY DEF PlainInv
<1>2. /\ held'.protect = saving.new.protect /\ (saving.new.protect => ~Plain(onDisk'.path))
      /\ saving'.step \in {"idle", "settings", "tidy"} /\ (saving'.step = "tidy" <=> saving.new.protect)
      /\ saving.new.protect \in BOOLEAN
  <2>1. saving.next \in Nexts
    BY <1>1, PublishIs DEF JournalTypes, JournalSaving, JournalSteps
  <2>2. /\ saving.new \in Journals /\ held' = Saved(saving.new) /\ onDisk'.path = Image(saving.new)
        /\ IF saving.new.protect THEN saving'.step = "tidy"
           ELSE saving'.step = IF saving.next = "loaded" THEN "idle" ELSE saving.next
    BY <1>1, PublishIs
  <2>3. onDisk'.path.sealed = saving.new.protect /\ held'.protect = saving.new.protect
    BY <2>2, SavedIs, ImageIs
  <2>4. saving.new.protect \in BOOLEAN
    BY <2>2 DEF Journals
  <2> QED  BY <2>1, <2>2, <2>3, <2>4 DEF Plain, Nexts
<1>3. WriteShape'
  BY <1>2 DEF WriteShape, JournalSteps
<1>4. PlainShape'
  BY <1>2 DEF PlainShape, CoversAll, Plain, JournalSaving, JournalSteps
<1> QED  BY <1>1, <1>3, <1>4, PublishIs DEF PlainInv

(* What is left of a file in plaintext.                                       *)
LEMMA TidyIs ==
  ASSUME JournalTypes
  PROVE  /\ Tidy(onDisk) \in JournalFiles /\ Tidy(onDisk).path = onDisk.path
         /\ Tidy(onDisk).temp = IF Plain(onDisk.temp) THEN Missing ELSE onDisk.temp
         /\ Tidy(onDisk).bak = IF Plain(onDisk.bak) THEN Missing ELSE onDisk.bak
<1>1. PICK t, b : t = (IF Plain(onDisk.temp) THEN Missing ELSE onDisk.temp)
                  /\ b = (IF Plain(onDisk.bak) THEN Missing ELSE onDisk.bak)
  OBVIOUS
<1>2. Tidy(onDisk) = [onDisk EXCEPT !.temp = t, !.bak = b]
  BY <1>1 DEF Tidy
<1>3. t \in JournalImages \union {Missing, Torn} /\ b \in JournalImages \union {Missing}
  BY <1>1 DEF JournalTypes
<1> QED  BY <1>1, <1>2, <1>3 DEF JournalTypes, JournalFiles

LEMMA TidyStepIs ==
  ASSUME JournalTypes, RemovePlaintextAlternates
  PROVE  /\ JournalTypes' /\ saving.step = "tidy" /\ UNCHANGED <<held, settings>>
         /\ saving.next \in Nexts
              /\ saving'.step = IF saving.next = "loaded" THEN "idle" ELSE saving.next
         /\ saving'.step \in {"idle", "settings"}
         /\ promised'.kept = promised.kept /\ promised'.gone = promised.gone
              /\ promised'.saved = promised.saved
         /\ \/ /\ onDisk' = Tidy(onDisk) /\ promised'.faults = promised.faults
                    /\ promised'.plain = FALSE
            \/ /\ onDisk' = onDisk /\ promised'.faults = promised.faults + 1 /\ promised'.plain = TRUE
<1>1. saving.step = "tidy" /\ saving.next \in Nexts /\ After(saving.next)
        /\ UNCHANGED <<held, settings>>
  BY DEF RemovePlaintextAlternates, JournalAt, JournalTypes
<1>2. saving'.step = (IF saving.next = "loaded" THEN "idle" ELSE saving.next)
        /\ saving'.step \in {"idle", "settings"}
  BY <1>1 DEF After, Nexts
<1> DEFINE Promises == [kept : SUBSET Nat, gone : SUBSET Nat, saved : BOOLEAN, faults : 0..MaxJournalFaults,
                        plain : BOOLEAN]
<1>3. /\ promised'.kept = promised.kept /\ promised'.gone = promised.gone
           /\ promised'.saved = promised.saved
      /\ promised' \in Promises
      /\ \/ /\ onDisk' = Tidy(onDisk) /\ promised'.faults = promised.faults /\ promised'.plain = FALSE
         \/ /\ onDisk' = onDisk /\ promised'.faults = promised.faults + 1 /\ promised'.plain = TRUE
  <2>1. CASE onDisk' = Tidy(onDisk) /\ promised' = [promised EXCEPT !.plain = FALSE]
    BY <2>1 DEF JournalTypes
  <2>2. CASE JournalFault /\ promised' = [Faulty EXCEPT !.plain = TRUE] /\ onDisk' = onDisk
    <3>1. PICK p : p = Faulty
      OBVIOUS
    <3>2. promised' = [p EXCEPT !.plain = TRUE]
      BY <2>2, <3>1
    <3> QED  BY <2>2, <3>1, <3>2, FaultIs
  <2> QED  BY <2>1, <2>2 DEF RemovePlaintextAlternates
<1>4. onDisk' \in JournalFiles
  BY <1>3, TidyIs DEF JournalTypes, JournalFiles
<1>5. JournalTypes'
  BY <1>1, <1>2, <1>3, <1>4 DEF JournalTypes, JournalFiles, JournalSaving, JournalSteps
<1> QED  BY <1>1, <1>2, <1>3, <1>5

LEMMA TidyPlain == ASSUME PlainInv, RemovePlaintextAlternates PROVE PlainInv'
<1>1. JournalTypes /\ JournalTypes'
  BY TidyStepIs DEF PlainInv
<1>2. CoversAll(held)'
  <2>1. CASE onDisk' = Tidy(onDisk)
    <3>1. ~Plain(onDisk'.temp) /\ ~Plain(onDisk'.bak) /\ onDisk'.path = onDisk.path
      BY <1>1, <2>1, TidyIs DEF Plain, Readable
    <3> QED  BY <1>1, <3>1, TidyStepIs DEF PlainInv, PlainShape, CoversAll, Names
  <2>2. CASE promised'.plain
    BY <2>2 DEF CoversAll
  <2> QED  BY <1>1, <2>1, <2>2, TidyStepIs
<1>3. PlainShape' /\ WriteShape'
  BY <1>1, <1>2, TidyStepIs DEF PlainShape, WriteShape, JournalSaving, JournalSteps
<1> QED  BY <1>1, <1>3 DEF PlainInv

LEMMA SaveSettingsIs ==
  ASSUME JournalTypes, SaveSettings
  PROVE  /\ JournalTypes' /\ saving.step = "settings" /\ saving'.step = "idle"
              /\ UNCHANGED <<held, onDisk>>
         /\ promised'.kept = promised.kept /\ promised'.gone = promised.gone
              /\ promised'.saved = promised.saved
         /\ promised'.plain = promised.plain
         /\ \/ promised'.faults = promised.faults /\ settings'.protect = held.protect
            \/ promised'.faults = promised.faults + 1 /\ settings' = settings
<1>1. held.protect \in BOOLEAN /\ held.limit \in Nat /\ saving' = Idle /\ saving'.step = "idle"
  BY DEF JournalTypes, Journals, SaveSettings, Idle
<1>2. CASE settings' = [protect |-> held.protect, limit |-> held.limit] /\ promised' = promised
  <2>1. settings' \in [protect : BOOLEAN, limit : Nat] /\ settings'.protect = held.protect
    BY <1>1, <1>2
  <2> QED  BY <1>1, <1>2, <2>1 DEF JournalTypes, SaveSettings, JournalAt, JournalSaving, JournalSteps
<1>3. CASE JournalFault /\ promised' = Faulty /\ settings' = settings
  BY <1>1, <1>3, FaultIs DEF JournalTypes, SaveSettings, JournalAt, JournalSaving, JournalSteps
<1> QED  BY <1>2, <1>3 DEF SaveSettings

LEMMA SaveSettingsPlain == ASSUME PlainInv, SaveSettings PROVE PlainInv'
<1>1. JournalTypes /\ JournalTypes'
  BY SaveSettingsIs DEF PlainInv
<1>2. CoversAll(held)'
  BY <1>1, SaveSettingsIs DEF PlainInv, PlainShape, CoversAll
<1>3. PlainShape' /\ WriteShape'
  BY <1>1, <1>2, SaveSettingsIs DEF PlainShape, WriteShape, JournalSaving, JournalSteps
<1> QED  BY <1>1, <1>3 DEF PlainInv

(* What a call that fails, or a kill, leaves in the temporary file.           *)
LEMMA LeftIs ==
  ASSUME JournalTypes, NEW f \in LeftInTemp
  PROVE  /\ f \in JournalImages \union {Missing, Torn}
         /\ f = onDisk.temp \/ (saving.step = "write" /\ (f = Torn \/ f = Image(saving.new)))
         /\ [onDisk EXCEPT !.temp = f] \in JournalFiles
<1>1. f = onDisk.temp \/ (saving.step = "write" /\ (f = Torn \/ f = Image(saving.new)))
  BY DEF LeftInTemp, JournalAt
<1>2. f \in JournalImages \union {Missing, Torn}
  BY <1>1, ImageIs DEF JournalTypes, JournalSaving, JournalSteps
<1> QED  BY <1>1, <1>2 DEF JournalTypes, JournalFiles

LEMMA SaveFailsIs ==
  ASSUME JournalTypes, JournalSaveFails
  PROVE  /\ JournalTypes' /\ saving.step \in {"write", "rotate", "discard", "publish"}
              /\ settings' = settings
         /\ saving.back \in Journals /\ saving.next \in Nexts
         /\ onDisk'.temp \in LeftInTemp /\ onDisk'.path = onDisk.path /\ onDisk'.bak = onDisk.bak
         /\ promised'.kept = promised.kept /\ promised'.gone = promised.gone
              /\ promised'.saved = promised.saved
         /\ promised'.faults = promised.faults + 1
         /\ promised'.plain \/ (promised'.plain = promised.plain
              /\ (saving.back.protect => ~Plain(onDisk'.temp)))
         /\ IF saving.next = "loaded" THEN saving'.step = "down" /\ held' = Blank
            ELSE saving'.step = "idle" /\ held' = saving.back
<1>1. /\ saving.step \in {"write", "rotate", "discard", "publish"} /\ settings' = settings
           /\ JournalFault
      /\ saving.back \in Journals /\ saving.next \in Nexts /\ saving.back.protect \in BOOLEAN
  BY DEF JournalSaveFails, JournalTypes, JournalSaving, JournalSteps, Journals
<1>2. PICK f \in LeftInTemp :
        /\ onDisk' = [onDisk EXCEPT !.temp = f]
        /\ promised' = [Faulty EXCEPT !.plain = @ \/ (saving.back.protect /\ Plain(f))]
  BY DEF JournalSaveFails
<1>3. /\ onDisk' \in JournalFiles /\ onDisk'.temp = f /\ onDisk'.path = onDisk.path
           /\ onDisk'.bak = onDisk.bak
  <2>1. onDisk \in JournalFiles /\ f \in JournalImages \union {Missing, Torn}
    BY LeftIs DEF JournalTypes, JournalFiles
  <2> QED  BY <1>2, <2>1 DEF JournalFiles
<1>4. /\ promised' \in [kept : SUBSET Nat, gone : SUBSET Nat, saved : BOOLEAN, faults : 0..MaxJournalFaults,
                        plain : BOOLEAN]
      /\ promised'.kept = promised.kept /\ promised'.gone = promised.gone
           /\ promised'.saved = promised.saved
      /\ promised'.faults = promised.faults + 1
      /\ promised'.plain = (promised.plain \/ (saving.back.protect /\ Plain(f)))
  <2>1. PICK p, b : p = Faulty /\ b = (p.plain \/ (saving.back.protect /\ Plain(f)))
    OBVIOUS
  <2>2. promised' = [p EXCEPT !.plain = b]
    BY <1>2, <2>1
  <2>3. b \in BOOLEAN
    BY <2>1
  <2>4. p.plain = promised.plain
    BY <1>1, <2>1, FaultIs
  <2>5. b = (promised.plain \/ (saving.back.protect /\ Plain(f)))
    BY <2>1, <2>4
  <2>6. p \in [kept : SUBSET Nat, gone : SUBSET Nat, saved : BOOLEAN, faults : 0..MaxJournalFaults, plain : BOOLEAN]
        /\ p.kept = promised.kept /\ p.gone = promised.gone /\ p.saved = promised.saved
        /\ p.faults = promised.faults + 1
    BY <1>1, <2>1, FaultIs
  <2>7. promised'.plain = b
    BY <2>2, <2>6
  <2>8. promised' \in [kept : SUBSET Nat, gone : SUBSET Nat, saved : BOOLEAN, faults : 0..MaxJournalFaults,
                        plain : BOOLEAN]
      /\ promised'.kept = promised.kept /\ promised'.gone = promised.gone
           /\ promised'.saved = promised.saved
      /\ promised'.faults = promised.faults + 1
    BY <2>2, <2>3, <2>6
  <2> QED  BY <2>5, <2>7, <2>8
<1>5. IF saving.next = "loaded" THEN saving'.step = "down" /\ held' = Blank
      ELSE saving'.step = "idle" /\ held' = saving.back
  BY DEF JournalSaveFails, JournalThrown, Down, Idle
<1>6. JournalTypes'
  <2>1. saving'.step \in {"down", "idle"} /\ held' \in Journals
    BY <1>1, <1>5, BlankIs
  <2> QED  BY <1>1, <1>3, <1>4, <2>1 DEF JournalTypes, JournalFiles, JournalSaving, JournalSteps
<1>7. promised'.plain \/ (promised'.plain = promised.plain
        /\ (saving.back.protect => ~Plain(onDisk'.temp)))
  BY <1>1, <1>3, <1>4 DEF JournalTypes
<1> QED  BY <1>1, <1>2, <1>3, <1>4, <1>5, <1>6, <1>7

LEMMA SaveFailsPlain == ASSUME PlainInv, JournalSaveFails PROVE PlainInv'
<1>1. JournalTypes /\ JournalTypes'
  BY SaveFailsIs DEF PlainInv
<1>2. saving.next # "loaded" => CoversAll(held)'
  <2> SUFFICES ASSUME saving.next # "loaded" PROVE CoversAll(held)'
    OBVIOUS
  <2>1. held' = saving.back /\ Covers(saving.back)
    BY <1>1, SaveFailsIs DEF PlainInv, PlainShape, JournalSaving, JournalSteps
  <2> QED  BY <1>1, <2>1, SaveFailsIs DEF CoversAll, Covers, Names
<1>3. PlainShape' /\ WriteShape'
  BY <1>1, <1>2, SaveFailsIs DEF PlainShape, WriteShape, JournalSaving, JournalSteps
<1> QED  BY <1>1, <1>3 DEF PlainInv

(* The end of the process.                                                    *)
LEMMA EndIs ==
  ASSUME JournalTypes, Kill \/ Quit
  PROVE  /\ JournalTypes' /\ saving.step # "down" /\ saving'.step = "down" /\ held' = Blank
              /\ settings' = settings
         /\ onDisk'.path = onDisk.path /\ onDisk'.bak = onDisk.bak
         /\ promised'.kept = promised.kept /\ promised'.gone = promised.gone
              /\ promised'.saved = promised.saved
         /\ promised'.plain = promised.plain
         /\ \/ promised'.faults = promised.faults + 1 /\ onDisk'.temp \in LeftInTemp
            \/ saving.step = "idle" /\ promised' = promised /\ onDisk' = onDisk
<1>1. CASE Kill
  <2>1. PICK f \in LeftInTemp : onDisk' = [onDisk EXCEPT !.temp = f]
    BY <1>1 DEF Kill
  <2>2. /\ onDisk' \in JournalFiles /\ onDisk'.temp = f /\ onDisk'.path = onDisk.path
             /\ onDisk'.bak = onDisk.bak
    <3>1. onDisk \in JournalFiles /\ f \in JournalImages \union {Missing, Torn}
      BY LeftIs DEF JournalTypes, JournalFiles
    <3> QED  BY <2>1, <3>1 DEF JournalFiles
  <2>3. saving'.step = "down" /\ held' = Blank /\ held' \in Journals /\ promised' = Faulty
          /\ JournalFault
        /\ settings' = settings /\ saving.step # "down"
    BY <1>1, BlankIs DEF Kill, Down, JournalAt
  <2>4. JournalTypes'
    BY <2>2, <2>3, FaultIs DEF JournalTypes, JournalFiles, JournalSaving, JournalSteps
  <2> QED  BY <2>2, <2>3, <2>4, FaultIs
<1>2. CASE Quit
  BY <1>2, BlankIs DEF Quit, Down, JournalAt, JournalTypes, JournalSaving, JournalSteps
<1> QED  BY <1>1, <1>2

LEMMA EndPlain == ASSUME PlainInv, Kill \/ Quit PROVE PlainInv'
<1>1. JournalTypes /\ JournalTypes'
  BY EndIs DEF PlainInv
<1>2. PlainShape' /\ WriteShape'
  BY <1>1, EndIs DEF PlainShape, WriteShape, JournalSaving, JournalSteps
<1> QED  BY <1>1, <1>2 DEF PlainInv

(* What load() makes of the best file.                                        *)
LEMMA RestoredIs ==
  ASSUME JournalTypes, NEW b, b.entries \in SUBSET Nat, b.next \in Nat \ {0}, b.gen \in Nat, b.sealed \in BOOLEAN
  PROVE  /\ Restored(b) \in Journals /\ Restored(b).entries = b.entries /\ Restored(b).next = b.next
         /\ Restored(b).gen = b.gen /\ Restored(b).protect = settings.protect
              /\ Restored(b).atRest = b.sealed
         /\ Restored(b).skip = FALSE
<1> DEFINE S == {settings.limit, MaxRecords}
<1>1. settings.limit \in Nat /\ MaxRecords \in Nat /\ settings.protect \in BOOLEAN
  BY JournalAssumption DEF JournalTypes
<1>2. \E m \in S : \A x \in S : x >= m
  BY <1>1
<1>3. Min(S) \in S
  BY <1>2 DEF Min
<1>4. Min(S) \in Nat
  BY <1>1, <1>3
<1> QED  BY <1>1, <1>4 DEF Restored, Journals

LEMMA LoadIs ==
  ASSUME JournalTypes, Load
  PROVE  /\ saving.step = "down" /\ UNCHANGED <<onDisk, settings>>
         /\ Best \in Names /\ onDisk[Best] \in JournalImages
         /\ \A g \in Valid(onDisk) : onDisk[g].gen <= onDisk[Best].gen
         /\ \E j \in Journals :
              /\ j.entries \subseteq onDisk[Best].entries /\ j.next = onDisk[Best].next
              /\ j.gen = onDisk[Best].gen /\ j.protect = settings.protect
                   /\ j.atRest = onDisk[Best].sealed
              /\ j.skip = (Best # "path")
              /\ \/ j.atRest # j.protect /\ Save(j, j, "loaded")
                 \/ /\ j.atRest = j.protect /\ held' = j
                    /\ promised' = [promised EXCEPT !.kept = @ \cap j.entries]
                    /\ saving'.step = IF j.protect THEN "tidy" ELSE "idle"
                    /\ j.protect => saving'.next = "idle"
<1>1. saving.step = "down" /\ UNCHANGED <<onDisk, settings>> /\ Valid(onDisk) # {}
  BY DEF Load, JournalAt
<1>2. Best \in Names /\ onDisk[Best] \in JournalImages
        /\ \A g \in Valid(onDisk) : onDisk[g].gen <= onDisk[Best].gen
  BY <1>1, BestIs DEF Valid, Names, Readable, JournalTypes
<1> DEFINE b == onDisk[Best]
           r == Restored(b)
           k == [r EXCEPT !.skip = Best # "path"]
           j == Enforced(k)
<1>3. /\ r \in Journals /\ r.entries = b.entries /\ r.next = b.next
      /\ r.gen = b.gen /\ r.protect = settings.protect /\ r.atRest = b.sealed
  BY <1>2, RestoredIs DEF JournalImages
<1>4. /\ k \in Journals /\ k.entries = b.entries /\ k.next = b.next
      /\ k.gen = b.gen /\ k.protect = settings.protect /\ k.atRest = b.sealed
           /\ k.skip = (Best # "path")
  <2> HIDE DEF r
  <2> QED  BY <1>3 DEF Journals
<1>5. \/ j.atRest # j.protect /\ Save(j, j, "loaded")
      \/ /\ j.atRest = j.protect /\ held' = j
         /\ promised' = [promised EXCEPT !.kept = @ \cap j.entries]
         /\ saving' = IF j.protect THEN [step |-> "tidy", next |-> "idle"] ELSE Idle
  BY DEF Load
<1> HIDE DEF k
<1>6. /\ j \in Journals /\ j.entries \subseteq b.entries /\ j.next = b.next
      /\ j.gen = b.gen /\ j.protect = settings.protect /\ j.atRest = b.sealed
           /\ j.skip = (Best # "path")
  BY <1>4, EnforcedIs
<1> HIDE DEF j, b
<1>7. \/ j.atRest # j.protect /\ Save(j, j, "loaded")
      \/ /\ j.atRest = j.protect /\ held' = j
         /\ promised' = [promised EXCEPT !.kept = @ \cap j.entries]
         /\ saving'.step = IF j.protect THEN "tidy" ELSE "idle"
         /\ j.protect => saving'.next = "idle"
  <2>1. CASE j.atRest # j.protect /\ Save(j, j, "loaded")
    BY <2>1
  <2>2. CASE /\ j.atRest = j.protect /\ held' = j
             /\ promised' = [promised EXCEPT !.kept = @ \cap j.entries]
             /\ saving' = IF j.protect THEN [step |-> "tidy", next |-> "idle"] ELSE Idle
    <3>1. /\ saving'.step = IF j.protect THEN "tidy" ELSE "idle"
          /\ j.protect => saving'.next = "idle"
      BY <2>2 DEF Idle
    <3> QED  BY <2>2, <3>1
  <2> QED  BY <1>5, <2>1, <2>2
<1> QED  BY <1>1, <1>2, <1>6, <1>7 DEF b

LEMMA LoadPlain == ASSUME PlainInv, Load PROVE PlainInv'
<1>0. JournalTypes
  BY DEF PlainInv
<1>1. PICK j \in Journals :
              /\ j.protect = settings.protect /\ j.atRest = onDisk[Best].sealed
              /\ j.skip = (Best # "path")
              /\ \/ j.atRest # j.protect /\ Save(j, j, "loaded")
                 \/ /\ j.atRest = j.protect /\ held' = j
                    /\ promised' = [promised EXCEPT !.kept = @ \cap j.entries]
                    /\ saving'.step = IF j.protect THEN "tidy" ELSE "idle"
                    /\ j.protect => saving'.next = "idle"
  BY <1>0, LoadIs
<1>2. saving.step = "down" /\ UNCHANGED <<onDisk, settings>> /\ Best \in Names /\ j.protect \in BOOLEAN
  BY <1>0, <1>1, LoadIs DEF Journals
<1>3. CASE Save(j, j, "loaded")
  BY <1>2, <1>3, SavePlain DEF Nexts
<1>4. CASE /\ j.atRest = j.protect /\ held' = j
           /\ promised' = [promised EXCEPT !.kept = @ \cap j.entries]
           /\ saving'.step = IF j.protect THEN "tidy" ELSE "idle"
           /\ j.protect => saving'.next = "idle"
  <2>1. saving'.step \in {"tidy", "idle"} /\ (saving'.step = "tidy" <=> j.protect)
    BY <1>2, <1>4
  <2>2. JournalTypes'
    BY <1>0, <1>2, <1>4, <2>1, PromiseShrinks DEF JournalTypes, JournalSaving, JournalSteps, Nexts
  <2>3. WriteShape'
    BY <2>1 DEF WriteShape, JournalSteps
  <2>4. j.protect /\ ~j.skip => ~Plain(onDisk'.path)
    BY <1>1, <1>2, <1>4 DEF Plain
  <2>5. PlainShape'
    BY <1>4, <2>1, <2>4 DEF PlainShape, CoversAll, JournalSaving, JournalSteps
  <2> QED  BY <2>2, <2>3, <2>5 DEF PlainInv
<1> QED  BY <1>1, <1>3, <1>4

LEMMA LoadEmptyIs ==
  ASSUME JournalTypes, LoadEmpty
  PROVE  /\ JournalTypes' /\ saving.step = "down" /\ saving'.step = "idle"
              /\ UNCHANGED <<onDisk, settings, promised>>
         /\ \A f \in Names : onDisk[f] = Missing
         /\ held'.entries = {} /\ held'.gen = 0 /\ held'.skip = FALSE
              /\ held'.protect = settings.protect
<1> DEFINE b == [entries |-> {}, next |-> 1, gen |-> 0, sealed |-> settings.protect]
<1>1. b.entries = {} /\ b.next = 1 /\ b.gen = 0 /\ b.sealed = settings.protect
  OBVIOUS
<1>2. held' = Restored(b)
  BY DEF LoadEmpty
<1> HIDE DEF b
<1>3. /\ held' \in Journals /\ held'.entries = {} /\ held'.gen = 0 /\ held'.skip = FALSE
      /\ held'.protect = settings.protect
  <2>1. b.entries \in SUBSET Nat /\ b.next \in Nat \ {0} /\ b.gen \in Nat
    BY <1>1
  <2>2. b.sealed \in BOOLEAN
    BY <1>1 DEF JournalTypes
  <2> QED  BY <1>1, <1>2, <2>1, <2>2, RestoredIs
<1>4. saving.step = "down" /\ saving'.step = "idle" /\ UNCHANGED <<onDisk, settings, promised>>
      /\ \A f \in Names : onDisk[f] = Missing
  BY DEF LoadEmpty, JournalAt, Idle, AnyPresent, Present
<1>5. JournalTypes'
  BY <1>3, <1>4 DEF JournalTypes, JournalSaving, JournalSteps
<1> QED  BY <1>3, <1>4, <1>5

LEMMA LoadEmptyPlain == ASSUME PlainInv, LoadEmpty PROVE PlainInv'
<1>1. JournalTypes /\ JournalTypes'
  BY LoadEmptyIs DEF PlainInv
<1>2. PlainShape' /\ WriteShape'
  BY <1>1, LoadEmptyIs
     DEF PlainShape, WriteShape, CoversAll, Plain, Readable, JournalSaving, JournalSteps
<1> QED  BY <1>1, <1>2 DEF PlainInv

LEMMA NextPlain == ASSUME PlainInv, JournalNext PROVE PlainInv'
<1>1. \/ Operations \/ WriteSteps \/ PublishJournal \/ RemovePlaintextAlternates \/ SaveSettings
      \/ JournalSaveFails \/ Kill \/ Quit \/ LoadEmpty \/ Load
  BY DEF JournalNext, Operations, WriteSteps
<1>2. CASE Operations
  BY <1>2, OperationsAre, OperatesPlain, RelimitsPlain DEF PlainInv
<1> QED  BY <1>1, <1>2, WriteStepsPlain, PublishPlain, TidyPlain, SaveSettingsPlain, SaveFailsPlain,
            EndPlain,
            LoadEmptyPlain, LoadPlain

LEMMA StutterPlain == ASSUME PlainInv, UNCHANGED journalVars PROVE PlainInv'
<1>1. UNCHANGED <<held, onDisk, saving, settings, promised>>
  BY DEF journalVars
<1>2. JournalTypes' /\ WriteShape'
  BY <1>1 DEF PlainInv, JournalTypes, WriteShape, JournalSaving, Image
<1>3. PlainShape'
  BY <1>1 DEF PlainInv, PlainShape, CoversAll, Covers, Plain, Readable, JournalSaving
<1> QED  BY <1>2, <1>3 DEF PlainInv

(* With protection on and in effect no file is left in plaintext, however     *)
(* many calls fail.                                                           *)
THEOREM NothingIsLeftPlain == JournalSpec => []NoPlaintextLeft
<1>1. PlainInv => NoPlaintextLeft
  BY DEF PlainInv, PlainShape, CoversAll, NoPlaintextLeft, JournalAt
<1>2. PlainInv /\ [JournalNext]_journalVars => PlainInv'
  BY NextPlain, StutterPlain
<1> QED  BY <1>1, <1>2, InitPlainInv, PTL DEF JournalSpec

-----------------------------------------------------------------------------
(* A journal, in memory or in a file, that keeps what the saves promise, and  *)
(* gives no number of an entry that is gone to another.                       *)
Tells(p, j) == p.kept \subseteq j.entries /\ p.gone \cap j.entries = {} /\ \A i \in p.gone : i < j.next

MemoryTells ==
  /\ JournalUp => Tells(promised, held)
  /\ JournalSaving => Tells(promised, saving.new)
       /\ (saving.next # "loaded" => Tells(promised, saving.back))

(* The file and the temporary file tell it, and the backup is older.          *)
FilesOrder ==
  /\ onDisk.path # Missing => Tells(promised, onDisk.path)
  /\ Readable(onDisk.temp) => Tells(promised, onDisk.temp)
  /\ onDisk.bak # Missing /\ onDisk.path # Missing => onDisk.bak.gen < onDisk.path.gen
  /\ onDisk.bak # Missing /\ Readable(onDisk.temp) => onDisk.bak.gen < onDisk.temp.gen

(* The file and its backup are not ahead of memory.                           *)
Ahead(d, g) == (d.path # Missing /\ d.path.gen > g) \/ (d.bak # Missing /\ d.bak.gen > g)
NothingAhead ==
  /\ JournalUp /\ held.gen # 0 => ~Ahead(onDisk, held.gen)
  /\ JournalSaving =>
       ~Ahead(onDisk, saving.new.gen) /\ (saving.next # "loaded" => ~Ahead(onDisk, saving.back.gen))

(* Without a fault the settings on file say what memory does, but for the     *)
(* command that changes them.                                                 *)
Unsettled == saving.step = "settings" \/ (saving.step = "tidy" /\ saving.next = "settings")
Agreement ==
  /\ JournalSaving /\ saving.next = "loaded" => saving.new.protect = settings.protect
  /\ promised.faults = 0 =>
       /\ JournalUp /\ ~Unsettled => held.protect = settings.protect
       /\ JournalSaving /\ saving.next # "loaded" => saving.back.protect = settings.protect
       /\ JournalSaving /\ saving.next = "idle" => saving.new.protect = settings.protect

(* Until the first fault after a save the file is there and nothing but it is *)
(* needed; after the first it, or both siblings, and after the second one of  *)
(* the three.                                                                 *)
BackupTells == onDisk.bak # Missing /\ Tells(promised, onDisk.bak)
FaultFree ==
  /\ saving.step # "discard"
  /\ saving.step # "publish" =>
       /\ onDisk.path # Missing
       /\ onDisk.path.sealed = IF Unsettled THEN held.protect ELSE settings.protect
  /\ saving.step = "publish" => BackupTells /\ onDisk.bak.sealed = settings.protect
  /\ saving.step \notin {"drop", "rotate", "publish"} => onDisk.temp = Missing
  /\ JournalUp => ~held.skip
  /\ saving.step = "write" => ~saving.new.skip
BothSiblings ==
  /\ Readable(onDisk.temp) /\ BackupTells /\ onDisk.bak.sealed = settings.protect
  /\ JournalUp => held.protect = settings.protect
OnceFaulty ==
  /\ JournalUp \/ saving.step = "down" => onDisk.path # Missing \/ BothSiblings
  /\ saving.step = "write" => onDisk.path # Missing \/ BackupTells
TwiceFaulty == ~JournalSaving => onDisk.path # Missing \/ Readable(onDisk.temp) \/ BackupTells
FaultsSurvived ==
  promised.saved =>
    /\ promised.faults = 0 => FaultFree
    /\ promised.faults = 1 => OnceFaulty
    /\ promised.faults = 2 => TwiceFaulty

(* The file that was loaded is not one that is tidied away.                   *)
TidyLeaves ==
  saving.step = "tidy" /\ onDisk.path = Missing =>
    IF Readable(onDisk.temp) THEN onDisk.temp.sealed ELSE BackupTells /\ onDisk.bak.sealed

JournalInv ==
  PlainInv /\ MemoryTells /\ FilesOrder /\ NothingAhead /\ Agreement /\ FaultsSurvived /\ TidyLeaves

LEMMA InitJournalInv == JournalInit => JournalInv
<1> SUFFICES ASSUME JournalInit PROVE JournalInv
  OBVIOUS
<1>1. PlainInv
  BY InitPlainInv
<1>2. saving.step = "idle" /\ onDisk.path = Missing /\ onDisk.temp = Missing
        /\ onDisk.bak = Missing /\ ~promised.saved
      /\ promised.kept = {} /\ promised.gone = {} /\ held.protect = FALSE /\ settings.protect = FALSE
  BY DEF JournalInit, Idle, Blank
<1> QED  BY <1>1, <1>2
            DEF JournalInv, MemoryTells, FilesOrder, NothingAhead, Agreement, FaultsSurvived,
                TidyLeaves,
             Tells, Ahead, Readable, JournalSaving, JournalSteps

LEMMA TellsLess ==
  ASSUME NEW p, NEW q, p.kept \subseteq q.kept, p.gone = q.gone
  PROVE  \A j : Tells(q, j) => Tells(p, j)
  BY DEF Tells

(* A step that leaves the files alone, and promises no more.                  *)
LEMMA OrderKept ==
  ASSUME FilesOrder, onDisk' = onDisk, promised'.kept \subseteq promised.kept, promised'.gone = promised.gone
  PROVE  FilesOrder' /\ (BackupTells => BackupTells')
  BY TellsLess DEF FilesOrder, BackupTells

LEMMA NumberedTells ==
  ASSUME JournalTypes, NEW j \in Journals
  PROVE  /\ Numbered(j).entries = j.entries /\ Numbered(j).next = j.next
              /\ Numbered(j).protect = j.protect
         /\ Numbered(j).atRest = j.atRest /\ Numbered(j).skip = j.skip
         /\ (j.gen # 0 => ~Ahead(onDisk, j.gen)) => ~Ahead(onDisk, Numbered(j).gen)
<1>1. Numbered(j) = [j EXCEPT !.gen = Numbered(j).gen] /\ Numbered(j) \in Journals
  BY NumberedIs
<1>2. /\ Numbered(j).entries = j.entries /\ Numbered(j).next = j.next /\ Numbered(j).protect = j.protect
      /\ Numbered(j).atRest = j.atRest /\ Numbered(j).skip = j.skip /\ Numbered(j).gen \in Nat
  BY <1>1 DEF Journals
<1>3. CASE j.gen # 0
  BY <1>2, <1>3, NumberedIs
<1>4. CASE j.gen = 0
  <2>1. \A f \in Valid(onDisk) : onDisk[f].gen <= Numbered(j).gen
    BY <1>4, NumberedIs
  <2>2. onDisk.path # Missing => "path" \in Valid(onDisk) /\ onDisk.path.gen \in Nat
    BY JournalAssumption DEF JournalTypes, Valid, Names, Readable, JournalImages
  <2>3. onDisk.bak # Missing => "bak" \in Valid(onDisk) /\ onDisk.bak.gen \in Nat
    BY JournalAssumption DEF JournalTypes, Valid, Names, Readable, JournalImages
  <2> QED  BY <1>2, <2>1, <2>2, <2>3 DEF Ahead
<1> QED  BY <1>3, <1>4

LEMMA OperatesInv ==
  ASSUME JournalInv, NEW j, NEW back, NEW next, Operates(j, back, next)
  PROVE  JournalInv'
<1>0. JournalTypes /\ PlainInv /\ PlainInv'
  BY OperatesPlain DEF JournalInv, PlainInv
<1>1. /\ saving.step = "idle" /\ onDisk' = onDisk /\ settings' = settings /\ j \in Journals
           /\ back \in Journals
      /\ next \in {"idle", "settings"} /\ next \in Nexts /\ Save(j, back, next)
      /\ j.gen = held.gen /\ back.gen = held.gen /\ j.skip = held.skip
      /\ back.protect = held.protect /\ back.skip = held.skip
      /\ (next = "idle" => j.protect = held.protect)
  BY DEF Operates, Nexts
<1>2. /\ promised'.kept = promised.kept \cap j.entries /\ promised'.gone = promised.gone
      /\ promised'.saved = promised.saved /\ promised'.faults = promised.faults
  BY <1>0, <1>1, SaveIs, PromiseShrinks
<1>3. Tells(promised', j) /\ Tells(promised', back)
  <2>1. Tells(promised, held) /\ held.next \in Nat /\ held.next <= j.next /\ held.next <= back.next
        /\ j.next \in Nat /\ back.next \in Nat /\ promised.gone \subseteq Nat
    BY <1>0, <1>1 DEF Operates, JournalInv, MemoryTells, JournalUp, JournalTypes, Journals
  <2>2. /\ \A i \in j.entries \union back.entries : i \in held.entries \/ i >= held.next
        /\ held.entries \cap j.entries \subseteq back.entries
    BY DEF Operates
  <2>3. \A i \in promised.gone : i < held.next /\ i < j.next /\ i < back.next /\ i \notin held.entries
    BY <2>1 DEF Tells
  <2>4. \A i \in promised.gone : i \notin j.entries /\ i \notin back.entries
    BY <2>1, <2>2, <2>3
  <2>5. promised.kept \cap j.entries \subseteq back.entries
    BY <2>1, <2>2 DEF Tells
  <2> QED  BY <1>2, <2>3, <2>4, <2>5 DEF Tells
<1>4. /\ ~Ahead(onDisk, Numbered(j).gen) /\ ~Ahead(onDisk, Numbered(back).gen)
  BY <1>0, <1>1, NumberedTells DEF JournalInv, NothingAhead, JournalUp
<1>5. /\ Tells(promised', Numbered(j)) /\ Tells(promised', Numbered(back))
      /\ Numbered(j).protect = j.protect /\ Numbered(j).skip = held.skip
      /\ Numbered(back).protect = held.protect /\ Numbered(back).skip = held.skip
  BY <1>0, <1>1, <1>3, NumberedTells DEF Tells
<1>6. FilesOrder' /\ (BackupTells => BackupTells')
  BY <1>1, <1>2, OrderKept DEF JournalInv
<1>7. CASE /\ saving'.step = "write" /\ saving'.new = Numbered(j) /\ saving'.back = Numbered(back)
           /\ saving'.next = next /\ held' = held
  <2>1. MemoryTells'
    BY <1>5, <1>7 DEF MemoryTells, JournalUp, JournalSaving
  <2>2. NothingAhead'
    BY <1>1, <1>4, <1>7 DEF NothingAhead, JournalUp, JournalSaving, Ahead
  <2>3. Agreement'
    BY <1>1, <1>2, <1>5, <1>7
       DEF JournalInv, Agreement, JournalUp, JournalSaving, JournalSteps, Unsettled
  <2>4. FaultsSurvived'
    BY <1>1, <1>2, <1>5, <1>6, <1>7
       DEF JournalInv, FaultsSurvived, FaultFree, OnceFaulty, TwiceFaulty, BothSiblings, JournalUp,
       JournalSaving, JournalSteps,
           Unsettled
  <2>5. TidyLeaves'
    BY <1>7 DEF TidyLeaves
  <2> QED  BY <1>0, <1>6, <2>1, <2>2, <2>3, <2>4, <2>5 DEF JournalInv
<1>8. CASE saving'.step = "idle" /\ held' = Numbered(back)
  <2>1. MemoryTells'
    BY <1>5, <1>8 DEF MemoryTells, JournalUp, JournalSaving, JournalSteps
  <2>2. NothingAhead'
    BY <1>1, <1>4, <1>8 DEF NothingAhead, JournalUp, JournalSaving, JournalSteps, Ahead
  <2>3. Agreement'
    BY <1>1, <1>2, <1>5, <1>8
       DEF JournalInv, Agreement, JournalUp, JournalSaving, JournalSteps, Unsettled
  <2>4. FaultsSurvived'
    BY <1>1, <1>2, <1>5, <1>6, <1>8
       DEF JournalInv, FaultsSurvived, FaultFree, OnceFaulty, TwiceFaulty, BothSiblings, JournalUp,
       JournalSaving, JournalSteps,
           Unsettled
  <2>5. TidyLeaves'
    BY <1>8 DEF TidyLeaves
  <2> QED  BY <1>0, <1>6, <2>1, <2>2, <2>3, <2>4, <2>5 DEF JournalInv
<1> QED  BY <1>0, <1>1, <1>7, <1>8, SaveIs

LEMMA RelimitsInv == ASSUME JournalInv, Relimits PROVE JournalInv'
<1>0. JournalTypes /\ PlainInv /\ PlainInv'
  BY RelimitsPlain DEF JournalInv, PlainInv
<1>1. /\ saving.step = "idle" /\ saving'.step = "settings" /\ onDisk' = onDisk
           /\ settings' = settings /\ promised' = promised
      /\ held'.entries = held.entries /\ held'.next = held.next /\ held'.gen = held.gen
      /\ held'.protect = held.protect /\ held'.skip = held.skip
  BY DEF Relimits
<1>2. FilesOrder' /\ (BackupTells => BackupTells')
  BY <1>1, OrderKept DEF JournalInv
<1>3. MemoryTells' /\ NothingAhead' /\ Agreement' /\ TidyLeaves'
  BY <1>1
     DEF JournalInv, MemoryTells, Tells, NothingAhead, Agreement, TidyLeaves, JournalUp,
         JournalSaving, JournalSteps, Ahead,
     Unsettled
<1>4. FaultsSurvived'
  BY <1>1, <1>2
     DEF JournalInv, FaultsSurvived, FaultFree, OnceFaulty, TwiceFaulty, BothSiblings, JournalUp,
         JournalSaving,
     JournalSteps, Unsettled, Agreement
<1> QED  BY <1>0, <1>2, <1>3, <1>4 DEF JournalInv

(* The files of a store that read, and the image of a save, which does.       *)
LEMMA ImageReads ==
  ASSUME JournalTypes, NEW j \in Journals
  PROVE  /\ Readable(Image(j)) /\ Image(j) # Missing /\ Image(j).gen = j.gen + 1
              /\ Image(j).sealed = j.protect
         /\ \A p : Tells(p, j) => Tells(p, Image(j))
         /\ onDisk.path # Missing => onDisk.path \in JournalImages /\ onDisk.path.gen \in Nat
         /\ onDisk.bak # Missing => onDisk.bak \in JournalImages /\ onDisk.bak.gen \in Nat
<1>1. /\ Image(j) \in JournalImages /\ Image(j).gen = j.gen + 1 /\ Image(j).sealed = j.protect
      /\ Image(j).entries = j.entries /\ Image(j).next = j.next
  BY ImageIs
<1>2. Readable(Image(j)) /\ Image(j) # Missing
  BY <1>1, JournalAssumption DEF Readable
<1>3. \A p : Tells(p, j) => Tells(p, Image(j))
  BY <1>1 DEF Tells
<1>4. /\ onDisk.path # Missing => onDisk.path \in JournalImages /\ onDisk.path.gen \in Nat
      /\ onDisk.bak # Missing => onDisk.bak \in JournalImages /\ onDisk.bak.gen \in Nat
  BY DEF JournalTypes, JournalImages
<1> QED  BY <1>1, <1>2, <1>3, <1>4

LEMMA WriteStepsInv == ASSUME JournalInv, WriteSteps PROVE JournalInv'
<1>0. JournalTypes /\ WriteShape /\ PlainInv /\ PlainInv'
  BY WriteStepsPlain DEF JournalInv, PlainInv
<1>1. JournalSaving /\ held' = held /\ settings' = settings /\ promised' = promised
  BY <1>0, WriteStepsAre
<1>2. saving.new \in Journals /\ saving.back \in Journals /\ saving.next \in Nexts
        /\ saving.new.gen \in Nat
  BY <1>0, <1>1 DEF JournalTypes, JournalSaving, Journals
<1>3. PICK step \in JournalSteps \ {"write"} :
              /\ Go(step)
              /\ \/ /\ saving.step = "write" /\ onDisk'.path = onDisk.path /\ onDisk'.bak = onDisk.bak
                    /\ onDisk'.temp = Image(saving.new)
                    /\ step = IF onDisk.path = Missing THEN "publish"
                              ELSE IF saving.new.skip THEN "discard" ELSE "drop"
                 \/ /\ saving.step = "drop" /\ step = "rotate" /\ onDisk'.path = onDisk.path
                    /\ onDisk'.bak = Missing /\ onDisk'.temp = onDisk.temp
                 \/ /\ saving.step = "rotate" /\ step = "publish" /\ onDisk'.path = Missing
                    /\ onDisk'.bak = onDisk.path /\ onDisk'.temp = onDisk.temp
                 \/ /\ saving.step = "discard" /\ step = "publish" /\ onDisk'.path = Missing
                    /\ onDisk'.bak = onDisk.bak /\ onDisk'.temp = onDisk.temp
  BY <1>0, WriteStepsAre
<1>4. /\ saving'.step = step /\ saving'.new = saving.new /\ saving'.back = saving.back
           /\ saving'.next = saving.next
      /\ JournalSaving' /\ ~JournalUp' /\ ~JournalUp
           /\ saving'.step \notin {"idle", "settings", "tidy", "down"}
  BY <1>0, <1>1, <1>3, GoIs DEF JournalSaving, JournalUp, JournalSteps
<1> DEFINE m == Image(saving.new)
<1>5. /\ Readable(m) /\ m # Missing /\ m.gen = saving.new.gen + 1 /\ Tells(promised, m)
      /\ onDisk.path # Missing => onDisk.path.gen \in Nat
      /\ onDisk.bak # Missing => onDisk.bak.gen \in Nat
  BY <1>0, <1>1, <1>2, ImageReads DEF JournalInv, MemoryTells
<1>6. ~Ahead(onDisk, saving.new.gen)
  BY <1>1 DEF JournalInv, NothingAhead
<1>7. saving.step # "write" => onDisk.temp = m
  BY <1>0, <1>1 DEF WriteShape, JournalSaving
<1>8. saving.step \in {"drop", "rotate", "discard"} => onDisk.path # Missing
  BY <1>0 DEF WriteShape
<1> HIDE DEF m
<1>9. MemoryTells'
  BY <1>1, <1>4 DEF JournalInv, MemoryTells
<1>10. FilesOrder'
  BY <1>1, <1>2, <1>3, <1>5, <1>6, <1>7, <1>8 DEF JournalInv, FilesOrder, Ahead, Readable, m
<1>11. NothingAhead'
  BY <1>1, <1>3, <1>4 DEF JournalInv, NothingAhead, Ahead
<1>12. Agreement'
  BY <1>1, <1>4 DEF JournalInv, Agreement
<1>13. FaultsSurvived'
  <2>1. promised.saved /\ promised.faults = 0 => FaultFree'
    <3> SUFFICES ASSUME promised.saved, promised.faults = 0 PROVE FaultFree'
      OBVIOUS
    <3>1. FaultFree
      BY DEF JournalInv, FaultsSurvived
    <3>2. ~Unsettled /\ ~Unsettled'
      BY <1>4 DEF Unsettled, JournalUp
    <3>3. onDisk.path # Missing => Tells(promised, onDisk.path)
      BY DEF JournalInv, FilesOrder
    <3>4. CASE saving.step = "write"
      BY <1>1, <1>3, <1>4, <3>1, <3>2, <3>4 DEF FaultFree
    <3>5. CASE saving.step = "drop"
      BY <1>1, <1>3, <1>4, <3>1, <3>2, <3>5 DEF FaultFree
    <3>6. CASE saving.step = "rotate"
      BY <1>1, <1>3, <1>4, <3>1, <3>2, <3>3, <3>6 DEF FaultFree, BackupTells
    <3> QED  BY <1>3, <3>1, <3>4, <3>5, <3>6 DEF FaultFree
  <2>2. OnceFaulty' /\ TwiceFaulty'
    BY <1>3, <1>4 DEF OnceFaulty, TwiceFaulty
  <2> QED  BY <1>1, <2>1, <2>2 DEF FaultsSurvived
<1>14. TidyLeaves'
  BY <1>4 DEF TidyLeaves
<1> QED  BY <1>0, <1>9, <1>10, <1>11, <1>12, <1>13, <1>14 DEF JournalInv

(* What is published keeps the new promise, and the settings are the journal's *)
(* unless its faults still count.                                              *)
LEMMA PublishInv == ASSUME JournalInv, PublishJournal PROVE JournalInv'
<1>0. JournalTypes /\ WriteShape /\ PlainInv /\ PlainInv'
  BY PublishPlain DEF JournalInv, PlainInv
<1> DEFINE new == saving.new
           m == Image(new)
<1>1. /\ saving.step = "publish" /\ new \in Journals /\ settings' = settings /\ held' = Saved(new)
      /\ onDisk'.path = m /\ onDisk'.temp = Missing /\ onDisk'.bak = onDisk.bak
      /\ promised'.kept = new.entries /\ promised'.saved
      /\ promised'.gone = promised.gone \union (1..(new.next - 1) \ new.entries)
      /\ promised'.faults = IF SettingsAgree(held') THEN 0 ELSE promised.faults
      /\ IF new.protect THEN saving'.step = "tidy" /\ saving'.next = saving.next
         ELSE saving'.step = IF saving.next = "loaded" THEN "idle" ELSE saving.next
  BY <1>0, PublishIs
<1>2. /\ held'.entries = new.entries /\ held'.next = new.next /\ held'.gen = new.gen + 1
      /\ held'.protect = new.protect /\ held'.skip = FALSE
  BY <1>1, SavedIs
<1>3. /\ Readable(m) /\ m # Missing /\ m.gen = new.gen + 1 /\ m.sealed = new.protect
      /\ (onDisk.bak # Missing => onDisk.bak.gen \in Nat)
      /\ \A p : Tells(p, new) => Tells(p, m)
  BY <1>0, <1>1, ImageReads
<1>4. JournalSaving /\ saving.next \in Nexts /\ new.next \in Nat /\ new.gen \in Nat
        /\ new.protect \in BOOLEAN
      /\ new.entries \in SUBSET Nat /\ settings.protect \in BOOLEAN
  BY <1>0, <1>1 DEF JournalSaving, JournalSteps, JournalTypes, Journals
<1> HIDE DEF new, m
<1>5. JournalUp' /\ ~JournalSaving' /\ (Unsettled' <=> saving.next = "settings")
  BY <1>1, <1>4 DEF JournalUp, JournalSaving, JournalSteps, Unsettled, Nexts
<1>6. Tells(promised', new) /\ Tells(promised', m) /\ Tells(promised', held')
  <2>1. Tells(promised, new)
    BY <1>4 DEF JournalInv, MemoryTells, new
  <2>2. \A i \in promised'.gone : i \notin new.entries /\ i < new.next
    BY <1>1, <1>4, <2>1 DEF Tells
  <2>3. Tells(promised', new)
    BY <1>1, <2>2 DEF Tells
  <2> QED  BY <1>2, <1>3, <2>3 DEF Tells
<1>7. ~Ahead(onDisk, new.gen)
  BY <1>4 DEF JournalInv, NothingAhead, new
<1>8. promised'.faults = 0 => saving.next = "settings" \/ held'.protect = settings.protect
  <2> SUFFICES ASSUME promised'.faults = 0, saving.next # "settings" PROVE held'.protect = settings.protect
    OBVIOUS
  <2>1. CASE SettingsAgree(held')
    BY <2>1 DEF SettingsAgree
  <2>2. CASE ~SettingsAgree(held')
    <3>1. promised.faults = 0
      BY <1>1, <2>2
    <3>2. new.protect = settings.protect
      BY <1>4, <3>1 DEF JournalInv, Agreement, new, Nexts
    <3> QED  BY <1>2, <3>2
  <2> QED  BY <2>1, <2>2
<1>9. MemoryTells'
  BY <1>5, <1>6 DEF MemoryTells
<1>10. FilesOrder'
  BY <1>1, <1>3, <1>4, <1>6, <1>7 DEF FilesOrder, Ahead, Readable
<1>11. NothingAhead'
  BY <1>1, <1>2, <1>3, <1>4, <1>5, <1>7 DEF NothingAhead, Ahead
<1>12. Agreement'
  BY <1>1, <1>5, <1>8 DEF Agreement
<1>13. FaultsSurvived'
  <2>1. promised'.faults = 0 => FaultFree'
    BY <1>1, <1>2, <1>3, <1>5, <1>8 DEF FaultFree, JournalUp, JournalSaving, JournalSteps
  <2>2. OnceFaulty' /\ TwiceFaulty'
    BY <1>1, <1>3, <1>5 DEF OnceFaulty, TwiceFaulty, JournalUp
  <2> QED  BY <2>1, <2>2 DEF FaultsSurvived
<1>14. TidyLeaves'
  BY <1>1, <1>3 DEF TidyLeaves
<1> QED  BY <1>0, <1>9, <1>10, <1>11, <1>12, <1>13, <1>14 DEF JournalInv

(* What is tidied away is not what the next start would need.                 *)
LEMMA TidyInv == ASSUME JournalInv, RemovePlaintextAlternates PROVE JournalInv'
<1>0. JournalTypes /\ PlainInv /\ PlainInv'
  BY TidyPlain DEF JournalInv, PlainInv
<1>1. /\ saving.step = "tidy" /\ held' = held /\ settings' = settings
      /\ saving.next \in Nexts
           /\ saving'.step = (IF saving.next = "loaded" THEN "idle" ELSE saving.next)
      /\ saving'.step \in {"idle", "settings"}
      /\ promised'.kept = promised.kept /\ promised'.gone = promised.gone
           /\ promised'.saved = promised.saved
      /\ \/ onDisk' = Tidy(onDisk) /\ promised'.faults = promised.faults
         \/ onDisk' = onDisk /\ promised'.faults = promised.faults + 1
      /\ promised.faults \in Nat /\ held.protect = TRUE
  <2>1. promised.faults \in Nat
    BY <1>0 DEF JournalTypes
  <2>2. held.protect = TRUE
    BY <1>0, TidyStepIs DEF JournalTypes, PlainInv, PlainShape, Journals
  <2> QED  BY <1>0, <2>1, <2>2, TidyStepIs
<1>2. /\ onDisk'.path = onDisk.path
      /\ onDisk'.temp = onDisk.temp \/ (Plain(onDisk.temp) /\ onDisk'.temp = Missing)
      /\ onDisk'.bak = onDisk.bak \/ (Plain(onDisk.bak) /\ onDisk'.bak = Missing)
  BY <1>0, <1>1, TidyIs
<1>3. JournalUp /\ JournalUp' /\ ~JournalSaving /\ ~JournalSaving'
        /\ (Unsettled' <=> saving.next = "settings")
      /\ (Unsettled <=> saving.next = "settings")
  BY <1>1 DEF JournalUp, JournalSaving, JournalSteps, Unsettled, Nexts
<1>4. \A j : Tells(promised', j) <=> Tells(promised, j)
  BY <1>1 DEF Tells
<1>5. MemoryTells'
  BY <1>1, <1>3, <1>4 DEF JournalInv, MemoryTells
<1>6. FilesOrder'
  BY <1>2, <1>4 DEF JournalInv, FilesOrder, Readable
<1>7. NothingAhead'
  BY <1>1, <1>2, <1>3 DEF JournalInv, NothingAhead, Ahead
<1>8. Agreement'
  BY <1>1, <1>3 DEF JournalInv, Agreement
<1>9. TidyLeaves'
  BY <1>1 DEF TidyLeaves
<1>10. onDisk.path = Missing =>
         /\ Readable(onDisk'.temp) \/ BackupTells'
         /\ Readable(onDisk.temp) => Readable(onDisk'.temp)
         /\ BothSiblings => BothSiblings'
  <2> SUFFICES ASSUME onDisk.path = Missing
               PROVE  /\ Readable(onDisk'.temp) \/ BackupTells'
                      /\ Readable(onDisk.temp) => Readable(onDisk'.temp)
                      /\ BothSiblings => BothSiblings'
    OBVIOUS
  <2>1. IF Readable(onDisk.temp) THEN onDisk.temp.sealed ELSE BackupTells /\ onDisk.bak.sealed
    BY <1>1 DEF JournalInv, TidyLeaves
  <2>2. Readable(onDisk.temp) => Readable(onDisk'.temp)
    BY <1>2, <2>1 DEF Plain
  <2>3. BackupTells /\ onDisk.bak.sealed => BackupTells' /\ onDisk'.bak = onDisk.bak
    BY <1>2, <1>4 DEF BackupTells, Plain
  <2>4. BothSiblings => BothSiblings'
    <3> SUFFICES ASSUME BothSiblings PROVE BothSiblings'
      OBVIOUS
    <3>1. onDisk.bak.sealed = TRUE /\ BackupTells
      BY <1>1, <1>3 DEF BothSiblings
    <3> QED  BY <1>1, <1>3, <2>2, <2>3, <3>1 DEF BothSiblings
  <2> QED  BY <2>1, <2>2, <2>3, <2>4
<1>11. FaultsSurvived'
  <2> SUFFICES ASSUME promised.saved PROVE FaultsSurvived'
    BY <1>1 DEF FaultsSurvived
  <2>1. promised.faults = 0 => FaultFree
    BY DEF JournalInv, FaultsSurvived
  <2>2. promised.faults = 1 => onDisk.path # Missing \/ BothSiblings
    BY <1>3 DEF JournalInv, FaultsSurvived, OnceFaulty
  <2>3. CASE onDisk.path # Missing
    <3>1. promised.faults = 0 /\ promised'.faults = 0 => FaultFree'
      <4> SUFFICES ASSUME promised.faults = 0 PROVE FaultFree'
        OBVIOUS
      <4>1. onDisk.temp = Missing /\ onDisk'.temp = Missing
        BY <1>1, <1>2, <2>1 DEF FaultFree
      <4> QED  BY <1>1, <1>2, <1>3, <2>1, <4>1 DEF FaultFree
    <3>2. OnceFaulty' /\ TwiceFaulty'
      BY <1>1, <1>2, <2>3 DEF OnceFaulty, TwiceFaulty
    <3> QED  BY <1>1, <3>1, <3>2 DEF FaultsSurvived
  <2>4. CASE onDisk.path = Missing
    <3>1. promised.faults # 0
      BY <1>1, <2>1, <2>4 DEF FaultFree
    <3>2. TwiceFaulty'
      BY <1>10, <2>4 DEF TwiceFaulty
    <3>3. promised'.faults = 1 => OnceFaulty'
      BY <1>1, <1>10, <2>2, <2>4, <3>1 DEF OnceFaulty
    <3> QED  BY <1>1, <3>1, <3>2, <3>3 DEF FaultsSurvived
  <2> QED  BY <2>3, <2>4
<1> QED  BY <1>0, <1>5, <1>6, <1>7, <1>8, <1>9, <1>11 DEF JournalInv

LEMMA SaveSettingsInv == ASSUME JournalInv, SaveSettings PROVE JournalInv'
<1>0. JournalTypes /\ PlainInv /\ PlainInv' /\ promised.faults \in Nat
  BY SaveSettingsPlain DEF JournalInv, PlainInv, JournalTypes
<1>1. /\ saving.step = "settings" /\ saving'.step = "idle" /\ held' = held /\ onDisk' = onDisk
      /\ promised'.kept = promised.kept /\ promised'.gone = promised.gone
           /\ promised'.saved = promised.saved
      /\ \/ promised'.faults = promised.faults /\ settings'.protect = held.protect
         \/ promised'.faults = promised.faults + 1 /\ settings' = settings
  BY <1>0, SaveSettingsIs
<1>2. FilesOrder' /\ (BackupTells <=> BackupTells') /\ \A j : Tells(promised', j) <=> Tells(promised, j)
  BY <1>1 DEF JournalInv, FilesOrder, BackupTells, Tells
<1>3. JournalUp /\ JournalUp' /\ ~JournalSaving' /\ ~Unsettled' /\ Unsettled
  BY <1>1 DEF JournalUp, JournalSaving, JournalSteps, Unsettled
<1>4. MemoryTells' /\ NothingAhead' /\ Agreement' /\ TidyLeaves'
  BY <1>0, <1>1, <1>2, <1>3 DEF JournalInv, MemoryTells, NothingAhead, Agreement, TidyLeaves, Ahead
<1>5. FaultsSurvived'
  <2> SUFFICES ASSUME promised.saved PROVE FaultsSurvived'
    BY <1>1 DEF FaultsSurvived
  <2>1. CASE promised.faults = 0
    <3>1. FaultFree
      BY <2>1 DEF JournalInv, FaultsSurvived
    <3>2. settings'.protect = held.protect => FaultFree'
      BY <1>1, <1>3, <3>1 DEF FaultFree
    <3>3. OnceFaulty' /\ TwiceFaulty'
      BY <1>1, <3>1 DEF FaultFree, OnceFaulty, TwiceFaulty
    <3> QED  BY <1>1, <2>1, <3>2, <3>3 DEF FaultsSurvived
  <2>2. CASE promised.faults = 1
    <3>1. onDisk.path # Missing \/ BothSiblings
      BY <1>3, <2>2 DEF JournalInv, FaultsSurvived, OnceFaulty
    <3>2. onDisk.path # Missing \/ Readable(onDisk.temp) \/ BackupTells
      BY <3>1 DEF BothSiblings
    <3>3. settings'.protect = held.protect => onDisk.path # Missing \/ BothSiblings'
      BY <1>1, <1>2, <1>3, <3>1 DEF BothSiblings
    <3>4. settings'.protect = held.protect => OnceFaulty'
      BY <1>1, <3>3 DEF OnceFaulty
    <3>5. TwiceFaulty'
      BY <1>1, <1>2, <3>2 DEF TwiceFaulty
    <3> QED  BY <1>1, <2>2, <3>4, <3>5 DEF FaultsSurvived
  <2>3. CASE promised.faults \notin {0, 1}
    <3>1. promised.faults = 2 => TwiceFaulty'
      BY <1>1, <1>2, <1>3
         DEF JournalInv, FaultsSurvived, TwiceFaulty, JournalUp, JournalSaving, JournalSteps
    <3>2. promised'.faults # 0 /\ promised'.faults # 1 /\ (promised'.faults = 2 => promised.faults = 2)
      BY <1>0, <1>1, <2>3
    <3> QED  BY <3>1, <3>2 DEF FaultsSurvived
  <2> QED  BY <2>1, <2>2, <2>3
<1> QED  BY <1>0, <1>2, <1>4, <1>5 DEF JournalInv

(* A save that is cut short, by a failing call or a kill, while the file is   *)
(* still there, or both siblings, or one of the three.                        *)
CutShort ==
  /\ saving'.step \in {"idle", "down"}
  /\ onDisk'.path = onDisk.path /\ onDisk'.bak = onDisk.bak /\ onDisk'.temp \in LeftInTemp
  /\ settings' = settings
  /\ promised'.kept = promised.kept /\ promised'.gone = promised.gone
       /\ promised'.saved = promised.saved
  /\ promised'.faults = promised.faults + 1
  /\ saving'.step = "idle" => JournalSaving /\ saving.next # "loaded" /\ held' = saving.back
  /\ saving.step # "down"

LEMMA CutShortInv == ASSUME JournalInv, PlainInv', CutShort PROVE JournalInv'
<1>0. JournalTypes /\ WriteShape /\ promised.faults \in Nat
  BY DEF JournalInv, PlainInv, JournalTypes
<1>1. \A j : Tells(promised', j) <=> Tells(promised, j)
  BY DEF CutShort, Tells
<1>2. /\ ~JournalSaving' /\ ~Unsettled' /\ saving'.step \in {"idle", "down"}
           /\ (JournalUp' <=> saving'.step = "idle")
      /\ saving'.step # "tidy"
  BY DEF CutShort, JournalSaving, JournalUp, JournalSteps, Unsettled
<1>3. JournalUp' =>
        /\ held' = saving.back /\ Tells(promised', held') /\ ~Ahead(onDisk', held'.gen)
        /\ promised.faults = 0 => held'.protect = settings.protect
  BY <1>1, <1>2 DEF CutShort, JournalInv, MemoryTells, NothingAhead, Agreement, Ahead
<1>4. MemoryTells' /\ NothingAhead' /\ Agreement' /\ TidyLeaves'
  BY <1>0, <1>2, <1>3 DEF MemoryTells, NothingAhead, Agreement, TidyLeaves, CutShort
<1>5. JournalSaving => saving.new \in Journals /\ saving.new.gen \in Nat
  BY <1>0 DEF JournalTypes, JournalSaving, Journals
<1>6. /\ onDisk'.temp = onDisk.temp \/ onDisk'.temp = Torn
         \/ (saving.step = "write" /\ onDisk'.temp = Image(saving.new))
      /\ saving.step # "write" => onDisk'.temp = onDisk.temp
  BY <1>0, LeftIs DEF CutShort
<1>7. Readable(onDisk'.temp) =>
         /\ Tells(promised, onDisk'.temp)
         /\ onDisk.bak # Missing => onDisk.bak.gen < onDisk'.temp.gen
  <2> SUFFICES ASSUME Readable(onDisk'.temp)
               PROVE  Tells(promised, onDisk'.temp)
                        /\ (onDisk.bak # Missing => onDisk.bak.gen < onDisk'.temp.gen)
    OBVIOUS
  <2>1. CASE onDisk'.temp = onDisk.temp
    BY <2>1 DEF JournalInv, FilesOrder
  <2>2. CASE saving.step = "write" /\ onDisk'.temp = Image(saving.new)
    <3>1. JournalSaving
      BY <2>2 DEF JournalSaving, JournalSteps
    <3>2. Tells(promised, saving.new) /\ ~Ahead(onDisk, saving.new.gen)
      BY <3>1 DEF JournalInv, MemoryTells, NothingAhead
    <3>3. /\ onDisk'.temp.gen = saving.new.gen + 1 /\ (onDisk.bak # Missing => onDisk.bak.gen \in Nat)
          /\ Tells(promised, onDisk'.temp)
      BY <1>0, <1>5, <2>2, <3>1, <3>2, ImageReads
    <3> QED  BY <1>5, <3>1, <3>2, <3>3 DEF Ahead
  <2> QED  BY <1>6, <2>1, <2>2 DEF Readable
<1>8. FilesOrder'
  BY <1>1, <1>7 DEF JournalInv, FilesOrder, CutShort
<1>9. saving.step = "publish" => Readable(onDisk'.temp)
  BY <1>0, <1>5, <1>6, ImageReads DEF WriteShape, JournalSaving, JournalSteps
<1>10. BackupTells <=> BackupTells'
  BY <1>1 DEF BackupTells, CutShort
<1>11. saving.step \in {"drop", "rotate", "discard"} => onDisk.path # Missing
  BY <1>0 DEF WriteShape
<1>12. saving.step \in JournalSteps \union {"idle", "settings", "tidy"}
  BY <1>0 DEF JournalTypes, CutShort
<1>13. FaultsSurvived'
  <2> SUFFICES ASSUME promised.saved PROVE FaultsSurvived'
    BY DEF FaultsSurvived, CutShort
  <2>1. CASE promised.faults = 0
    <3>1. FaultFree
      BY <2>1 DEF JournalInv, FaultsSurvived
    <3>2. onDisk.path # Missing \/ BothSiblings'
      BY <1>2, <1>3, <1>9, <1>10, <2>1, <3>1 DEF FaultFree, BothSiblings, CutShort
    <3>3. OnceFaulty'
      BY <1>2, <3>2 DEF OnceFaulty, CutShort
    <3> QED  BY <2>1, <3>3 DEF FaultsSurvived, CutShort
  <2>2. CASE promised.faults = 1
    <3>1. OnceFaulty
      BY <2>2 DEF JournalInv, FaultsSurvived
    <3>2. JournalUp => onDisk'.temp = onDisk.temp
      BY <1>6 DEF JournalUp
    <3>3. onDisk.path # Missing \/ Readable(onDisk'.temp) \/ BackupTells'
      BY <1>9, <1>10, <1>11, <1>12, <3>1, <3>2 DEF OnceFaulty, BothSiblings, JournalUp, JournalSteps
    <3>4. TwiceFaulty'
      BY <3>3 DEF TwiceFaulty, CutShort
    <3> QED  BY <2>2, <3>4 DEF FaultsSurvived, CutShort
  <2>3. CASE promised.faults \notin {0, 1}
    BY <1>0, <2>3 DEF FaultsSurvived, CutShort
  <2> QED  BY <2>1, <2>2, <2>3
<1> QED  BY <1>4, <1>8, <1>13 DEF JournalInv

LEMMA EndInv == ASSUME JournalInv, JournalSaveFails \/ Kill \/ Quit PROVE JournalInv'
<1>0. JournalTypes /\ PlainInv' /\ PlainInv
  BY SaveFailsPlain, EndPlain DEF JournalInv, PlainInv
<1>1. CASE JournalSaveFails
  <2>1. CutShort
    BY <1>0, <1>1, SaveFailsIs DEF CutShort, JournalSaving, JournalSteps
  <2> QED  BY <1>0, <2>1, CutShortInv
<1>2. CASE (Kill \/ Quit) /\ promised'.faults = promised.faults + 1 /\ onDisk'.temp \in LeftInTemp
  <2>1. CutShort
    BY <1>0, <1>2, EndIs DEF CutShort
  <2> QED  BY <1>0, <2>1, CutShortInv
<1>3. CASE saving.step = "idle" /\ saving'.step = "down" /\ promised' = promised
        /\ onDisk' = onDisk /\ settings' = settings
  <2>1. FilesOrder' /\ (BackupTells <=> BackupTells')
    BY <1>3 DEF JournalInv, FilesOrder, BackupTells
  <2>2. ~JournalUp' /\ ~JournalSaving' /\ ~Unsettled' /\ ~Unsettled /\ JournalUp /\ ~JournalSaving
    BY <1>3 DEF JournalUp, JournalSaving, JournalSteps, Unsettled
  <2>3. MemoryTells' /\ NothingAhead' /\ Agreement' /\ TidyLeaves'
    BY <1>3, <2>2 DEF MemoryTells, NothingAhead, Agreement, TidyLeaves
  <2>4. FaultsSurvived'
    BY <1>3, <2>1, <2>2 DEF JournalInv, FaultsSurvived, FaultFree, OnceFaulty, TwiceFaulty, BothSiblings
  <2> QED  BY <1>0, <2>1, <2>3, <2>4 DEF JournalInv
<1> QED  BY <1>0, <1>1, <1>2, <1>3, EndIs

(* The file that a start takes is one that keeps the promise: this is where   *)
(* three faults are too many.                                                 *)
LEMMA BestTells ==
  ASSUME JournalInv, saving.step = "down", MaxJournalFaults <= 2
  PROVE  /\ promised.saved => Valid(onDisk) # {}
         /\ Valid(onDisk) # {} => Tells(promised, onDisk[Best])
         /\ onDisk.path # Missing => Best # "bak"
         /\ Readable(onDisk.temp) => Best # "bak"
<1>0. JournalTypes /\ promised.faults \in Nat /\ promised.faults <= 2 /\ promised.faults \in {0, 1, 2}
  BY JournalAssumption DEF JournalInv, PlainInv, JournalTypes
<1>1. ~JournalSaving
  BY DEF JournalSaving, JournalSteps
<1>2. promised.saved => onDisk.path # Missing \/ Readable(onDisk.temp) \/ BackupTells
  BY <1>0, <1>1 DEF JournalInv, FaultsSurvived, FaultFree, OnceFaulty, TwiceFaulty, BothSiblings
<1>3. /\ onDisk.path # Missing => "path" \in Valid(onDisk) /\ onDisk.path.gen \in Nat
      /\ onDisk.bak # Missing => "bak" \in Valid(onDisk) /\ onDisk.bak.gen \in Nat
      /\ Readable(onDisk.temp) => "temp" \in Valid(onDisk) /\ onDisk.temp.gen \in Nat
  BY <1>0, JournalAssumption DEF JournalTypes, Valid, Names, Readable, JournalImages
<1>4. promised.saved => Valid(onDisk) # {}
  BY <1>2, <1>3 DEF BackupTells
<1>5. ASSUME Valid(onDisk) # {}
      PROVE  /\ Best \in Valid(onDisk) /\ Best \in Names
             /\ \A g \in Valid(onDisk) : onDisk[g].gen <= onDisk[Best].gen
  BY <1>0, <1>5, BestIs
<1>6. /\ onDisk.path # Missing => Best # "bak"
      /\ Readable(onDisk.temp) => Best # "bak"
  <2>1. onDisk.bak # Missing /\ onDisk.path # Missing => onDisk.bak.gen < onDisk.path.gen
    BY DEF JournalInv, FilesOrder
  <2>2. onDisk.bak # Missing /\ Readable(onDisk.temp) => onDisk.bak.gen < onDisk.temp.gen
    BY DEF JournalInv, FilesOrder
  <2>3. Valid(onDisk) # {} /\ Best = "bak" => onDisk.bak # Missing
    BY <1>5 DEF Valid, Readable
  <2> QED  BY <1>3, <1>5, <2>1, <2>2, <2>3
<1>7. ASSUME Valid(onDisk) # {} PROVE Tells(promised, onDisk[Best])
  <2>1. Best \in {"path", "temp", "bak"} /\ Readable(onDisk[Best])
    BY <1>5, <1>7 DEF Names, Valid
  <2>2. CASE ~promised.saved
    BY <1>0, <2>2 DEF JournalTypes, Tells
  <2>3. CASE Best = "path"
    BY <2>1, <2>3 DEF JournalInv, FilesOrder, Readable
  <2>4. CASE Best = "temp"
    BY <2>1, <2>4 DEF JournalInv, FilesOrder
  <2>5. CASE promised.saved /\ Best = "bak"
    BY <1>2, <1>6, <2>5 DEF BackupTells
  <2> QED  BY <2>1, <2>2, <2>3, <2>4, <2>5
<1> QED  BY <1>4, <1>6, <1>7

LEMMA LoadInv == ASSUME JournalInv, Load, MaxJournalFaults <= 2 PROVE JournalInv'
<1>0. JournalTypes /\ PlainInv /\ PlainInv'
  BY LoadPlain DEF JournalInv, PlainInv
<1>1. /\ saving.step = "down" /\ onDisk' = onDisk /\ settings' = settings /\ Valid(onDisk) # {}
      /\ Best \in Names /\ onDisk[Best] \in JournalImages
      /\ \A g \in Valid(onDisk) : onDisk[g].gen <= onDisk[Best].gen
  BY <1>0, LoadIs DEF Load
<1>2. PICK j \in Journals :
              /\ j.entries \subseteq onDisk[Best].entries /\ j.next = onDisk[Best].next
              /\ j.gen = onDisk[Best].gen /\ j.protect = settings.protect
                   /\ j.atRest = onDisk[Best].sealed
              /\ j.skip = (Best # "path")
              /\ \/ j.atRest # j.protect /\ Save(j, j, "loaded")
                 \/ /\ j.atRest = j.protect /\ held' = j
                    /\ promised' = [promised EXCEPT !.kept = @ \cap j.entries]
                    /\ saving'.step = IF j.protect THEN "tidy" ELSE "idle"
                    /\ j.protect => saving'.next = "idle"
  BY <1>0, LoadIs
<1>3. promised' = [promised EXCEPT !.kept = @ \cap j.entries]
  BY <1>0, <1>2, SaveIs DEF Nexts
<1>4. /\ promised'.kept = promised.kept \cap j.entries /\ promised'.gone = promised.gone
      /\ promised'.saved = promised.saved /\ promised'.faults = promised.faults
  BY <1>0, <1>3, PromiseShrinks
<1>5. Tells(promised', j)
  <2>1. Tells(promised, onDisk[Best])
    BY <1>1, BestTells
  <2> QED  BY <1>2, <1>4, <2>1 DEF Tells
<1>6. ~Ahead(onDisk, j.gen)
  <2>1. /\ onDisk.path # Missing => "path" \in Valid(onDisk)
        /\ onDisk.bak # Missing => "bak" \in Valid(onDisk)
    BY <1>0, JournalAssumption DEF JournalTypes, Valid, Names, Readable
  <2>2. \A g \in Valid(onDisk) : onDisk[g].gen \in Nat /\ onDisk[g].gen <= j.gen /\ j.gen \in Nat
    BY <1>0, <1>1, <1>2 DEF JournalTypes, Valid, Names, Readable, JournalImages
  <2> QED  BY <2>1, <2>2 DEF Ahead
<1>7. FilesOrder' /\ (BackupTells => BackupTells')
  BY <1>1, <1>4, OrderKept DEF JournalInv
<1>8. promised.saved /\ promised.faults = 0 =>
        /\ onDisk.path # Missing /\ onDisk.temp = Missing /\ onDisk.path.sealed = settings.protect
        /\ j.atRest = j.protect /\ ~j.skip
  <2> SUFFICES ASSUME promised.saved, promised.faults = 0
               PROVE  /\ onDisk.path # Missing /\ onDisk.temp = Missing
                           /\ onDisk.path.sealed = settings.protect
                      /\ j.atRest = j.protect /\ ~j.skip
    OBVIOUS
  <2>1. onDisk.path # Missing /\ onDisk.temp = Missing /\ onDisk.path.sealed = settings.protect
    BY <1>1 DEF JournalInv, FaultsSurvived, FaultFree, Unsettled
  <2>2. Best # "temp" /\ Best # "bak"
    BY <1>0, <1>1, <2>1, BestIs, BestTells DEF Valid, Readable
  <2>3. Best = "path"
    BY <1>1, <2>2 DEF Names
  <2> QED  BY <1>2, <2>1, <2>3
<1>9. promised.saved /\ promised.faults = 1 => onDisk.path # Missing \/ BothSiblings
  BY <1>1 DEF JournalInv, FaultsSurvived, OnceFaulty
<1>10. promised.saved
         /\ promised.faults = 2 => onDisk.path # Missing \/ Readable(onDisk.temp) \/ BackupTells
  BY <1>1 DEF JournalInv, FaultsSurvived, TwiceFaulty, JournalSaving, JournalSteps
<1>11. CASE j.atRest # j.protect /\ Save(j, j, "loaded")
  <2>1. /\ Numbered(j).entries = j.entries /\ Numbered(j).next = j.next
             /\ Numbered(j).protect = j.protect
        /\ ~Ahead(onDisk, Numbered(j).gen)
    BY <1>0, <1>6, NumberedTells
  <2>2. \/ /\ saving'.step = "write" /\ saving'.new = Numbered(j) /\ saving'.next = "loaded"
        \/ saving'.step = "down"
    BY <1>0, <1>11, SaveIs DEF Nexts
  <2>3. Tells(promised', Numbered(j))
    BY <1>5, <2>1 DEF Tells
  <2>4. ~JournalUp' /\ ~Unsettled' /\ saving'.step # "tidy"
    BY <2>2 DEF JournalUp, Unsettled
  <2>5. MemoryTells' /\ TidyLeaves' /\ Agreement'
    BY <1>1, <1>2, <2>1, <2>2, <2>3, <2>4
       DEF MemoryTells, TidyLeaves, Agreement, JournalSaving, JournalSteps
  <2>6. NothingAhead'
    BY <1>1, <2>1, <2>2, <2>4 DEF NothingAhead, JournalSaving, JournalSteps, Ahead
  <2>7. FaultsSurvived'
    <3> SUFFICES ASSUME promised.saved PROVE FaultsSurvived'
      BY <1>4 DEF FaultsSurvived
    <3>1. promised'.faults # 0
      BY <1>4, <1>8, <1>11
    <3>2. promised'.faults = 1 => onDisk.path # Missing \/ BothSiblings'
      BY <1>1, <1>4, <1>7, <1>9, <2>4 DEF BothSiblings
    <3>3. promised'.faults = 1 => OnceFaulty'
      BY <1>1, <2>4, <3>2 DEF OnceFaulty, BothSiblings
    <3>4. promised'.faults = 2 => TwiceFaulty'
      BY <1>1, <1>4, <1>7, <1>10 DEF TwiceFaulty
    <3> QED  BY <3>1, <3>3, <3>4 DEF FaultsSurvived
  <2> QED  BY <1>0, <1>7, <2>5, <2>6, <2>7 DEF JournalInv
<1>12. CASE /\ j.atRest = j.protect /\ held' = j
            /\ saving'.step = IF j.protect THEN "tidy" ELSE "idle"
            /\ j.protect => saving'.next = "idle"
  <2>1. /\ saving'.step \in {"tidy", "idle"} /\ (saving'.step = "tidy" <=> j.protect)
        /\ (saving'.step = "tidy" => saving'.next = "idle")
    BY <1>12 DEF Journals
  <2>2. JournalUp' /\ ~JournalSaving' /\ ~Unsettled'
    BY <2>1 DEF JournalUp, JournalSaving, JournalSteps, Unsettled
  <2>3. MemoryTells' /\ NothingAhead' /\ Agreement'
    BY <1>1, <1>2, <1>5, <1>6, <1>12, <2>2 DEF MemoryTells, NothingAhead, Agreement, Ahead
  <2>4. TidyLeaves'
    <3> SUFFICES ASSUME j.protect = TRUE, onDisk.path = Missing
                 PROVE  IF Readable(onDisk.temp) THEN onDisk.temp.sealed ELSE BackupTells'
                          /\ onDisk.bak.sealed
      BY <1>1, <1>2, <2>1 DEF TidyLeaves, Journals
    <3>1. onDisk[Best].sealed = TRUE /\ Readable(onDisk[Best]) /\ Tells(promised, onDisk[Best])
      BY <1>0, <1>1, <1>2, <1>12, BestIs, BestTells DEF Valid
    <3>2. Best \in {"temp", "bak"}
      BY <1>1, <3>1 DEF Names, Readable
    <3>3. Readable(onDisk.temp) => Best = "temp"
      BY <1>1, <3>2, BestTells
    <3>4. ~Readable(onDisk.temp) => Best = "bak"
      BY <3>1, <3>2
    <3>5. CASE Readable(onDisk.temp)
      BY <3>1, <3>3, <3>5
    <3>6. CASE ~Readable(onDisk.temp)
      <4>1. BackupTells
        BY <3>1, <3>4, <3>6 DEF BackupTells, Readable
      <4> QED  BY <1>7, <3>1, <3>4, <3>6, <4>1
    <3> QED  BY <3>5, <3>6
  <2>5. FaultsSurvived'
    <3> SUFFICES ASSUME promised.saved PROVE FaultsSurvived'
      BY <1>4 DEF FaultsSurvived
    <3>1. promised'.faults = 0 => FaultFree'
      BY <1>1, <1>4, <1>8, <1>12, <2>1, <2>2 DEF FaultFree
    <3>2. promised'.faults = 1 => onDisk.path # Missing \/ BothSiblings'
      BY <1>1, <1>2, <1>4, <1>7, <1>9, <1>12 DEF BothSiblings
    <3>3. promised'.faults = 1 => OnceFaulty'
      BY <1>1, <2>1, <3>2 DEF OnceFaulty
    <3>4. promised'.faults = 2 => TwiceFaulty'
      BY <1>1, <1>4, <1>7, <1>10 DEF TwiceFaulty
    <3> QED  BY <3>1, <3>3, <3>4 DEF FaultsSurvived
  <2> QED  BY <1>0, <1>7, <2>3, <2>4, <2>5 DEF JournalInv
<1> QED  BY <1>2, <1>11, <1>12

LEMMA LoadEmptyInv == ASSUME JournalInv, LoadEmpty, MaxJournalFaults <= 2 PROVE JournalInv'
<1>0. JournalTypes /\ PlainInv /\ PlainInv'
  BY LoadEmptyPlain DEF JournalInv, PlainInv
<1>1. /\ saving.step = "down" /\ saving'.step = "idle" /\ onDisk' = onDisk
           /\ settings' = settings /\ promised' = promised
      /\ onDisk.path = Missing /\ onDisk.temp = Missing /\ onDisk.bak = Missing
      /\ held'.entries = {} /\ held'.gen = 0 /\ held'.skip = FALSE /\ held'.protect = settings.protect
  BY <1>0, LoadEmptyIs DEF Names
<1>2. ~promised.saved /\ promised.kept = {} /\ promised.gone = {}
  <2>1. Valid(onDisk) = {}
    BY <1>1 DEF Valid, Names, Readable
  <2> QED  BY <1>0, <1>1, <2>1, BestTells DEF JournalTypes
<1>3. JournalUp' /\ ~JournalSaving' /\ saving'.step # "tidy"
  BY <1>1 DEF JournalUp, JournalSaving, JournalSteps
<1>4. MemoryTells' /\ FilesOrder' /\ NothingAhead' /\ Agreement' /\ FaultsSurvived' /\ TidyLeaves'
  BY <1>1, <1>2, <1>3
     DEF MemoryTells, FilesOrder, NothingAhead, Agreement, FaultsSurvived, TidyLeaves, Tells, Readable
<1> QED  BY <1>0, <1>4 DEF JournalInv

LEMMA NextJournalInv == ASSUME JournalInv, JournalNext, MaxJournalFaults <= 2 PROVE JournalInv'
<1>1. \/ Operations \/ WriteSteps \/ PublishJournal \/ RemovePlaintextAlternates \/ SaveSettings
      \/ JournalSaveFails \/ Kill \/ Quit \/ LoadEmpty \/ Load
  BY DEF JournalNext, Operations, WriteSteps
<1>2. CASE Operations
  BY <1>2, OperationsAre, OperatesInv, RelimitsInv DEF JournalInv, PlainInv
<1> QED  BY <1>1, <1>2, WriteStepsInv, PublishInv, TidyInv, SaveSettingsInv, EndInv, LoadEmptyInv,
            LoadInv

LEMMA StutterJournalInv == ASSUME JournalInv, UNCHANGED journalVars PROVE JournalInv'
<1>1. UNCHANGED <<held, onDisk, saving, settings, promised>>
  BY DEF journalVars
<1>2. PlainInv'
  BY StutterPlain DEF JournalInv
<1>3. FilesOrder' /\ (BackupTells <=> BackupTells')
  BY <1>1 DEF JournalInv, FilesOrder, BackupTells
<1>4. (JournalUp <=> JournalUp') /\ (JournalSaving <=> JournalSaving') /\ (Unsettled <=> Unsettled')
  BY <1>1 DEF JournalUp, JournalSaving, Unsettled
<1>5. MemoryTells' /\ NothingAhead' /\ Agreement' /\ TidyLeaves'
  BY <1>1, <1>3, <1>4 DEF JournalInv, MemoryTells, NothingAhead, Agreement, TidyLeaves
<1>6. FaultsSurvived'
  BY <1>1, <1>3, <1>4 DEF JournalInv, FaultsSurvived, FaultFree, OnceFaulty, TwiceFaulty, BothSiblings
<1> QED  BY <1>2, <1>3, <1>5, <1>6 DEF JournalInv

(* What a save that returned wrote is read by the next start, and what it     *)
(* removed stays removed, with two failing calls or kills since.              *)
THEOREM JournalIsKept == ASSUME MaxJournalFaults <= 2 PROVE JournalSpec => []JournalKept
<1>1. JournalInv => JournalKept
  <2> SUFFICES ASSUME JournalInv PROVE JournalKept
    OBVIOUS
  <2>1. JournalAt("down") /\ promised.saved => Valid(onDisk) # {} /\ Keeps(onDisk[Best].entries)
    BY BestTells DEF JournalAt, Tells, Keeps
  <2>2. JournalAt("idle") => Keeps(held.entries)
    BY DEF JournalInv, MemoryTells, JournalUp, JournalAt, Tells, Keeps
  <2> QED  BY <2>1, <2>2 DEF JournalKept
<1>2. JournalInv /\ [JournalNext]_journalVars => JournalInv'
  BY NextJournalInv, StutterJournalInv
<1> QED  BY <1>1, <1>2, InitJournalInv, PTL DEF JournalSpec
==============================================================================
