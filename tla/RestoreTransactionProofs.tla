----------------------- MODULE RestoreTransactionProofs -----------------------
(***************************************************************************)
(* Proofs about RestoreTransaction, for any number of files, any contents  *)
(* and any number of crashes and failing calls.                            *)
(***************************************************************************)
EXTENDS RestoreTransaction, TLAPS

(* Where commit_items stands, the journal writes between two steps counted *)
(* with the step they lead to.                                             *)
At == IF pc \in JournalSteps THEN resume ELSE pc
InCommit == pc \in CommitSteps \cup JournalSteps
InRollback == pc \in {"undo", "undoTemp", "endRollback"}

Uncommitted == journal # NoJournal /\ ~journal.committed
Committed == journal # NoJournal /\ journal.committed

(* Which journal can exist at which step. *)
Control ==
  /\ InCommit => ~Committed /\ atRisk = {}
  /\ InCommit => (state.committed <=> At = "cleanup")
  /\ InCommit /\ journal = NoJournal =>
       pc \in JournalSteps /\ resume = "inspect" /\ cur = 1
  /\ InCommit /\ At = "cleanup" => cur = 1
  /\ pc = "running" => ~Committed
  /\ pc \in CleanSteps \cup {"finish", "finishJournal"} => Committed
  /\ InRollback => Uncommitted
  /\ pc \in {"finishTmp", "orphan", "dropTmp"} => journal = NoJournal
  /\ atRisk # {} => Uncommitted

(* A recorded state tells the truth about the originals. *)
Truthful(st) ==
  /\ st.hadOriginal \cup st.backupMoved \cup st.published \subseteq st.prepared
  /\ st.backupMoved \subseteq st.hadOriginal
  /\ \A f \in st.prepared : f \in st.hadOriginal <=> orig[f] # Absent

Records ==
  /\ InCommit \/ InRollback => Truthful(state)
  /\ Uncommitted => Truthful(journal)
  /\ journal # NoJournal => Accepts(journal)

(* The files of an item: not yet touched, staged, moved away, published.   *)
Untouched(f) == dest[f] = orig[f] /\ temp[f] = Absent /\ backup[f] = Absent
Published(f) ==
  /\ dest[f] = payload /\ temp[f] = Absent
  /\ orig[f] = Absent => backup[f] = Absent
  /\ orig[f] # Absent => backup[f] = orig[f]
  /\ f \in state.prepared /\ f \in state.published
  /\ f \in journal.prepared

(* The item the loop of commit_items stands at. *)
AtItem(f) ==
  CASE At = "inspect" -> Untouched(f) /\ f \notin state.prepared
    [] At = "clear" -> /\ Untouched(f) /\ f \in state.prepared
                       /\ pc = "clear" => f \in journal.prepared
    [] At = "stage" -> Untouched(f) /\ f \in state.prepared /\ f \in journal.prepared
    [] At = "flush" -> /\ dest[f] = orig[f] /\ backup[f] = Absent
                       /\ f \in state.prepared /\ f \in journal.prepared
    [] At = "moveBackup" -> /\ dest[f] = orig[f] /\ backup[f] = Absent
                            /\ temp[f] = payload /\ f \in state.hadOriginal
                            /\ f \in state.prepared /\ f \in journal.prepared
    [] At = "publish" -> /\ temp[f] = payload /\ dest[f] = Absent
                         /\ backup[f] = orig[f]
                         /\ f \in state.prepared /\ f \in journal.prepared
    [] OTHER -> Published(f)

Shape ==
  InCommit =>
    \A f \in Files :
      /\ f < cur \/ At = "cleanup" => Published(f)
      /\ f > cur /\ At # "cleanup" => Untouched(f) /\ f \notin state.prepared
      /\ f = cur /\ At # "cleanup" => AtItem(f)
      /\ At = "seal" => cur = N

(* What rollback_state, reading st, turns back into the original. *)
Undoable(st, f) ==
  f \notin atRisk =>
    \/ backup[f] = orig[f] /\ orig[f] # Absent
    \/ backup[f] = Absent /\ dest[f] = orig[f]
    \/ /\ backup[f] = Absent /\ orig[f] = Absent
       /\ f \in st.prepared /\ temp[f] = Absent

Backups ==
  /\ Uncommitted => \A f \in Files : /\ Undoable(journal, f)
                                     /\ backup[f] \in {Absent, orig[f]}
  /\ InRollback => \A f \in Files : Undoable(state, f)

(* What the loops have finished with. *)
Cleared(f) == temp[f] = Absent /\ backup[f] = Absent
Restored(f) == backup[f] = Absent /\ (f \notin atRisk => dest[f] = orig[f])

Progress ==
  /\ journal = NoJournal => \A f \in Files : Cleared(f)
  /\ InCommit /\ journal = NoJournal => dest = orig /\ state = FreshState
  /\ Committed => dest = [f \in Files |-> payload]
  /\ pc \in {"cleanup", "finish"} => \A f \in Files : f < cur => Cleared(f)
  /\ pc \in {"dropJournal", "finishJournal"} => \A f \in Files : Cleared(f)
  /\ pc \in {"undo", "undoTemp"} /\ ~failed =>
       \A f \in Files : f > cur => Cleared(f) /\ Restored(f)
  /\ pc = "undoTemp" /\ ~failed => Restored(cur)
  /\ pc = "endRollback" /\ ~failed =>
       \A f \in Files : Cleared(f) /\ Restored(f)

(* No destination, backup or original is ever a half-written file.         *)
Whole == \A f \in Files : Partial \notin {dest[f], backup[f], orig[f]}

IInv ==
  TypeOK /\ Control /\ Records /\ Shape /\ Backups /\ Progress /\ Whole
-----------------------------------------------------------------------------
LEMMA FreshStateType == FreshState \in JournalState
  BY DEF FreshState, JournalState

(* The loops stay inside the list of items. *)
LEMMA LoopBounds ==
  /\ 1 \in Files /\ N \in Files
  /\ \A c \in Files : /\ c \in Nat /\ 1 <= c /\ c <= N
                      /\ c < N => c + 1 \in Files
                      /\ c > 1 => c - 1 \in Files
  BY NAssumption DEF Files

LEMMA TypeInit == Init => TypeOK
<1> SUFFICES ASSUME Init PROVE TypeOK
  OBVIOUS
<1>1. dest \in [Files -> Data]
  BY DEF Init, Data
<1>2. temp \in [Files -> Data] /\ backup \in [Files -> Data]
  BY DEF Init, Data
<1> QED
  BY <1>1, <1>2, LoopBounds, FreshStateType DEF Init, TypeOK

(* Type correctness, for every choice of the constants. *)
THEOREM TypeCorrect == Spec => []TypeOK
<1>1. Init => TypeOK
  BY TypeInit
<1>2. TypeOK /\ [Next]_vars => TypeOK'
  <2> SUFFICES ASSUME TypeOK, [Next]_vars PROVE TypeOK'
    OBVIOUS
  <2> USE LoopBounds, BoundsAssumption
      DEF TypeOK, Steps, Off, CommitSteps, JournalSteps, CleanSteps,
          RollbackSteps, RecoverSteps
  <2>1. ASSUME NEW f \in Files, StoreSave(f) PROVE TypeOK'
    BY <2>1 DEF StoreSave, memory, ghosts, Data
  <2>2. CASE Begin
    BY <2>2, FreshStateType DEF Begin
  <2>3. CASE Exit
    BY <2>3 DEF Exit, disk, memory, ghosts
  <2>4. CASE WriteJournalTmp
    BY <2>4 DEF WriteJournalTmp, memory, ghosts
  <2>5. CASE ReplaceJournal
    BY <2>5 DEF ReplaceJournal, memory, ghosts
  <2>6. CASE Inspect
    BY <2>6 DEF Inspect, Journalling, Existing, disk, ghosts, JournalState
  <2>7. CASE ClearArtifacts
    BY <2>7 DEF ClearArtifacts, Data, memory, ghosts
  <2>8. CASE OpenTemp
    BY <2>8 DEF OpenTemp, Data, memory, ghosts
  <2>9. CASE FlushTemp
    BY <2>9 DEF FlushTemp, Data, AfterStaging, memory, ghosts
  <2>10. CASE MoveBackup
    BY <2>10 DEF MoveBackup, Data, Journalling, ghosts, JournalState
  <2>11. CASE Publish
    <3>1. dest' \in [Files -> Data] /\ temp' \in [Files -> Data]
      BY <2>11 DEF Publish, Data
    <3> QED
      BY <2>11, <3>1 DEF Publish, Journalling, MoreItems, ghosts, JournalState
  <2>12. CASE Seal
    BY <2>12 DEF Seal, Journalling, AfterSeal, disk, ghosts, JournalState
  <2>13. CASE CleanItem
    BY <2>13 DEF CleanItem, Data, MoreItems, ghosts
  <2>14. CASE DropJournal
    BY <2>14 DEF DropJournal, memory, ghosts
  <2>15. CASE Rollback
    <3>1. CASE UndoRemovePublished
      BY <3>1 DEF UndoRemovePublished, Data, memory, ghosts
    <3>2. CASE UndoRestoreBackup
      BY <3>2 DEF UndoRestoreBackup, Data, memory, ghosts
    <3>3. CASE UndoRemoveCreated
      BY <3>3 DEF UndoRemoveCreated, Data, memory, ghosts
    <3>4. CASE UndoCreatedMissing
      BY <3>4 DEF UndoCreatedMissing, NextUndo, disk, ghosts
    <3>5. CASE UndoNothing
      BY <3>5 DEF UndoNothing, disk, memory, ghosts
    <3>6. CASE UndoTemp
      BY <3>6 DEF UndoTemp, Data, NextUndo, ghosts
    <3>7. CASE RollbackIncomplete
      BY <3>7 DEF RollbackIncomplete, Thrown, disk, memory, ghosts
    <3>8. CASE RollbackDone
      BY <3>8 DEF RollbackDone, memory
    <3>9. CASE RollbackDropTmp
      BY <3>9 DEF RollbackDropTmp, memory, ghosts
    <3> QED
      BY <2>15, <3>1, <3>2, <3>3, <3>4, <3>5, <3>6, <3>7, <3>8, <3>9
      DEF Rollback
  <2>16. CASE Boot
    BY <2>16, FreshStateType DEF Boot, BootStep, disk
  <2>17. CASE FinishItem
    BY <2>17 DEF FinishItem, Data, MoreItems, ghosts
  <2>18. CASE FinishJournal \/ FinishTmp
    BY <2>18 DEF FinishJournal, FinishTmp, memory, ghosts
  <2>19. CASE Crash
    <3>1. crashes' \in Nat /\ cur' \in Files /\ state' \in JournalState
      BY <2>19, FreshStateType DEF Crash
    <3> QED
      BY <2>19, <3>1 DEF Crash, disk, ghosts
  <2>20. CASE Fault
    <3>1. CASE CommitFault
      <4>1. temp' \in [Files -> Data]
        BY <3>1 DEF CommitFault, Data
      <4>2. journalTmp' \in BOOLEAN
        BY <3>1 DEF CommitFault
      <4>3. faults' \in Nat
        BY <3>1 DEF CommitFault, Failing
      <4>4. cur' \in Files
        BY <3>1 DEF CommitFault
      <4> QED
        BY <3>1, <4>1, <4>2, <4>3, <4>4 DEF CommitFault, Failing
    <3>2. CASE CleanupFault
      BY <3>2 DEF CleanupFault, Failing, disk, memory
    <3>3. CASE UndoFault
      BY <3>3 DEF UndoFault, Failing, NextUndo, disk
    <3>4. CASE EndRollbackFault
      BY <3>4 DEF EndRollbackFault, Failing, Thrown, disk, memory
    <3>5. CASE RecoverFault
      BY <3>5 DEF RecoverFault, Failing, disk, memory
    <3> QED
      BY <2>20, <3>1, <3>2, <3>3, <3>4, <3>5 DEF Fault
  <2>21. CASE UNCHANGED vars
    BY <2>21 DEF vars, disk, memory, ghosts
  <2> QED
    BY <2>1, <2>2, <2>3, <2>4, <2>5, <2>6, <2>7, <2>8, <2>9, <2>10, <2>11,
       <2>12, <2>13, <2>14, <2>15, <2>16, <2>17, <2>18, <2>19, <2>20, <2>21
       DEF Next, Commit, Recover
<1> QED BY <1>1, <1>2, PTL DEF Spec

-----------------------------------------------------------------------------
(* The inductive invariant, part by part. *)

LEMMA ControlStep == ASSUME IInv, Next PROVE Control'
<1> USE DEF IInv, Control, At, InCommit, InRollback, Uncommitted, Committed,
            CommitSteps, JournalSteps, CleanSteps, RollbackSteps
<1>1. ASSUME NEW f \in Files, StoreSave(f) PROVE Control'
  BY <1>1 DEF StoreSave, memory
<1>2. CASE Begin
  BY <1>2 DEF Begin, SlotFree, FreshState
<1>3. CASE Exit
  BY <1>3 DEF Exit, disk, memory, ghosts
<1>4. CASE WriteJournalTmp
  BY <1>4 DEF WriteJournalTmp, memory, ghosts
<1>5. CASE ReplaceJournal
  BY <1>5, NoJournalAssumption DEF ReplaceJournal, memory, ghosts, TypeOK
<1>6. CASE Inspect
  BY <1>6 DEF Inspect, Journalling, disk, ghosts, TypeOK, JournalState
<1>7. CASE ClearArtifacts
  BY <1>7 DEF ClearArtifacts, memory, ghosts
<1>8. CASE OpenTemp
  BY <1>8 DEF OpenTemp, memory, ghosts
<1>9. CASE FlushTemp
  BY <1>9 DEF FlushTemp, AfterStaging, memory, ghosts
<1>10. CASE MoveBackup
  BY <1>10 DEF MoveBackup, Journalling, ghosts, TypeOK, JournalState
<1>11. CASE Publish
  BY <1>11 DEF Publish, Journalling, MoreItems, ghosts, TypeOK, JournalState
<1>12. CASE Seal
  BY <1>12 DEF Seal, Journalling, AfterSeal, disk, ghosts, TypeOK, JournalState
<1>13. CASE CleanItem
  BY <1>13 DEF CleanItem, MoreItems, ghosts
<1>14. CASE DropJournal
  BY <1>14 DEF DropJournal, memory, ghosts
<1>15. CASE UndoRemovePublished
  BY <1>15 DEF UndoRemovePublished, memory, ghosts
<1>16. CASE UndoRestoreBackup
  BY <1>16 DEF UndoRestoreBackup, memory, ghosts
<1>17. CASE UndoRemoveCreated
  BY <1>17 DEF UndoRemoveCreated, memory, ghosts
<1>18. CASE UndoCreatedMissing
  BY <1>18 DEF UndoCreatedMissing, NextUndo, disk, ghosts
<1>19. CASE UndoNothing
  BY <1>19 DEF UndoNothing, disk, memory, ghosts
<1>20. CASE UndoTemp
  BY <1>20 DEF UndoTemp, NextUndo, ghosts
<1>21. CASE RollbackIncomplete
  BY <1>21 DEF RollbackIncomplete, Thrown, disk, memory, ghosts
<1>22. CASE RollbackDone
  BY <1>22 DEF RollbackDone, memory
<1>23. CASE RollbackDropTmp
  BY <1>23 DEF RollbackDropTmp, memory, ghosts
<1>24. CASE Boot
  BY <1>24 DEF Boot, BootStep, disk
<1>25. CASE FinishItem
  BY <1>25 DEF FinishItem, MoreItems, ghosts
<1>26. CASE FinishJournal
  BY <1>26 DEF FinishJournal, memory, ghosts
<1>27. CASE FinishTmp
  BY <1>27 DEF FinishTmp, memory, ghosts
<1>28. CASE Crash
  BY <1>28 DEF Crash, disk, ghosts
<1>29. CASE CommitFault
  BY <1>29 DEF CommitFault
<1>30. CASE CleanupFault
  BY <1>30 DEF CleanupFault, disk, memory
<1>31. CASE UndoFault
  BY <1>31 DEF UndoFault, NextUndo, disk
<1>32. CASE EndRollbackFault
  BY <1>32 DEF EndRollbackFault, Thrown, disk, memory
<1>33. CASE RecoverFault
  BY <1>33 DEF RecoverFault, RecoverSteps, disk, memory
<1> QED
  BY <1>1, <1>2, <1>3, <1>4, <1>5, <1>6, <1>7, <1>8, <1>9, <1>10, <1>11,
     <1>12, <1>13, <1>14, <1>15, <1>16, <1>17, <1>18, <1>19, <1>20, <1>21,
     <1>22, <1>23, <1>24, <1>25, <1>26, <1>27, <1>28, <1>29, <1>30, <1>31,
     <1>32, <1>33
  DEF Next, Commit, Rollback, Recover, Fault

LEMMA RecordsStep == ASSUME IInv, Next PROVE Records'
<1> USE DEF IInv, Control, Records, Truthful, Accepts, InCommit, InRollback,
            Uncommitted, Committed, CommitSteps, JournalSteps, CleanSteps
<1>1. ASSUME NEW f \in Files, StoreSave(f) PROVE Records'
  BY <1>1 DEF StoreSave, memory
<1>2. CASE Begin
  BY <1>2 DEF Begin, SlotFree, FreshState
<1>3. CASE Exit
  BY <1>3 DEF Exit, disk, memory, ghosts
<1>4. CASE WriteJournalTmp
  BY <1>4 DEF WriteJournalTmp, memory, ghosts
<1>5. CASE ReplaceJournal
  <2>1. Truthful(state) /\ state \in JournalState
    BY <1>5 DEF ReplaceJournal, TypeOK
  <2>2. state.committed => \A f \in Files : f \in state.published
    BY <1>5 DEF ReplaceJournal, Shape, Published, At
  <2>3. Accepts(state)
    BY <2>1, <2>2 DEF JournalState
  <2> QED
    BY <1>5, <2>1, <2>3 DEF ReplaceJournal, memory, ghosts
<1>6. CASE Inspect
  <2>1. cur \in Files /\ dest[cur] = orig[cur] /\ Truthful(state)
    BY <1>6 DEF Inspect, TypeOK, Shape, AtItem, At, Untouched
  <2>2. /\ state'.prepared = state.prepared \cup {cur}
        /\ state'.hadOriginal = state.hadOriginal \cup Existing({cur})
        /\ state'.backupMoved = state.backupMoved
        /\ state'.published = state.published
    BY <1>6 DEF Inspect, TypeOK, JournalState
  <2>3. Untouched(cur) /\ cur \notin state.prepared
    BY <1>6 DEF Inspect, TypeOK, Shape, AtItem, At
  <2>4. Truthful(state)'
    BY <1>6, <2>1, <2>2, <2>3 DEF Inspect, Existing, ghosts
  <2> QED
    BY <1>6, <2>4 DEF Inspect, Journalling, disk, ghosts
<1>7. CASE ClearArtifacts
  BY <1>7 DEF ClearArtifacts, memory, ghosts
<1>8. CASE OpenTemp
  BY <1>8 DEF OpenTemp, memory, ghosts
<1>9. CASE FlushTemp
  BY <1>9 DEF FlushTemp, AfterStaging, memory, ghosts
<1>10. CASE MoveBackup
  <2>1. cur \in state.hadOriginal /\ Truthful(state)
    BY <1>10 DEF MoveBackup, TypeOK, Shape, AtItem, At
  <2>2. /\ state'.prepared = state.prepared
        /\ state'.hadOriginal = state.hadOriginal
        /\ state'.backupMoved = state.backupMoved \cup {cur}
        /\ state'.published = state.published
    BY <1>10 DEF MoveBackup, TypeOK, JournalState
  <2>3. Truthful(state)'
    BY <1>10, <2>1, <2>2 DEF MoveBackup, ghosts
  <2> QED
    BY <1>10, <2>3 DEF MoveBackup, Journalling, ghosts
<1>11. CASE Publish
  <2>1. cur \in state.prepared /\ Truthful(state)
    BY <1>11 DEF Publish, TypeOK, Shape, AtItem, At
  <2>2. /\ state'.prepared = state.prepared
        /\ state'.hadOriginal = state.hadOriginal
        /\ state'.backupMoved = state.backupMoved
        /\ state'.published = state.published \cup {cur}
    BY <1>11 DEF Publish, TypeOK, JournalState
  <2>3. Truthful(state)'
    BY <1>11, <2>1, <2>2 DEF Publish, ghosts
  <2> QED
    BY <1>11, <2>3 DEF Publish, Journalling, MoreItems, ghosts
<1>12. CASE Seal
  BY <1>12 DEF Seal, Journalling, AfterSeal, disk, ghosts, TypeOK, JournalState
<1>13. CASE CleanItem
  BY <1>13 DEF CleanItem, MoreItems, ghosts
<1>14. CASE DropJournal
  BY <1>14 DEF DropJournal, memory, ghosts
<1>15. CASE UndoRemovePublished
  BY <1>15 DEF UndoRemovePublished, memory, ghosts
<1>16. CASE UndoRestoreBackup
  BY <1>16 DEF UndoRestoreBackup, memory, ghosts
<1>17. CASE UndoRemoveCreated
  BY <1>17 DEF UndoRemoveCreated, memory, ghosts
<1>18. CASE UndoCreatedMissing
  BY <1>18 DEF UndoCreatedMissing, NextUndo, disk, ghosts
<1>19. CASE UndoNothing
  BY <1>19 DEF UndoNothing, disk, memory, ghosts
<1>20. CASE UndoTemp
  BY <1>20 DEF UndoTemp, NextUndo, ghosts
<1>21. CASE RollbackIncomplete
  BY <1>21 DEF RollbackIncomplete, Thrown, disk, memory, ghosts
<1>22. CASE RollbackDone
  BY <1>22 DEF RollbackDone, memory
<1>23. CASE RollbackDropTmp
  BY <1>23 DEF RollbackDropTmp, memory, ghosts
<1>24. CASE Boot
  BY <1>24 DEF Boot, BootStep, disk
<1>25. CASE FinishItem
  BY <1>25 DEF FinishItem, MoreItems, ghosts
<1>26. CASE FinishJournal
  BY <1>26 DEF FinishJournal, memory, ghosts
<1>27. CASE FinishTmp
  BY <1>27 DEF FinishTmp, memory, ghosts
<1>28. CASE Crash
  BY <1>28 DEF Crash, disk, ghosts
<1>29. CASE CommitFault
  BY <1>29 DEF CommitFault
<1>30. CASE CleanupFault
  BY <1>30 DEF CleanupFault, disk, memory
<1>31. CASE UndoFault
  BY <1>31 DEF UndoFault, NextUndo, disk
<1>32. CASE EndRollbackFault
  BY <1>32 DEF EndRollbackFault, Thrown, disk, memory
<1>33. CASE RecoverFault
  BY <1>33 DEF RecoverFault, RecoverSteps, disk, memory
<1> QED
  BY <1>1, <1>2, <1>3, <1>4, <1>5, <1>6, <1>7, <1>8, <1>9, <1>10, <1>11,
     <1>12, <1>13, <1>14, <1>15, <1>16, <1>17, <1>18, <1>19, <1>20, <1>21,
     <1>22, <1>23, <1>24, <1>25, <1>26, <1>27, <1>28, <1>29, <1>30, <1>31,
     <1>32, <1>33
  DEF Next, Commit, Rollback, Recover, Fault

LEMMA ShapeStep == ASSUME IInv, Next PROVE Shape'
<1> USE LoopBounds DEF IInv, InCommit, CommitSteps, JournalSteps, At
<1>1. ASSUME NEW f \in Files, StoreSave(f) PROVE Shape'
  BY <1>1 DEF StoreSave, Shape
<1>2. CASE Begin
  <2>1. /\ pc' = "writeTmp" /\ resume' = "inspect" /\ cur' = 1
        /\ orig' = dest /\ state'.prepared = {}
        /\ UNCHANGED <<dest, temp, backup>>
    BY <1>2 DEF Begin, FreshState
  <2>2. \A f \in Files : Cleared(f)
    BY <1>2 DEF Begin, SlotFree, Progress
  <2> QED
    BY <2>1, <2>2 DEF Shape, AtItem, Untouched, Cleared
<1>3. CASE WriteJournalTmp
  BY <1>3 DEF WriteJournalTmp, memory, ghosts, Shape, AtItem, Untouched, Published
<1>4. CASE ReplaceJournal
  <2>1. /\ pc = "replace" /\ pc' = resume /\ journal' = state
        /\ UNCHANGED <<dest, temp, backup, memory, ghosts>>
    BY <1>4 DEF ReplaceJournal
  <2>2. At' = At /\ At \notin JournalSteps
    BY <2>1 DEF memory, TypeOK
  <2>3. ASSUME NEW f \in Files
        PROVE /\ Published(f) => Published(f)'
              /\ Untouched(f) => Untouched(f)'
              /\ AtItem(f) => AtItem(f)'
    <3>1. CASE At = "inspect"
      BY <2>1, <2>2, <3>1 DEF AtItem, Published, Untouched, memory, ghosts
    <3>2. CASE At = "clear"
      BY <2>1, <2>2, <3>2 DEF AtItem, Published, Untouched, memory, ghosts
    <3>3. CASE At = "publish"
      BY <2>1, <2>2, <3>3 DEF AtItem, Published, Untouched, memory, ghosts
    <3>4. CASE At \in {"seal", "cleanup"}
      BY <2>1, <2>2, <3>4 DEF AtItem, Published, Untouched, memory, ghosts
    <3> QED
      BY <2>1, <3>1, <3>2, <3>3, <3>4 DEF TypeOK
  <2> QED
    <3> SUFFICES ASSUME NEW f \in Files
                 PROVE /\ f < cur' \/ At' = "cleanup" => Published(f)'
                       /\ f > cur' /\ At' # "cleanup" =>
                            Untouched(f)' /\ f \notin state'.prepared
                       /\ f = cur' /\ At' # "cleanup" => AtItem(f)'
                       /\ At' = "seal" => cur' = N
      BY DEF Shape
    <3> HIDE DEF At
    <3>1. cur' = cur /\ state' = state
      BY <2>1 DEF memory
    <3>2. InCommit
      BY <2>1
    <3> QED
      BY <2>2, <2>3, <3>1, <3>2 DEF Shape
<1>5. CASE Inspect
  <2>1. /\ pc = "inspect" /\ pc' = "writeTmp" /\ resume' = "clear"
        /\ state'.prepared = state.prepared \cup {cur}
        /\ state'.published = state.published
        /\ UNCHANGED <<disk, cur, payload, ghosts>>
    BY <1>5 DEF Inspect, Journalling, TypeOK, JournalState
  <2> QED
    BY <2>1 DEF Shape, AtItem, Untouched, Published, disk, ghosts, TypeOK
<1>6. CASE ClearArtifacts
  BY <1>6 DEF ClearArtifacts, memory, ghosts, Shape, AtItem, Untouched,
              Published, TypeOK
<1>7. CASE OpenTemp
  BY <1>7 DEF OpenTemp, memory, ghosts, Shape, AtItem, Untouched, Published,
              TypeOK
<1>8. CASE FlushTemp
  <2>1. /\ pc = "flush" /\ pc' = AfterStaging
        /\ temp' = [temp EXCEPT ![cur] = payload]
        /\ UNCHANGED <<dest, backup, journal, memory, ghosts>>
    BY <1>8 DEF FlushTemp
  <2>2. /\ dest[cur] = orig[cur] /\ backup[cur] = Absent
        /\ cur \in state.prepared /\ cur \in journal.prepared
    BY <2>1 DEF Shape, AtItem, TypeOK
  <2>3. cur \in state.hadOriginal <=> orig[cur] # Absent
    BY <2>1, <2>2 DEF Records, Truthful
  <2>4. AtItem(cur)'
    BY <2>1, <2>2, <2>3 DEF AtItem, AfterStaging, memory, ghosts, TypeOK
  <2> QED
    BY <2>1, <2>4 DEF Shape, AfterStaging, Untouched, Published, memory, ghosts,
                      TypeOK
<1>9. CASE MoveBackup
  <2>1. /\ pc = "moveBackup" /\ pc' = "writeTmp" /\ resume' = "publish"
        /\ state'.prepared = state.prepared
        /\ state'.published = state.published
        /\ backup' = [backup EXCEPT ![cur] = dest[cur]]
        /\ dest' = [dest EXCEPT ![cur] = Absent]
        /\ UNCHANGED <<temp, journal, cur, payload, ghosts>>
    BY <1>9 DEF MoveBackup, Journalling, TypeOK, JournalState
  <2> QED
    BY <2>1 DEF Shape, AtItem, Untouched, Published, ghosts, TypeOK
<1>10. CASE Publish
  <2>1. /\ pc = "publish" /\ pc' = "writeTmp"
        /\ state'.prepared = state.prepared
        /\ state'.published = state.published \cup {cur}
        /\ dest' = [dest EXCEPT ![cur] = temp[cur]]
        /\ temp' = [temp EXCEPT ![cur] = Absent]
        /\ UNCHANGED <<backup, journal, payload, ghosts>>
    BY <1>10 DEF Publish, Journalling, TypeOK, JournalState
  <2>2. ASSUME NEW f \in Files, f = cur PROVE Published(f)'
    <3>1. /\ temp[cur] = payload /\ backup[cur] = orig[cur]
          /\ cur \in state.prepared /\ cur \in journal.prepared
      BY <2>1 DEF Shape, AtItem, TypeOK
    <3> QED
      BY <2>1, <2>2, <3>1 DEF Published, ghosts, TypeOK
  <2>3. ASSUME NEW f \in Files, f # cur
        PROVE /\ Published(f) => Published(f)'
              /\ Untouched(f) => Untouched(f)'
    BY <2>1, <2>3 DEF Published, Untouched, ghosts, TypeOK
  <2>4. /\ cur \in Files /\ cur \in Nat /\ \A f \in Files : f \in Nat /\ f <= N
        /\ \A f \in Files : f < cur => Published(f)
        /\ \A f \in Files : f > cur => Untouched(f) /\ f \notin state.prepared
    BY <2>1 DEF Shape, TypeOK
  <2>5. /\ \A f \in Files : f <= cur => Published(f)'
        /\ \A f \in Files : f > cur => Untouched(f)' /\ f \notin state'.prepared
    <3>1. ASSUME NEW f \in Files, f <= cur PROVE Published(f)'
      <4>1. CASE f = cur
        BY <2>2, <4>1
      <4>2. CASE f # cur
        BY <2>3, <2>4, <3>1, <4>2, SMTT(30)
      <4> QED
        BY <4>1, <4>2
    <3>2. ASSUME NEW f \in Files, f > cur
          PROVE Untouched(f)' /\ f \notin state'.prepared
      <4>1. f # cur
        BY <2>4, <3>2
      <4> QED
        BY <2>1, <2>3, <2>4, <3>2, <4>1
    <3> QED
      BY <3>1, <3>2
  <2>6. CASE cur < N
    <3>1. cur' = cur + 1 /\ resume' = "inspect" /\ pc' = "writeTmp"
      BY <1>10, <2>6 DEF Publish, MoreItems, Journalling
    <3>2. /\ \A f \in Files : f < cur' => Published(f)'
          /\ \A f \in Files : f >= cur' => Untouched(f)' /\ f \notin state'.prepared
      BY <2>4, <2>5, <3>1
    <3>3. At' = "inspect" /\ cur' \in Nat
      BY <2>4, <3>1
    <3>4. \A f \in Files : f = cur' => AtItem(f)'
      BY <3>2, <3>3 DEF AtItem
    <3> HIDE DEF At
    <3> QED
      BY <2>4, <3>2, <3>3, <3>4 DEF Shape
  <2>7. CASE ~(cur < N)
    <3>1. /\ cur' = cur /\ resume' = "seal" /\ cur = N /\ pc' = "writeTmp"
          /\ \A f \in Files : f <= cur
      BY <1>10, <2>4, <2>7 DEF Publish, MoreItems, Journalling
    <3>2. \A f \in Files : Published(f)'
      BY <2>5, <3>1
    <3> QED
      BY <2>4, <3>1, <3>2 DEF Shape, AtItem
  <2> QED
    BY <2>6, <2>7
<1>11. CASE Seal
  <2>1. /\ pc = "seal" /\ pc' = "writeTmp" /\ resume' = "cleanup"
        /\ state'.prepared = state.prepared
        /\ state'.published = state.published
        /\ UNCHANGED <<disk, payload, ghosts>>
    BY <1>11 DEF Seal, Journalling, AfterSeal, TypeOK, JournalState
  <2>2. \A f \in Files : Published(f)
    BY <2>1 DEF Shape, AtItem, TypeOK
  <2> QED
    BY <2>1, <2>2 DEF Shape, Published, disk, ghosts
<1>12. CASE CleanItem \/ DropJournal \/ Rollback
  BY <1>12 DEF CleanItem, DropJournal, Rollback, UndoRemovePublished,
       UndoRestoreBackup, UndoRemoveCreated, UndoCreatedMissing, UndoNothing,
       UndoTemp, RollbackIncomplete, RollbackDone, RollbackDropTmp, NextUndo,
       Thrown, MoreItems, Shape
<1>13. CASE Recover
  BY <1>13 DEF Recover, Boot, BootStep, FinishItem, FinishJournal, FinishTmp,
       MoreItems, Shape
<1>14. CASE Exit \/ Crash \/ Fault
  BY <1>14 DEF Exit, Crash, Fault, CommitFault, CleanupFault, UndoFault,
       EndRollbackFault, RecoverFault, NextUndo, Thrown, Shape
<1> QED
  BY <1>1, <1>2, <1>3, <1>4, <1>5, <1>6, <1>7, <1>8, <1>9, <1>10, <1>11,
     <1>12, <1>13, <1>14
  DEF Next, Commit

(* At every step of commit_items the rollback would find what it needs.    *)
LEMMA CommitUndoable ==
  ASSUME IInv, InCommit PROVE \A f \in Files : Undoable(state, f)
<1> TAKE f \in Files
<1>1. CASE f < cur \/ At = "cleanup"
  BY <1>1 DEF IInv, Shape, Published, Undoable
<1>2. CASE f > cur /\ At # "cleanup"
  BY <1>2 DEF IInv, Shape, Untouched, Undoable
<1>3. CASE f = cur /\ At # "cleanup"
  <2>1. AtItem(f)
    BY <1>3 DEF IInv, Shape
  <2> QED
    BY <2>1 DEF AtItem, Untouched, Published, Undoable
<1>4. f \in Nat /\ cur \in Nat
  BY LoopBounds DEF IInv, TypeOK
<1> QED
  BY <1>1, <1>2, <1>3, <1>4

LEMMA BackupsStep == ASSUME IInv, Next PROVE Backups'
<1> USE DEF IInv, InRollback, Uncommitted
<1>1. ASSUME NEW f \in Files, StoreSave(f) PROVE Backups'
  BY <1>1 DEF StoreSave, Backups, Undoable, Control, Committed, TypeOK
<1>2. CASE Begin
  BY <1>2 DEF Begin, SlotFree, Backups
<1>3. CASE WriteJournalTmp
  BY <1>3 DEF WriteJournalTmp, memory, ghosts, Backups, Undoable
<1>4. CASE ReplaceJournal
  <2>1. /\ pc' = resume /\ journal' = state /\ InCommit
        /\ UNCHANGED <<dest, temp, backup, orig, atRisk>>
    BY <1>4 DEF ReplaceJournal, InCommit, JournalSteps, ghosts
  <2>2. \A f \in Files : Undoable(state, f)
    BY <2>1, CommitUndoable
  <2>3. \A f \in Files : backup[f] \in {Absent, orig[f]}
    BY <2>1, <2>2 DEF Undoable, Control
  <2> QED
    BY <2>1, <2>2, <2>3 DEF Backups, Undoable, TypeOK
<1>5. CASE Inspect \/ Seal
  BY <1>5 DEF Inspect, Seal, Journalling, disk, ghosts, Backups, Undoable
<1>6. CASE ClearArtifacts
  <2>1. Untouched(cur)
    BY <1>6 DEF ClearArtifacts, Shape, InCommit, CommitSteps, JournalSteps, At,
                AtItem, TypeOK
  <2> QED
    BY <1>6, <2>1 DEF ClearArtifacts, Untouched, Backups, Undoable, memory,
                      ghosts, TypeOK
<1>7. CASE OpenTemp
  <2>1. Untouched(cur)
    BY <1>7 DEF OpenTemp, Shape, InCommit, CommitSteps, JournalSteps, At,
                AtItem, TypeOK
  <2> QED
    BY <1>7, <2>1 DEF OpenTemp, Untouched, Backups, Undoable, memory, ghosts,
                      TypeOK
<1>8. CASE FlushTemp
  <2>1. dest[cur] = orig[cur] /\ backup[cur] = Absent
    BY <1>8 DEF FlushTemp, Shape, InCommit, CommitSteps, JournalSteps, At,
                AtItem, TypeOK
  <2> QED
    BY <1>8, <2>1 DEF FlushTemp, AfterStaging, Backups, Undoable, memory,
                      ghosts, TypeOK
<1>9. CASE MoveBackup
  <2>1. /\ dest[cur] = orig[cur] /\ cur \in state.prepared
        /\ cur \in state.hadOriginal
    BY <1>9 DEF MoveBackup, Shape, InCommit, CommitSteps, JournalSteps, At,
                AtItem, TypeOK
  <2>2. orig[cur] # Absent
    BY <1>9, <2>1 DEF MoveBackup, Records, Truthful, InCommit, CommitSteps
  <2> QED
    BY <1>9, <2>1, <2>2 DEF MoveBackup, Journalling, Backups, Undoable, ghosts,
                            TypeOK
<1>10. CASE Publish
  <2>1. backup[cur] = orig[cur] /\ cur \in journal.prepared
    BY <1>10 DEF Publish, Shape, InCommit, CommitSteps, JournalSteps, At,
                 AtItem, TypeOK
  <2> QED
    BY <1>10, <2>1 DEF Publish, Journalling, Backups, Undoable, ghosts, TypeOK
<1>11. CASE CleanItem \/ DropJournal \/ FinishItem \/ FinishJournal
  BY <1>11 DEF CleanItem, DropJournal, FinishItem, FinishJournal, MoreItems,
               CleanSteps, Control, Committed, Backups
<1>12. CASE UndoRemovePublished
  <2>1. backup[cur] = orig[cur] /\ orig[cur] # Absent
    BY <1>12 DEF UndoRemovePublished, Control, Backups, TypeOK
  <2> QED
    BY <1>12, <2>1 DEF UndoRemovePublished, memory, ghosts, Backups, Undoable,
                       TypeOK
<1>13. CASE UndoRestoreBackup
  <2>1. backup[cur] = orig[cur] /\ orig[cur] # Absent
    BY <1>13 DEF UndoRestoreBackup, Control, Backups, TypeOK
  <2> QED
    BY <1>13, <2>1 DEF UndoRestoreBackup, memory, ghosts, Backups, Undoable,
                       TypeOK
<1>14. CASE UndoRemoveCreated
  <2>1. orig[cur] = Absent
    BY <1>14 DEF UndoRemoveCreated, CreatedHere, Records, Truthful
  <2> QED
    BY <1>14, <2>1 DEF UndoRemoveCreated, memory, ghosts, Backups, Undoable,
                       TypeOK
<1>15. CASE UndoCreatedMissing \/ UndoNothing
  BY <1>15 DEF UndoCreatedMissing, UndoNothing, NextUndo, disk, memory, ghosts,
               Backups, Undoable
<1>16. CASE UndoTemp
  BY <1>16 DEF UndoTemp, NextUndo, ghosts, Backups, Undoable, TypeOK
<1>17. CASE RollbackIncomplete
  BY <1>17 DEF RollbackIncomplete, Thrown, disk, memory, ghosts, Backups, Undoable
<1>18. CASE RollbackDone \/ RollbackDropTmp \/ FinishTmp
  BY <1>18 DEF RollbackDone, RollbackDropTmp, FinishTmp, Control, Backups
<1>19. CASE Boot
  BY <1>19 DEF Boot, BootStep, disk, Backups, Undoable
<1>20. CASE Exit \/ Crash
  BY <1>20 DEF Exit, Crash, disk, ghosts, Backups, Undoable
<1>21. CASE CommitFault
  <2>1. InCommit /\ atRisk = {}
    BY <1>21 DEF CommitFault, InCommit, Control
  <2>2. \A f \in Files : Undoable(state, f)
    BY <2>1, CommitUndoable
  <2>3. \/ UNCHANGED temp
        \/ /\ temp' = [temp EXCEPT ![cur] = Partial]
           /\ dest[cur] = orig[cur] /\ backup[cur] = Absent
    BY <1>21 DEF CommitFault, Shape, InCommit, CommitSteps, JournalSteps, At,
                 AtItem, Untouched, TypeOK
  <2> QED
    BY <1>21, <2>2, <2>3 DEF CommitFault, Backups, Undoable, TypeOK
<1>22. CASE CleanupFault \/ EndRollbackFault \/ RecoverFault
  BY <1>22 DEF CleanupFault, EndRollbackFault, RecoverFault, Thrown, disk,
               memory, Backups, Undoable
<1>23. CASE UndoFault
  BY <1>23 DEF UndoFault, NextUndo, disk, Backups, Undoable
<1> QED
  BY <1>1, <1>2, <1>3, <1>4, <1>5, <1>6, <1>7, <1>8, <1>9, <1>10, <1>11,
     <1>12, <1>13, <1>14, <1>15, <1>16, <1>17, <1>18, <1>19, <1>20, <1>21,
     <1>22, <1>23
  DEF Next, Commit, Rollback, Recover, Fault

LEMMA ProgressStep == ASSUME IInv, Next PROVE Progress'
<1> USE LoopBounds
    DEF IInv, InCommit, InRollback, Uncommitted, Committed, CommitSteps,
        JournalSteps, CleanSteps
<1>0. /\ cur \in Files /\ cur \in Nat /\ N \in Nat
      /\ \A f \in Files : f \in Nat /\ 1 <= f /\ f <= N
      /\ temp \in [Files -> Data] /\ backup \in [Files -> Data]
  BY NAssumption DEF TypeOK
<1>1. ASSUME NEW f \in Files, StoreSave(f) PROVE Progress'
  BY <1>1 DEF StoreSave, Progress, Cleared, Control
<1>2. CASE Begin
  BY <1>2 DEF Begin, SlotFree, Progress, Cleared
<1>3. CASE WriteJournalTmp
  BY <1>3 DEF WriteJournalTmp, memory, ghosts, Progress, Cleared
<1>4. CASE ReplaceJournal
  <2>1. /\ pc = "replace" /\ pc' = resume /\ journal' = state
        /\ journal' # NoJournal
        /\ UNCHANGED <<dest, temp, backup, memory, ghosts>>
    BY <1>4, NoJournalAssumption DEF ReplaceJournal, TypeOK
  <2>2. state.committed => resume = "cleanup" /\ \A f \in Files : dest[f] = payload
    BY <2>1 DEF Control, At, Shape, Published
  <2>3. state.committed => dest = [f \in Files |-> payload]
    BY <2>2 DEF TypeOK
  <2>4. pc' = "cleanup" => cur = 1
    BY <2>1 DEF Control, At
  <2>5. pc' \in {"inspect", "clear", "publish", "seal", "cleanup"}
    BY <2>1 DEF TypeOK
  <2> QED
    BY <2>1, <2>3, <2>4, <2>5 DEF Progress, memory
<1>5. CASE Inspect \/ ClearArtifacts \/ OpenTemp \/ FlushTemp
  <2>1. journal # NoJournal /\ ~journal.committed
    BY <1>5 DEF Inspect, ClearArtifacts, OpenTemp, FlushTemp, Control
  <2> QED
    BY <1>5, <2>1 DEF Inspect, ClearArtifacts, OpenTemp, FlushTemp,
         AfterStaging, Journalling, disk, Progress
<1>6. CASE MoveBackup \/ Publish \/ Seal
  <2>1. journal # NoJournal /\ ~journal.committed
    BY <1>6 DEF MoveBackup, Publish, Seal, Control
  <2> QED
    BY <1>6, <2>1 DEF MoveBackup, Publish, Seal, AfterSeal, Journalling, disk,
         Progress
<1>7. CASE CleanItem
  <2>1. Committed /\ journal' = journal
    BY <1>7 DEF CleanItem, Control
  <2>2. ASSUME NEW f \in Files, f <= cur PROVE Cleared(f)'
    <3>1. CASE f < cur
      BY <1>0, <1>7, <3>1 DEF CleanItem, Progress, Cleared
    <3>2. CASE f = cur
      BY <1>0, <1>7, <3>2 DEF CleanItem, Cleared
    <3> QED
      BY <1>0, <2>2, <3>1, <3>2
  <2>3. CASE cur < N
    <3>1. cur' = cur + 1 /\ pc' = pc /\ pc = "cleanup" /\ dest' = dest
          /\ payload' = payload
      BY <1>7, <2>3 DEF CleanItem, MoreItems
    <3>2. ASSUME NEW f \in Files, f < cur' PROVE Cleared(f)'
      BY <1>0, <2>2, <3>1, <3>2
    <3> QED
      BY <2>1, <3>1, <3>2 DEF Progress
  <2>4. CASE ~(cur < N)
    <3>1. \A f \in Files : Cleared(f)'
      BY <1>0, <2>2, <2>4
    <3> QED
      BY <1>7, <2>1, <2>4, <3>1 DEF CleanItem, MoreItems, Progress
  <2> QED
    BY <2>3, <2>4
<1>8. CASE DropJournal
  BY <1>8 DEF DropJournal, Control, Progress, Cleared
<1>9. CASE UndoRemovePublished
  BY <1>9 DEF UndoRemovePublished, memory, ghosts, Control, Progress, Cleared,
              Restored, TypeOK
<1>10. CASE UndoRestoreBackup
  <2>1. backup[cur] = orig[cur]
    BY <1>10 DEF UndoRestoreBackup, Control, Backups, TypeOK
  <2> QED
    BY <1>10, <2>1 DEF UndoRestoreBackup, memory, ghosts, Control, Progress,
                       Cleared, Restored, TypeOK
<1>11. CASE UndoRemoveCreated
  <2>1. orig[cur] = Absent
    BY <1>11 DEF UndoRemoveCreated, CreatedHere, Records, Truthful
  <2> QED
    BY <1>11, <2>1 DEF UndoRemoveCreated, memory, ghosts, Control, Progress,
                       Cleared, Restored, TypeOK
<1>12. CASE UndoCreatedMissing
  BY <1>12 DEF UndoCreatedMissing, NextUndo, disk, ghosts, Control, Progress,
               Cleared
<1>13. CASE UndoNothing
  <2>1. cur \notin atRisk => dest[cur] = orig[cur]
    <3>1. Undoable(state, cur) /\ Truthful(state)
      BY <1>13 DEF UndoNothing, Backups, Records, TypeOK
    <3> QED
      BY <1>13, <3>1 DEF UndoNothing, CreatedHere, Undoable, Truthful
  <2> QED
    BY <1>13, <2>1 DEF UndoNothing, disk, memory, ghosts, Control, Progress,
                       Cleared, Restored
<1>14. CASE UndoTemp
  <2>1. /\ pc = "undoTemp" /\ temp' = [temp EXCEPT ![cur] = Absent]
        /\ NextUndo
        /\ UNCHANGED <<dest, backup, journal, failed, orig, atRisk>>
    BY <1>14 DEF UndoTemp, ghosts
  <2>2. Uncommitted
    BY <2>1 DEF Control
  <2>3. ASSUME ~failed, NEW f \in Files, f >= cur
        PROVE Cleared(f)' /\ Restored(f)'
    <3>1. CASE f > cur
      BY <1>0, <2>1, <2>3, <3>1 DEF Progress, Cleared, Restored
    <3>2. CASE f = cur
      BY <1>0, <2>1, <2>3, <3>2 DEF Progress, Cleared, Restored
    <3> QED
      BY <1>0, <2>3, <3>1, <3>2
  <2>4. CASE cur > 1
    <3>1. cur' = cur - 1 /\ pc' = "undo"
      BY <2>1, <2>4 DEF NextUndo
    <3>2. \A f \in Files : f > cur' => f >= cur
      BY <1>0, <3>1
    <3> QED
      BY <2>1, <2>2, <2>3, <3>1, <3>2 DEF Progress
  <2>5. CASE ~(cur > 1)
    <3>1. pc' = "endRollback" /\ \A f \in Files : f >= cur
      BY <1>0, <2>1, <2>5 DEF NextUndo
    <3> QED
      BY <2>1, <2>2, <2>3, <3>1 DEF Progress
  <2> QED
    BY <2>4, <2>5
<1>15. CASE RollbackIncomplete
  BY <1>15 DEF RollbackIncomplete, Thrown, disk, Control, Progress, Cleared
<1>16. CASE RollbackDone
  BY <1>16 DEF RollbackDone, KeepJournal, Progress, Cleared
<1>17. CASE RollbackDropTmp \/ FinishTmp
  BY <1>17 DEF RollbackDropTmp, FinishTmp, Control, Progress, Cleared
<1>18. CASE Boot
  <2>1. /\ pc' \in {"orphan", "running", "bootFailed", "finish", "undo"}
        /\ pc' = "undo" => cur' = N
        /\ pc' = "finish" => cur' = 1
        /\ UNCHANGED <<dest, temp, backup, journal, payload>>
    BY <1>18 DEF Boot, BootStep, disk
  <2> QED
    BY <1>0, <2>1 DEF Progress, Cleared
<1>19. CASE FinishItem
  <2>1. Committed /\ journal' = journal
    BY <1>19 DEF FinishItem, Control
  <2>2. ASSUME NEW f \in Files, f <= cur PROVE Cleared(f)'
    <3>1. CASE f < cur
      BY <1>0, <1>19, <3>1 DEF FinishItem, Progress, Cleared
    <3>2. CASE f = cur
      BY <1>0, <1>19, <3>2 DEF FinishItem, Cleared
    <3> QED
      BY <1>0, <2>2, <3>1, <3>2
  <2>3. CASE cur < N
    <3>1. cur' = cur + 1 /\ pc' = pc /\ pc = "finish" /\ dest' = dest
          /\ payload' = payload
      BY <1>19, <2>3 DEF FinishItem, MoreItems
    <3>2. ASSUME NEW f \in Files, f < cur' PROVE Cleared(f)'
      BY <1>0, <2>2, <3>1, <3>2
    <3> QED
      BY <2>1, <3>1, <3>2 DEF Progress
  <2>4. CASE ~(cur < N)
    <3>1. \A f \in Files : Cleared(f)'
      BY <1>0, <2>2, <2>4
    <3> QED
      BY <1>19, <2>1, <2>4, <3>1 DEF FinishItem, MoreItems, Progress
  <2> QED
    BY <2>3, <2>4
<1>20. CASE FinishJournal
  BY <1>20 DEF FinishJournal, Progress, Cleared
<1>21. CASE Exit \/ Crash
  BY <1>21 DEF Exit, Crash, disk, memory, Progress, Cleared
<1>22. CASE CommitFault
  <2>1. cur' = N \/ pc' = "running"
    BY <1>22 DEF CommitFault
  <2>2. journal = NoJournal => UNCHANGED temp
    BY <1>22 DEF CommitFault, Control
  <2>3. ~Committed
    BY <1>22 DEF CommitFault, Control
  <2>4. /\ pc' \in {"running", "undo"}
        /\ UNCHANGED <<dest, backup, journal>>
        /\ journal # NoJournal => cur' = N
    BY <1>22 DEF CommitFault
  <2> QED
    BY <1>0, <2>1, <2>2, <2>3, <2>4 DEF Progress, Cleared
<1>23. CASE CleanupFault \/ RecoverFault
  BY <1>23 DEF CleanupFault, RecoverFault, disk, memory, Progress, Cleared
<1>24. CASE EndRollbackFault
  BY <1>24 DEF EndRollbackFault, Thrown, disk, memory, Progress, Cleared
<1>25. CASE UndoFault
  BY <1>25 DEF UndoFault, NextUndo, disk, Control, Progress, Cleared
<1> QED
  BY <1>1, <1>2, <1>3, <1>4, <1>5, <1>6, <1>7, <1>8, <1>9, <1>10, <1>11,
     <1>12, <1>13, <1>14, <1>15, <1>16, <1>17, <1>18, <1>19, <1>20, <1>21,
     <1>22, <1>23, <1>24, <1>25
  DEF Next, Commit, Rollback, Recover, Fault

LEMMA WholeStep == ASSUME IInv, Next PROVE Whole'
<1> USE ContentAssumption DEF IInv, Whole
<1>0. /\ cur \in Files /\ payload \in Payloads
      /\ dest \in [Files -> Data] /\ backup \in [Files -> Data]
  BY DEF TypeOK
<1>1. ASSUME NEW f \in Files, StoreSave(f) PROVE Whole'
  BY <1>0, <1>1 DEF StoreSave
<1>2. CASE Begin
  BY <1>2 DEF Begin
<1>3. CASE WriteJournalTmp \/ ReplaceJournal \/ Inspect \/ Seal
  BY <1>3 DEF WriteJournalTmp, ReplaceJournal, Inspect, Seal, disk, ghosts
<1>4. CASE ClearArtifacts \/ OpenTemp \/ FlushTemp \/ CleanItem \/ DropJournal
  BY <1>0, <1>4 DEF ClearArtifacts, OpenTemp, FlushTemp, CleanItem, DropJournal,
                    ghosts
<1>5. CASE MoveBackup
  BY <1>0, <1>5 DEF MoveBackup, ghosts
<1>6. CASE Publish
  <2>1. temp[cur] = payload
    BY <1>0, <1>6 DEF Publish, Shape, InCommit, CommitSteps, JournalSteps, At,
                      AtItem
  <2> QED
    BY <1>0, <1>6, <2>1 DEF Publish, ghosts
<1>7. CASE Rollback
  BY <1>0, <1>7 DEF Rollback, UndoRemovePublished, UndoRestoreBackup,
       UndoRemoveCreated, UndoCreatedMissing, UndoNothing, UndoTemp,
       RollbackIncomplete, RollbackDone, RollbackDropTmp, disk, ghosts
<1>8. CASE Recover
  BY <1>0, <1>8 DEF Recover, Boot, FinishItem, FinishJournal, FinishTmp, disk,
                    ghosts
<1>9. CASE Exit \/ Crash
  BY <1>9 DEF Exit, Crash, disk, ghosts
<1>10. CASE Fault
  BY <1>10 DEF Fault, CommitFault, CleanupFault, UndoFault, EndRollbackFault,
               RecoverFault, disk
<1> QED
  BY <1>1, <1>2, <1>3, <1>4, <1>5, <1>6, <1>7, <1>8, <1>9, <1>10
  DEF Next, Commit

LEMMA InvariantInit == Init => IInv
<1> SUFFICES ASSUME Init, TypeOK PROVE IInv
  BY TypeInit
<1> USE DEF Init, InCommit, InRollback, Uncommitted, Committed, CommitSteps,
            JournalSteps, CleanSteps
<1>1. Control
  BY DEF Control
<1>2. Records /\ Shape /\ Backups
  BY DEF Records, Shape, Backups
<1>3. Progress
  BY DEF Progress, Cleared
<1>4. Whole
  BY ContentAssumption DEF Whole
<1> QED
  BY <1>1, <1>2, <1>3, <1>4 DEF IInv

LEMMA InvariantStutter == IInv /\ UNCHANGED vars => IInv'
<1> SUFFICES ASSUME IInv, UNCHANGED vars PROVE IInv'
  OBVIOUS
<1> USE DEF IInv, vars, disk, memory, ghosts, InCommit, InRollback,
            Uncommitted, Committed, At
<1>1. TypeOK'
  BY DEF TypeOK
<1>2. Control' /\ Whole'
  BY DEF Control, Whole
<1>3. Records'
  BY DEF Records, Truthful, Accepts
<1>4. Shape'
  BY DEF Shape, AtItem, Untouched, Published
<1>5. Backups' /\ Progress'
  BY DEF Backups, Undoable, Progress, Cleared, Restored
<1> QED
  BY <1>1, <1>2, <1>3, <1>4, <1>5

(* The inductive invariant holds in every reachable state. *)
THEOREM Invariant == Spec => []IInv
<1>1. Init => IInv
  BY InvariantInit
<1>2. IInv /\ TypeOK' /\ [Next]_vars => IInv'
  <2> SUFFICES ASSUME IInv, TypeOK', [Next]_vars PROVE IInv'
    OBVIOUS
  <2>1. CASE Next
    BY <2>1, ControlStep, RecordsStep, ShapeStep, BackupsStep, ProgressStep,
       WholeStep DEF IInv
  <2>2. CASE UNCHANGED vars
    BY <2>2, InvariantStutter
  <2> QED
    BY <2>1, <2>2
<1> QED
  BY <1>1, <1>2, TypeCorrect, PTL DEF Spec

-----------------------------------------------------------------------------
(* The properties *)

(* No step of a restore or of its rollback loses the original of a file.   *)
THEOREM OriginalsAreKept == Spec => []OriginalsKept
<1>1. IInv => OriginalsKept
  BY DEF IInv, OriginalsKept, Backups, Undoable, Uncommitted
<1> QED
  BY <1>1, Invariant, PTL

(* A restore leaves no artifact behind once its journal is gone. *)
THEOREM NoArtifactsLeft == Spec => []NoOrphanArtifacts
<1>1. IInv => NoOrphanArtifacts
  BY DEF IInv, NoOrphanArtifacts, Progress, Cleared
<1> QED
  BY <1>1, Invariant, PTL

(* Recovery never refuses a journal that write_journal wrote. *)
THEOREM JournalIsAccepted == Spec => []JournalAccepted
<1>1. IInv => JournalAccepted
  BY DEF IInv, JournalAccepted, Records
<1> QED
  BY <1>1, Invariant, PTL

(* When every file existed, an item of a rollback fails, and a start with it, *)
(* only by a call that fails: no item counts as created by the transaction.   *)
Unstuck ==
  (\A f \in Files : orig[f] # Absent) =>
    /\ booting /\ failed => faulted
    /\ StartupNotStuck

LEMMA UnstuckStep == ASSUME IInv, Unstuck, Next PROVE Unstuck'
<1> SUFFICES ASSUME \A f \in Files : orig'[f] # Absent
             PROVE  (booting' /\ failed' => faulted') /\ (pc' = "bootFailed" => faulted')
  BY DEF Unstuck, StartupNotStuck
<1> DEFINE Before == /\ \A f \in Files : orig[f] # Absent
                     /\ booting /\ failed => faulted
                     /\ pc = "bootFailed" => faulted
<1>1. orig' = orig => Before
  BY DEF Unstuck, StartupNotStuck
<1>2. pc \in JournalSteps => resume # "bootFailed"
  BY DEF IInv, TypeOK
<1>3. CASE Begin
  BY <1>3 DEF Begin
<1>4. CASE Exit \/ \E f \in Files : StoreSave(f)
  BY <1>1, <1>4 DEF Exit, StoreSave, memory, ghosts
<1>5. CASE Commit
  BY <1>1, <1>2, <1>5 DEF Commit, WriteJournalTmp, ReplaceJournal, Inspect, ClearArtifacts,
     OpenTemp, FlushTemp, AfterStaging, MoveBackup, Publish, Seal, CleanItem, DropJournal,
     Journalling, JournalSteps, memory, ghosts
<1>6. CASE UndoCreatedMissing
  <2>1. /\ pc = "undo" /\ cur \in state.prepared /\ cur \notin state.hadOriginal
        /\ orig' = orig /\ cur \in Files
    BY <1>6 DEF UndoCreatedMissing, CreatedHere, ghosts, IInv, TypeOK
  <2>2. orig[cur] = Absent
    BY <2>1 DEF IInv, Records, InRollback, Truthful
  <2> QED  BY <1>1, <2>1, <2>2
<1>7. CASE RollbackIncomplete
  BY <1>1, <1>7 DEF RollbackIncomplete, KeepJournal, Thrown, memory, ghosts
<1>8. CASE Rollback /\ ~UndoCreatedMissing /\ ~RollbackIncomplete
  BY <1>1, <1>8 DEF Rollback, UndoRemovePublished, UndoRestoreBackup, UndoRemoveCreated,
     UndoNothing, UndoTemp, NextUndo, RollbackDone, RollbackDropTmp, memory, ghosts
<1>9. CASE Boot
  <2>1. BootStep # "bootFailed"
    BY DEF BootStep, IInv, Records
  <2> QED  BY <1>9, <2>1 DEF Boot
<1>10. CASE FinishItem \/ FinishJournal \/ FinishTmp
  BY <1>1, <1>10 DEF FinishItem, FinishJournal, FinishTmp, memory, ghosts
<1>11. CASE Crash
  BY <1>11 DEF Crash
<1>12. CASE Fault
  BY <1>12 DEF Fault, CommitFault, CleanupFault, UndoFault, EndRollbackFault, RecoverFault,
     Failing
<1> QED
  BY <1>3, <1>4, <1>5, <1>6, <1>7, <1>8, <1>9, <1>10, <1>11, <1>12 DEF Next, Recover

(* No artifact outlives its journal, recovery refuses no journal, and when    *)
(* every file existed before the restore, recovery fails only by a call that  *)
(* fails, for any number of files, crashes and failing calls.                 *)
THEOREM RecoveryIsSound == Spec => []AlwaysRecoverable
<1>1. Init => Unstuck
  BY DEF Init, Unstuck, StartupNotStuck
<1>2. IInv /\ Unstuck /\ [Next]_vars => Unstuck'
  <2>1. IInv /\ Unstuck /\ UNCHANGED vars => Unstuck'
    BY DEF Unstuck, StartupNotStuck, vars, memory, ghosts
  <2> QED  BY <2>1, UnstuckStep
<1>3. Spec => []Unstuck
  BY <1>1, <1>2, Invariant, PTL DEF Spec
<1>4. Unstuck /\ NoOrphanArtifacts /\ JournalAccepted => AlwaysRecoverable
  BY DEF Unstuck, AlwaysRecoverable
<1> QED
  BY <1>3, <1>4, NoArtifactsLeft, JournalIsAccepted, PTL

(* The steps that remove a journal, for the two theorems below. *)
LEMMA JournalRemoval ==
  ASSUME TypeOK, Next, journal # NoJournal
  PROVE /\ journal' = NoJournal => DropJournal \/ RollbackDone \/ FinishJournal
        /\ journal' \in {journal, NoJournal} \/ ReplaceJournal
<1>1. ASSUME NEW f \in Files, StoreSave(f) PROVE journal' = journal
  BY <1>1 DEF StoreSave
<1>2. CASE Exit \/ Begin \/ Crash \/ Fault
  BY <1>2 DEF Exit, Begin, Crash, Fault, CommitFault, CleanupFault, UndoFault,
       EndRollbackFault, RecoverFault, disk
<1>3. CASE Commit
  <2>1. CASE ReplaceJournal
    BY <2>1, NoJournalAssumption DEF ReplaceJournal, TypeOK
  <2>2. CASE DropJournal
    BY <2>2 DEF DropJournal
  <2>3. CASE ~ReplaceJournal /\ ~DropJournal
    BY <1>3, <2>3 DEF Commit, WriteJournalTmp, Inspect, ClearArtifacts,
       OpenTemp, FlushTemp, MoveBackup, Publish, Seal, CleanItem, disk
  <2> QED
    BY <2>1, <2>2, <2>3
<1>4. CASE Rollback
  BY <1>4 DEF Rollback, UndoRemovePublished, UndoRestoreBackup,
       UndoRemoveCreated, UndoCreatedMissing, UndoNothing, UndoTemp,
       RollbackIncomplete, RollbackDone, RollbackDropTmp, disk
<1>5. CASE Recover
  BY <1>5 DEF Recover, Boot, FinishItem, FinishJournal, FinishTmp, disk
<1> QED
  BY <1>1, <1>2, <1>3, <1>4, <1>5 DEF Next

(* The journal is removed only when its transaction is settled. *)
THEOREM RemovalIsSettled == Spec => SettledBeforeRemoval
<1> DEFINE Settled ==
      (journal # NoJournal /\ journal' = NoJournal) =>
        \/ journal.committed /\ dest' = [f \in Files |-> payload]
        \/ ~journal.committed /\ \A f \in Files \ atRisk : dest'[f] = orig[f]
<1>1. IInv /\ [Next]_vars => [Settled]_vars
  <2> SUFFICES ASSUME IInv, Next, journal # NoJournal, journal' = NoJournal
               PROVE  Settled
    BY DEF vars, disk
  <2>1. CASE DropJournal
    BY <2>1 DEF DropJournal, IInv, Control, Committed, CleanSteps, Progress
  <2>2. CASE FinishJournal
    BY <2>2 DEF FinishJournal, IInv, Control, Committed, Progress
  <2>3. CASE RollbackDone
    BY <2>3 DEF RollbackDone, KeepJournal, IInv, Control, InRollback,
                Uncommitted, Progress, Restored
  <2> QED
    BY <2>1, <2>2, <2>3, JournalRemoval DEF IInv
<1> QED
  BY <1>1, Invariant, PTL DEF Spec, SettledBeforeRemoval

Final ==
  (journal # NoJournal /\ journal.committed) =>
    dest' = dest /\ (journal' = journal \/ journal' = NoJournal)

LEMMA FinalStep == ASSUME IInv, Next PROVE Final
<1> SUFFICES ASSUME Committed PROVE Final
  BY DEF Final, Committed
<1>1. Control
  BY DEF IInv
<1> USE DEF Committed, Uncommitted, InCommit, InRollback, CommitSteps,
            JournalSteps, Final
<1>2. journal' \in {journal, NoJournal}
  BY <1>1, JournalRemoval DEF IInv, ReplaceJournal, Control
<1>3. ASSUME NEW f \in Files, StoreSave(f) PROVE FALSE
  BY <1>1, <1>3 DEF StoreSave, Control
<1>4. ~MoveBackup /\ ~Publish
  BY <1>1 DEF MoveBackup, Publish, Control
<1>5. ~UndoRemovePublished /\ ~UndoRestoreBackup /\ ~UndoRemoveCreated
  BY <1>1 DEF UndoRemovePublished, UndoRestoreBackup, UndoRemoveCreated, Control
<1>6. CASE Exit \/ Begin \/ Crash \/ Fault
  BY <1>6 DEF Exit, Begin, Crash, Fault, CommitFault, CleanupFault,
     UndoFault, EndRollbackFault, RecoverFault, disk
<1>7. CASE Commit
  BY <1>2, <1>4, <1>7 DEF Commit, WriteJournalTmp, ReplaceJournal, Inspect,
     ClearArtifacts, OpenTemp, FlushTemp, Seal, CleanItem, DropJournal, disk
<1>8. CASE Rollback
  BY <1>5, <1>8 DEF Rollback, UndoCreatedMissing, UndoNothing, UndoTemp,
     RollbackIncomplete, RollbackDone, RollbackDropTmp, disk
<1>9. CASE Recover
  BY <1>9 DEF Recover, Boot, FinishItem, FinishJournal, FinishTmp, disk
<1>10. dest' = dest
  BY <1>3, <1>6, <1>7, <1>8, <1>9 DEF Next
<1> QED
  BY <1>2, <1>10

(* After the commit point no step changes a destination. *)
THEOREM CommitIsFinal == Spec => CommittedIsFinal
<1>1. IInv /\ [Next]_vars => [Final]_vars
  BY FinalStep
<1> QED
  BY <1>1, Invariant, PTL DEF Spec, CommittedIsFinal, Final

-----------------------------------------------------------------------------
(* Refinement *)

(* What the next start would load, in terms of the transaction.            *)
Views ==
  \A f \in Files :
    /\ Recovered(f) \in Payloads \cup Saves \cup {Absent}
    /\ ~Uncommitted => Recovered(f) = dest[f]
    /\ Uncommitted /\ f \notin atRisk => Recovered(f) = orig[f]

LEMMA ViewsHold == IInv => Views
<1> SUFFICES ASSUME IInv, NEW f \in Files
             PROVE /\ Recovered(f) \in Payloads \cup Saves \cup {Absent}
                   /\ ~Uncommitted => Recovered(f) = dest[f]
                   /\ Uncommitted /\ f \notin atRisk => Recovered(f) = orig[f]
  BY DEF Views
<1> USE DEF IInv, Uncommitted
<1>1. Recovered(f) \in Payloads \cup Saves \cup {Absent}
  <2>1. dest[f] \in Data \ {Partial} /\ backup[f] \in Data \ {Partial}
    BY DEF TypeOK, Whole
  <2> QED
    BY <2>1 DEF Recovered, Data
<1>2. ~Uncommitted => Recovered(f) = dest[f]
  BY DEF Recovered
<1>3. ASSUME Uncommitted, f \notin atRisk PROVE Recovered(f) = orig[f]
  <2>1. Undoable(journal, f) /\ Truthful(journal)
    BY <1>3 DEF Backups, Records
  <2>2. f \in journal.prepared \ journal.hadOriginal => orig[f] = Absent
    BY <2>1 DEF Truthful
  <2> QED
    BY <1>3, <2>1, <2>2 DEF Undoable, Truthful, Recovered
<1> QED
  BY <1>1, <1>2, <1>3

(* What the steps of the transaction, unlike those of the stores, may do.  *)
LEMMA TransactionStep ==
  ASSUME IInv, Next, ~(\E f \in Files : StoreSave(f))
  PROVE /\ atRisk' = atRisk \/ (RollbackDone /\ atRisk' = {})
        /\ journal = NoJournal =>
             dest' = dest /\ (journal' = journal \/ ReplaceJournal)
        /\ journal # NoJournal => orig' = orig
        /\ Committed => dest' = dest /\ journal' \in {journal, NoJournal}
        /\ Uncommitted => journal' = journal \/ RollbackDone \/ ReplaceJournal
<1>1. atRisk' = atRisk \/ (RollbackDone /\ atRisk' = {})
  BY DEF Next, Commit, Rollback, Recover, Fault, Begin, Exit, Crash,
     WriteJournalTmp, ReplaceJournal, Inspect, ClearArtifacts, OpenTemp,
     FlushTemp, MoveBackup, Publish, Seal, CleanItem, DropJournal,
     UndoRemovePublished, UndoRestoreBackup, UndoRemoveCreated,
     UndoCreatedMissing, UndoNothing, UndoTemp, RollbackIncomplete,
     RollbackDone, RollbackDropTmp, Boot, FinishItem, FinishJournal, FinishTmp,
     CommitFault, CleanupFault, UndoFault, EndRollbackFault, RecoverFault,
     ghosts
<1>2. journal # NoJournal => orig' = orig
  BY DEF Next, Commit, Rollback, Recover, Fault, Begin, SlotFree, Exit, Crash,
     WriteJournalTmp, ReplaceJournal, Inspect, ClearArtifacts, OpenTemp,
     FlushTemp, MoveBackup, Publish, Seal, CleanItem, DropJournal,
     UndoRemovePublished, UndoRestoreBackup, UndoRemoveCreated,
     UndoCreatedMissing, UndoNothing, UndoTemp, RollbackIncomplete,
     RollbackDone, RollbackDropTmp, Boot, FinishItem, FinishJournal, FinishTmp,
     CommitFault, CleanupFault, UndoFault, EndRollbackFault, RecoverFault,
     ghosts
<1>3. Committed => dest' = dest /\ journal' \in {journal, NoJournal}
  BY FinalStep DEF Final, Committed
<1>4. Uncommitted => journal' = journal \/ RollbackDone \/ ReplaceJournal
  BY JournalRemoval DEF IInv, Uncommitted, Control, Committed, CleanSteps,
                        DropJournal, FinishJournal
<1>5. journal = NoJournal => dest' = dest /\ (journal' = journal \/ ReplaceJournal)
  <2> SUFFICES ASSUME journal = NoJournal
               PROVE dest' = dest /\ (journal' = journal \/ ReplaceJournal)
    OBVIOUS
  <2>1. ~InRollback /\ (InCommit => pc \in JournalSteps)
    BY DEF IInv, Control, Uncommitted
  <2>2. CASE Begin \/ Exit \/ Crash \/ Fault
    BY <2>2 DEF Begin, Exit, Crash, Fault, CommitFault, CleanupFault, UndoFault,
       EndRollbackFault, RecoverFault, disk
  <2>3. CASE Commit
    BY <2>1, <2>3 DEF Commit, WriteJournalTmp, ReplaceJournal, Inspect,
       ClearArtifacts, OpenTemp, FlushTemp, MoveBackup, Publish, Seal,
       CleanItem, DropJournal, disk, InCommit, CommitSteps, JournalSteps
  <2>4. CASE Rollback
    BY <2>1, <2>4 DEF Rollback, UndoRemovePublished, UndoRestoreBackup,
       UndoRemoveCreated, UndoCreatedMissing, UndoNothing, UndoTemp,
       RollbackIncomplete, RollbackDone, RollbackDropTmp, InRollback
  <2>5. CASE Recover
    BY <2>5 DEF Recover, Boot, FinishItem, FinishJournal, FinishTmp, disk
  <2> QED
    BY <2>2, <2>3, <2>4, <2>5 DEF Next
<1> QED
  BY <1>1, <1>2, <1>3, <1>4, <1>5

(* A save reaches what is stored, or is covered by the pending roll-back.  *)
LEMMA SaveMaps ==
  ASSUME IInv, NEW f \in Files, StoreSave(f) PROVE Abstract!Save(f)
<1> DEFINE m == [g \in Files |-> Recovered(g)]
<1>1. /\ journal' = journal /\ temp' = temp /\ backup' = backup
      /\ \E v \in Saves : dest' = [dest EXCEPT ![f] = v]
      /\ dest \in [Files -> Data]
  BY DEF StoreSave, IInv, TypeOK
<1>2. PICK v \in Saves : dest' = [dest EXCEPT ![f] = v]
  BY <1>1
<1>3. ASSUME NEW g \in Files, g # f PROVE Recovered(g)' = Recovered(g)
  BY <1>1, <1>2, <1>3 DEF Recovered
<1>4. Recovered(f)' \in {v, Recovered(f)}
  BY <1>1, <1>2 DEF Recovered
<1>5. journal = NoJournal => Recovered(f)' = v
  BY <1>1, <1>2 DEF Recovered
<1>6. atRisk' = IF journal = NoJournal THEN atRisk ELSE atRisk \cup {f}
  BY DEF StoreSave
<1>7. m' = [m EXCEPT ![f] = Recovered(f)']
  BY <1>3
<1>8. CASE Recovered(f)' = v
  BY <1>6, <1>7, <1>8 DEF Abstract!Save
<1>9. CASE Recovered(f)' # v
  <2>1. m' = m /\ f \in atRisk'
    BY <1>4, <1>5, <1>6, <1>7, <1>9
  <2> QED
    BY <1>6, <2>1 DEF Abstract!Save
<1> QED
  BY <1>8, <1>9

(* Every other step restores all files at once, takes back saves at risk,  *)
(* or is invisible.                                                        *)
LEMMA TransactionMaps ==
  ASSUME IInv, IInv', Views, Views', Next, ~(\E f \in Files : StoreSave(f))
  PROVE  Abstract!Restore \/ Abstract!Undo \/ UNCHANGED Abstract!vars
<1> DEFINE m == [g \in Files |-> Recovered(g)]
<1> USE DEF Uncommitted, Committed
<1>1. CASE journal = NoJournal
  <2>1. /\ atRisk = {} /\ atRisk' = {} /\ dest' = dest
        /\ journal' = journal \/ ReplaceJournal
    BY <1>1, TransactionStep DEF IInv, Control, RollbackDone
  <2>2. CASE journal' = journal
    <3>1. \A f \in Files : Recovered(f)' = Recovered(f)
      BY <1>1, <2>1, <2>2 DEF Views
    <3> QED
      BY <2>1, <3>1 DEF Abstract!vars
  <2>3. CASE ReplaceJournal
    <3>1. dest = orig /\ state = FreshState /\ orig' = orig /\ journal' = state
      BY <1>1, <2>3 DEF ReplaceJournal, IInv, Progress, InCommit, JournalSteps,
                        ghosts
    <3>2. \A f \in Files : Recovered(f)' = Recovered(f)
      BY <1>1, <2>1, <3>1 DEF Views, FreshState
    <3> QED
      BY <2>1, <3>2 DEF Abstract!vars
  <2> QED
    BY <2>1, <2>2, <2>3
<1>2. CASE Committed
  <2>1. atRisk = {} /\ atRisk' = {} /\ dest' = dest
        /\ journal' \in {journal, NoJournal}
    BY <1>2, TransactionStep DEF IInv, Control
  <2>2. \A f \in Files : Recovered(f)' = Recovered(f)
    BY <1>2, <2>1 DEF Views
  <2> QED
    BY <2>1, <2>2 DEF Abstract!vars
<1>3. CASE Uncommitted
  <2>1. orig' = orig /\ (journal' = journal \/ RollbackDone \/ ReplaceJournal)
    BY <1>3, TransactionStep
  <2>2. ASSUME \A f \in Files \ atRisk : Recovered(f)' = Recovered(f),
               atRisk' \in {atRisk, {}}
        PROVE  Abstract!Undo \/ UNCHANGED Abstract!vars
    <3>1. m' \in [Files -> Saves \cup Payloads \cup {Absent}]
      BY DEF Views
    <3>2. CASE atRisk = {}
      BY <2>2, <3>2 DEF Abstract!vars
    <3>3. CASE atRisk # {}
      BY <2>2, <3>1, <3>3 DEF Abstract!Undo
    <3> QED
      BY <3>2, <3>3
  <2>3. CASE journal' = journal
    <3>1. atRisk' = atRisk
      BY <1>3, <2>3, TransactionStep DEF RollbackDone
    <3>2. \A f \in Files \ atRisk : Recovered(f)' = Recovered(f)
      BY <1>3, <2>1, <2>3, <3>1 DEF Views
    <3> QED
      BY <2>2, <3>1, <3>2
  <2>4. CASE RollbackDone
    <3>1. /\ atRisk' = {} /\ journal' = NoJournal /\ dest' = dest
          /\ \A f \in Files \ atRisk : dest[f] = orig[f]
      BY <2>4 DEF RollbackDone, KeepJournal, IInv, Progress, Restored
    <3>2. \A f \in Files \ atRisk : Recovered(f)' = Recovered(f)
      BY <1>3, <3>1 DEF Views
    <3> QED
      BY <2>2, <3>1, <3>2
  <2>5. CASE ReplaceJournal
    <3>1. /\ atRisk = {} /\ atRisk' = {} /\ journal' = state /\ state \in JournalState
          /\ dest' = dest /\ payload' = payload
      BY <2>5 DEF ReplaceJournal, IInv, TypeOK, Control, InCommit, JournalSteps,
                  ghosts, memory
    <3>2. CASE ~state.committed
      <4>1. \A f \in Files : Recovered(f)' = Recovered(f)
        BY <1>3, <2>1, <3>1, <3>2, NoJournalAssumption DEF Views
      <4> QED
        BY <3>1, <4>1 DEF Abstract!vars
    <3>3. CASE state.committed
      <4>1. Committed'
        BY <3>1, <3>3, NoJournalAssumption
      <4>2. dest' = [f \in Files |-> payload'] /\ payload' \in Payloads
        BY <4>1 DEF IInv, Progress, TypeOK
      <4>3. m' = [f \in Files |-> payload']
        BY <4>1, <4>2 DEF Views
      <4> QED
        BY <3>1, <4>2, <4>3 DEF Abstract!Restore
    <3> QED
      BY <3>2, <3>3
  <2> QED
    BY <2>1, <2>3, <2>4, <2>5
<1> QED
  BY <1>1, <1>2, <1>3

(* Whatever crashes and failures do, a restore is atomic: RestoreTransaction *)
(* implements AtomicRestore.                                                 *)
THEOREM Refinement == Spec => ImplementsAtomicRestore
<1>1. Init => Abstract!Init
  <2> SUFFICES ASSUME Init PROVE Abstract!Init
    OBVIOUS
  <2>1. \A f \in Files : Recovered(f) = dest[f]
    BY DEF Init, Recovered
  <2>2. dest \in [Files -> Saves \cup {Absent}]
    BY DEF Init
  <2>3. [f \in Files |-> Recovered(f)] \in [Files -> Saves \cup {Absent}]
    BY <2>1, <2>2
  <2> QED
    BY <2>3 DEF Init, Abstract!Init
<1>2. IInv /\ IInv' /\ Views /\ Views' /\ [Next]_vars => [Abstract!Next]_(Abstract!vars)
  <2> SUFFICES ASSUME IInv, IInv', Views, Views', [Next]_vars
               PROVE  [Abstract!Next]_(Abstract!vars)
    OBVIOUS
  <2>1. CASE \E f \in Files : StoreSave(f)
    BY <2>1, SaveMaps DEF Abstract!Next
  <2>2. CASE Next /\ ~(\E f \in Files : StoreSave(f))
    BY <2>2, TransactionMaps DEF Abstract!Next
  <2>3. CASE UNCHANGED vars
    BY <2>3 DEF vars, disk, ghosts, Abstract!vars, Recovered
  <2> QED
    BY <2>1, <2>2, <2>3
<1> QED
  BY <1>1, <1>2, Invariant, ViewsHold, PTL
  DEF Spec, ImplementsAtomicRestore, Abstract!Spec
=============================================================================
