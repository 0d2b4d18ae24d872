-------------------------- MODULE RestoreTransaction --------------------------
(***************************************************************************)
(* RestoreTransaction::commit, rollback_state and recover_interrupted      *)
(* (src/src/restore_transaction.cpp), called by "data restore" and, before *)
(* any store is loaded, by StartupRestoreRecovery.                         *)
(*                                                                         *)
(* A transaction replaces files 1..N, in that order.  Every file-system    *)
(* call is one step; between two calls the process may be killed (Crash),  *)
(* and every call may fail by throwing (Fault).  The state of the disk     *)
(* survives a crash, the transaction's memory does not.                    *)
(*                                                                         *)
(* Artifact names contain the transaction's token, so they never collide   *)
(* with another transaction's; temp and backup are the artifacts of the    *)
(* one transaction a journal can describe.                                 *)
(***************************************************************************)
EXTENDS Integers

CONSTANTS N,         \* number of files in the transaction
          Payloads,  \* contents that archives hold
          Saves,     \* contents that running stores write
          Absent,    \* no such file
          Partial,   \* a file that was opened and not completely written
          NoJournal, \* the recovery journal does not exist
          MaxCrashes, MaxFaults  \* bounds of the environment

ASSUME NAssumption == N \in Nat \ {0}
ASSUME BoundsAssumption == MaxCrashes \in Nat /\ MaxFaults \in Nat
ASSUME ContentAssumption ==
         /\ Absent \notin Payloads \cup Saves
         /\ Partial \notin Payloads \cup Saves \cup {Absent}

Files == 1..N
Data == Payloads \cup Saves \cup {Absent, Partial}

(* The phase, and for each flag of ItemState the items that have it set.   *)
JournalState ==
  [committed : BOOLEAN, prepared : SUBSET Files, hadOriginal : SUBSET Files,
   backupMoved : SUBSET Files, published : SUBSET Files]

ASSUME NoJournalAssumption == NoJournal \notin JournalState

FreshState == [committed |-> FALSE, prepared |-> {}, hadOriginal |-> {},
               backupMoved |-> {}, published |-> {}]

VARIABLES
  dest, temp, backup,  \* the three files of each item, on disk
  journal, journalTmp, \* the recovery journal and its ".tmp" sibling, on disk
  pc,                  \* the file-system call the program makes next
  resume,              \* where write_journal returns to
  cur,                 \* the item the loops stand at
  state,               \* JournalState held in memory
  payload,             \* contents of the archive being restored
  failed,              \* rollback_state's first_error is set
  booting,             \* this code runs in StartupRestoreRecovery
  crashes, faults,     \* how much of the environment's budget is spent
  orig,                \* ghost: dest before the transaction
  atRisk,              \* ghost: files saved while a journal was pending
  faulted              \* ghost: a call has failed since the program started

disk == <<dest, temp, backup, journal, journalTmp>>
memory == <<resume, cur, state, payload, failed, booting>>
ghosts == <<orig, atRisk, faulted>>
vars == <<disk, pc, memory, crashes, faults, ghosts>>

Off == {"off", "bootFailed"}
CommitSteps == {"inspect", "clear", "stage", "flush", "moveBackup", "publish",
                "seal"}
JournalSteps == {"writeTmp", "replace"}
CleanSteps == {"cleanup", "dropJournal"}
RollbackSteps == {"undo", "undoTemp", "endRollback", "dropTmp"}
RecoverSteps == {"finish", "finishJournal", "finishTmp", "orphan"}
Steps == CommitSteps \cup JournalSteps \cup CleanSteps \cup RollbackSteps
           \cup RecoverSteps

Init ==
  /\ dest \in [Files -> Saves \cup {Absent}]
  /\ temp = [f \in Files |-> Absent]
  /\ backup = [f \in Files |-> Absent]
  /\ journal = NoJournal
  /\ journalTmp = FALSE
  /\ pc = "running"
  /\ resume = "inspect"
  /\ cur = 1
  /\ state = FreshState
  /\ payload \in Payloads
  /\ failed = FALSE
  /\ booting = FALSE
  /\ crashes = 0
  /\ faults = 0
  /\ orig = dest
  /\ atRisk = {}
  /\ faulted = FALSE

-----------------------------------------------------------------------------
(* The running program *)

(* A store writes its file while the program runs: after a failed restore  *)
(* the settings and journal stores go on saving, journal or no journal.    *)
StoreSave(f) ==
  /\ pc = "running"
  /\ \E v \in Saves : dest' = [dest EXCEPT ![f] = v]
  /\ atRisk' = IF journal = NoJournal THEN atRisk ELSE atRisk \cup {f}
  /\ UNCHANGED <<temp, backup, journal, journalTmp, pc, memory, crashes,
                 faults, orig, faulted>>

(* commit(): prepare_items_common and prepare_recovery_slot, which refuses *)
(* an existing journal and removes an orphan ".tmp".                       *)
SlotFree == journal = NoJournal

Begin ==
  /\ pc = "running"
  /\ SlotFree
  /\ journalTmp' = FALSE
  /\ state' = FreshState
  /\ payload' \in Payloads
  /\ orig' = dest
  /\ pc' = "writeTmp" /\ resume' = "inspect" /\ cur' = 1
  /\ failed' = FALSE /\ booting' = FALSE
  /\ UNCHANGED <<dest, temp, backup, journal, crashes, faults, atRisk, faulted>>

Exit ==
  /\ pc = "running"
  /\ pc' = "off"
  /\ UNCHANGED <<disk, memory, crashes, faults, ghosts>>

-----------------------------------------------------------------------------
(* write_journal: the new state goes to the ".tmp" file, which is flushed  *)
(* and then moved over the journal in one write-through rename.            *)
WriteJournalTmp ==
  /\ pc = "writeTmp"
  /\ journalTmp' = TRUE
  /\ pc' = "replace"
  /\ UNCHANGED <<dest, temp, backup, journal, memory, crashes, faults, ghosts>>

ReplaceJournal ==
  /\ pc = "replace"
  /\ journal' = state
  /\ journalTmp' = FALSE
  /\ pc' = resume
  /\ UNCHANGED <<dest, temp, backup, memory, crashes, faults, ghosts>>

(* Save the state in memory and go on at step r. *)
Journalling(r) == pc' = "writeTmp" /\ resume' = r

-----------------------------------------------------------------------------
(* commit_items: the loop over the items *)

(* Another item follows in the loops that run forward. *)
MoreItems == cur < N

Existing(files) == {f \in files : dest[f] # Absent}

(* The destination is looked at and the item recorded as prepared. *)
Inspect ==
  /\ pc = "inspect"
  /\ state' = [state EXCEPT !.prepared = @ \cup {cur},
                            !.hadOriginal = @ \cup Existing({cur})]
  /\ Journalling("clear")
  /\ UNCHANGED <<disk, cur, payload, failed, booting, crashes, faults, ghosts>>

(* remove_expected_file_if_exists on both artifacts *)
ClearArtifacts ==
  /\ pc = "clear"
  /\ temp' = [temp EXCEPT ![cur] = Absent]
  /\ backup' = [backup EXCEPT ![cur] = Absent]
  /\ pc' = "stage"
  /\ UNCHANGED <<dest, journal, journalTmp, memory, crashes, faults, ghosts>>

(* prepare_temporary: the file is created, then written and flushed. *)
OpenTemp ==
  /\ pc = "stage"
  /\ temp' = [temp EXCEPT ![cur] = Partial]
  /\ pc' = "flush"
  /\ UNCHANGED <<dest, backup, journal, journalTmp, memory, crashes, faults,
                 ghosts>>

AfterStaging == IF cur \in state.hadOriginal THEN "moveBackup" ELSE "publish"

FlushTemp ==
  /\ pc = "flush"
  /\ temp' = [temp EXCEPT ![cur] = payload]
  /\ pc' = AfterStaging
  /\ UNCHANGED <<dest, backup, journal, journalTmp, memory, crashes, faults,
                 ghosts>>

MoveBackup ==
  /\ pc = "moveBackup"
  /\ backup' = [backup EXCEPT ![cur] = dest[cur]]
  /\ dest' = [dest EXCEPT ![cur] = Absent]
  /\ state' = [state EXCEPT !.backupMoved = @ \cup {cur}]
  /\ Journalling("publish")
  /\ UNCHANGED <<temp, journal, journalTmp, cur, payload, failed, booting,
                 crashes, faults, ghosts>>

Publish ==
  /\ pc = "publish"
  /\ dest' = [dest EXCEPT ![cur] = temp[cur]]
  /\ temp' = [temp EXCEPT ![cur] = Absent]
  /\ state' = [state EXCEPT !.published = @ \cup {cur}]
  /\ IF MoreItems
       THEN cur' = cur + 1 /\ Journalling("inspect")
       ELSE cur' = cur /\ Journalling("seal")
  /\ UNCHANGED <<backup, journal, journalTmp, payload, failed, booting,
                 crashes, faults, ghosts>>

(* Mutant: the journal goes before the artifacts. *)
AfterSealMut == "dropJournal"

(* The commit point: "committed" is set and made durable. *)
AfterSeal == "cleanup"

Seal ==
  /\ pc = "seal"
  /\ state' = [state EXCEPT !.committed = TRUE]
  /\ cur' = 1
  /\ Journalling(AfterSeal)
  /\ UNCHANGED <<disk, payload, failed, booting, crashes, faults, ghosts>>

(* Backups go only now; then the journal, and the program exits. *)
CleanItem ==
  /\ pc = "cleanup"
  /\ backup' = [backup EXCEPT ![cur] = Absent]
  /\ temp' = [temp EXCEPT ![cur] = Absent]
  /\ IF MoreItems THEN cur' = cur + 1 /\ pc' = pc
                ELSE cur' = cur /\ pc' = "dropJournal"
  /\ UNCHANGED <<dest, journal, journalTmp, resume, state, payload, failed,
                 booting, crashes, faults, ghosts>>

DropJournal ==
  /\ pc = "dropJournal"
  /\ journal' = NoJournal
  /\ pc' = "off"
  /\ UNCHANGED <<dest, temp, backup, journalTmp, memory, crashes, faults, ghosts>>

-----------------------------------------------------------------------------
(* rollback_state: the items in reverse order; an exception on one item is *)
(* remembered and the loop goes on with the next.                          *)

(* Item cur is done: go on with the one before it. *)
NextUndo ==
  IF cur > 1 THEN cur' = cur - 1 /\ pc' = "undo"
             ELSE cur' = cur /\ pc' = "endRollback"

(* Mutant: a publish that was not journaled is overlooked. *)
CreatedHereMut ==
  /\ cur \in state.prepared \ state.hadOriginal
  /\ cur \in state.published

(* Without a backup, was the destination created by this transaction? *)
CreatedHere ==
  /\ cur \in state.prepared \ state.hadOriginal
  /\ cur \in state.published \/ (temp[cur] = Absent /\ dest[cur] # Absent)

(* The published file makes room for the original. *)
UndoRemovePublished ==
  /\ pc = "undo"
  /\ backup[cur] # Absent /\ dest[cur] # Absent
  /\ dest' = [dest EXCEPT ![cur] = Absent]
  /\ UNCHANGED <<temp, backup, journal, journalTmp, pc, memory, crashes,
                 faults, ghosts>>

UndoRestoreBackup ==
  /\ pc = "undo"
  /\ backup[cur] # Absent /\ dest[cur] = Absent
  /\ dest' = [dest EXCEPT ![cur] = backup[cur]]
  /\ backup' = [backup EXCEPT ![cur] = Absent]
  /\ pc' = "undoTemp"
  /\ UNCHANGED <<temp, journal, journalTmp, memory, crashes, faults, ghosts>>

UndoRemoveCreated ==
  /\ pc = "undo"
  /\ backup[cur] = Absent /\ CreatedHere /\ dest[cur] # Absent
  /\ dest' = [dest EXCEPT ![cur] = Absent]
  /\ pc' = "undoTemp"
  /\ UNCHANGED <<temp, backup, journal, journalTmp, memory, crashes, faults,
                 ghosts>>

(* The file to remove is not there: remove() returns false, which throws. *)
UndoCreatedMissing ==
  /\ pc = "undo"
  /\ backup[cur] = Absent /\ CreatedHere /\ dest[cur] = Absent
  /\ failed' = TRUE
  /\ NextUndo
  /\ UNCHANGED <<disk, resume, state, payload, booting, crashes, faults, ghosts>>

UndoNothing ==
  /\ pc = "undo"
  /\ backup[cur] = Absent /\ ~CreatedHere
  /\ pc' = "undoTemp"
  /\ UNCHANGED <<disk, memory, crashes, faults, ghosts>>

UndoTemp ==
  /\ pc = "undoTemp"
  /\ temp' = [temp EXCEPT ![cur] = Absent]
  /\ NextUndo
  /\ UNCHANGED <<dest, backup, journal, journalTmp, resume, state, payload,
                 failed, booting, crashes, faults, ghosts>>

(* Where an exception out of rollback_state or recover_interrupted leads:  *)
(* data_command reports it and the program runs on; App's constructor does *)
(* not survive it.                                                         *)
Thrown == IF booting THEN "bootFailed" ELSE "running"

(* Mutant: an incomplete rollback drops its journal. *)
KeepJournalMut == FALSE

(* After an incomplete rollback the journal stays. *)
KeepJournal == failed

RollbackIncomplete ==
  /\ pc = "endRollback"
  /\ KeepJournal
  /\ pc' = Thrown
  /\ UNCHANGED <<disk, memory, crashes, faults, ghosts>>

RollbackDone ==
  /\ pc = "endRollback"
  /\ ~KeepJournal
  /\ journal' = NoJournal
  /\ pc' = "dropTmp"
  /\ atRisk' = {}
  /\ UNCHANGED <<dest, temp, backup, journalTmp, memory, crashes, faults, orig,
                 faulted>>

(* remove(temporary_journal, error): the error is ignored. *)
RollbackDropTmp ==
  /\ pc = "dropTmp"
  /\ journalTmp' = FALSE
  /\ pc' = "running"
  /\ UNCHANGED <<dest, temp, backup, journal, memory, crashes, faults, ghosts>>

-----------------------------------------------------------------------------
(* StartupRestoreRecovery::recover_before_store_load *)

(* Mutant: a backup is expected for every original. *)
AcceptsMut(j) == j.hadOriginal \subseteq j.backupMoved

(* What validate_recovery_state demands of a journal's flags. *)
Accepts(j) ==
  /\ j.hadOriginal \cup j.backupMoved \cup j.published \subseteq j.prepared
  /\ j.backupMoved \subseteq j.hadOriginal
  /\ j.committed => j.published = Files

(* Mutant: recovery rolls back whatever the phase. *)
BootStepMut ==
  IF journal = NoJournal THEN (IF journalTmp THEN "orphan" ELSE "running")
  ELSE IF ~Accepts(journal) THEN "bootFailed"
  ELSE "undo"

BootStep ==
  IF journal = NoJournal THEN (IF journalTmp THEN "orphan" ELSE "running")
  ELSE IF ~Accepts(journal) THEN "bootFailed"
  ELSE IF journal.committed THEN "finish" ELSE "undo"

Boot ==
  /\ pc \in Off
  /\ pc' = BootStep
  /\ state' = IF journal = NoJournal THEN FreshState ELSE journal
  /\ cur' = IF BootStep = "undo" THEN N ELSE 1
  /\ failed' = FALSE /\ booting' = TRUE /\ faulted' = FALSE
  /\ UNCHANGED <<disk, resume, payload, crashes, faults, orig, atRisk>>

(* A journal that says "committed": only cleaning up is left. *)
FinishItem ==
  /\ pc = "finish"
  /\ temp' = [temp EXCEPT ![cur] = Absent]
  /\ backup' = [backup EXCEPT ![cur] = Absent]
  /\ IF MoreItems THEN cur' = cur + 1 /\ pc' = pc
                ELSE cur' = cur /\ pc' = "finishJournal"
  /\ UNCHANGED <<dest, journal, journalTmp, resume, state, payload, failed,
                 booting, crashes, faults, ghosts>>

FinishJournal ==
  /\ pc = "finishJournal"
  /\ journal' = NoJournal
  /\ pc' = "finishTmp"
  /\ UNCHANGED <<dest, temp, backup, journalTmp, memory, crashes, faults, ghosts>>

(* Remove the ".tmp": after a committed journal, or an orphan on its own. *)
FinishTmp ==
  /\ pc \in {"finishTmp", "orphan"}
  /\ journalTmp' = FALSE
  /\ pc' = "running"
  /\ UNCHANGED <<dest, temp, backup, journal, memory, crashes, faults, ghosts>>

-----------------------------------------------------------------------------
(* The environment *)

(* The process is killed between two file-system calls. *)
Crash ==
  /\ pc \in Steps
  /\ crashes < MaxCrashes
  /\ crashes' = crashes + 1
  /\ pc' = "off"
  /\ state' = FreshState /\ resume' = "inspect" /\ cur' = 1
  /\ failed' = FALSE /\ booting' = FALSE
  /\ UNCHANGED <<disk, payload, faults, ghosts>>

Failing == faults < MaxFaults /\ faults' = faults + 1 /\ faulted' = TRUE

(* A call of commit() fails.  Before the first journal is in place the     *)
(* exception leaves commit; inside the try block it starts the rollback.   *)
(* A failed write may leave a partial temporary file.                      *)
CommitFault ==
  /\ pc \in (CommitSteps \ {"seal"}) \cup JournalSteps
  /\ Failing
  /\ IF journal = NoJournal
       THEN pc' = "running" /\ cur' = cur
       ELSE pc' = "undo" /\ cur' = N
  /\ \/ UNCHANGED journalTmp
     \/ pc = "writeTmp" /\ journalTmp' = TRUE
  /\ \/ UNCHANGED temp
     \/ pc = "stage" /\ temp' = [temp EXCEPT ![cur] = Partial]
  /\ UNCHANGED <<dest, backup, journal, resume, state, payload, failed,
                 booting, crashes, orig, atRisk>>

(* After the commit point a failure only leaves the cleanup pending. *)
CleanupFault ==
  /\ pc \in CleanSteps
  /\ Failing
  /\ pc' = "off"
  /\ UNCHANGED <<disk, memory, crashes, orig, atRisk>>

UndoFault ==
  /\ pc \in {"undo", "undoTemp"}
  /\ Failing
  /\ failed' = TRUE
  /\ NextUndo
  /\ UNCHANGED <<disk, resume, state, payload, booting, crashes, orig, atRisk>>

EndRollbackFault ==
  /\ pc \in {"endRollback", "dropTmp"}
  /\ ~failed
  /\ Failing
  /\ pc' = IF pc = "dropTmp" THEN "running" ELSE Thrown
  /\ UNCHANGED <<disk, memory, crashes, orig, atRisk>>

RecoverFault ==
  /\ pc \in RecoverSteps
  /\ Failing
  /\ pc' = "bootFailed"
  /\ UNCHANGED <<disk, memory, crashes, orig, atRisk>>

Fault == CommitFault \/ CleanupFault \/ UndoFault \/ EndRollbackFault
           \/ RecoverFault

-----------------------------------------------------------------------------
Commit == \/ WriteJournalTmp \/ ReplaceJournal
          \/ Inspect \/ ClearArtifacts \/ OpenTemp \/ FlushTemp \/ MoveBackup
          \/ Publish \/ Seal \/ CleanItem \/ DropJournal

Rollback == \/ UndoRemovePublished \/ UndoRestoreBackup \/ UndoRemoveCreated
            \/ UndoCreatedMissing \/ UndoNothing \/ UndoTemp
            \/ RollbackIncomplete \/ RollbackDone \/ RollbackDropTmp

Recover == Boot \/ FinishItem \/ FinishJournal \/ FinishTmp

Next == \/ \E f \in Files : StoreSave(f)
        \/ Begin \/ Exit
        \/ Commit \/ Rollback \/ Recover
        \/ Crash \/ Fault

Spec == Init /\ [][Next]_vars

(* The program's own steps are sequential code that keeps running, and a   *)
(* user whose program is not running starts it again.  Nothing is assumed  *)
(* of the stores, of new restores, or of the environment.                  *)
Fairness == WF_vars(Commit) /\ WF_vars(Rollback) /\ WF_vars(Recover)

FairSpec == Spec /\ Fairness

-----------------------------------------------------------------------------
(* Properties *)

TypeOK ==
  /\ dest \in [Files -> Data] /\ temp \in [Files -> Data]
  /\ backup \in [Files -> Data] /\ orig \in [Files -> Data]
  /\ journal \in JournalState \cup {NoJournal}
  /\ journalTmp \in BOOLEAN
  /\ pc \in Steps \cup Off \cup {"running"}
  /\ resume \in {"inspect", "clear", "publish", "seal", "cleanup"}
  /\ cur \in Files
  /\ state \in JournalState
  /\ payload \in Payloads
  /\ failed \in BOOLEAN /\ booting \in BOOLEAN /\ faulted \in BOOLEAN
  /\ crashes \in Nat /\ faults \in Nat
  /\ atRisk \subseteq Files

(* Until the commit point is durable, the original of every file exists    *)
(* somewhere on the disk, under its own name or as the backup: no crash or *)
(* failure of commit_items or rollback_state, at any call, loses it.       *)
OriginalsKept ==
  (journal # NoJournal /\ ~journal.committed) =>
     \A f \in Files \ atRisk :
        orig[f] # Absent => orig[f] \in {dest[f], backup[f]}

(* Once the journal is gone, so is every artifact of the transaction:      *)
(* rollback and cleanup remove the journal last.                           *)
NoOrphanArtifacts ==
  journal = NoJournal =>
     \A f \in Files : temp[f] = Absent /\ backup[f] = Absent

(* Every journal that write_journal publishes passes the validation that   *)
(* recovery applies to it, so no crash point makes recovery refuse it.     *)
JournalAccepted == journal # NoJournal => Accepts(journal)

(* A start that meets no failing call gets through recovery: restore intent *)
(* is recorded "so startup can roll back unfinished work".                 *)
StartupNotStuck == pc = "bootFailed" => faulted

(* Wherever the process dies: without a journal no artifact remains, the   *)
(* flags of a journal pass the validation of recovery, and when every file *)
(* existed before the restore a start fails only if one of its own calls   *)
(* fails.  Of a file that did not exist the last is false: see             *)
(* StartupNotStuck.                                                        *)
AlwaysRecoverable ==
  /\ NoOrphanArtifacts /\ JournalAccepted
  /\ (\A f \in Files : orig[f] # Absent) => StartupNotStuck

(* The journal is removed only when its transaction is settled: every file *)
(* holds the archive's contents if the commit point was reached, and every *)
(* file what it held before if not (but for saves made meanwhile).         *)
SettledBeforeRemoval ==
  [][ (journal # NoJournal /\ journal' = NoJournal) =>
         \/ journal.committed /\ dest' = [f \in Files |-> payload]
         \/ ~journal.committed /\ \A f \in Files \ atRisk : dest'[f] = orig[f]
    ]_vars

(* From the commit point on nothing touches the published files: cleanup   *)
(* failures and restarts never undo a restore that was reported or could   *)
(* be reported as committed.                                               *)
CommittedIsFinal ==
  [][ (journal # NoJournal /\ journal.committed) =>
         dest' = dest /\ (journal' = journal \/ journal' = NoJournal) ]_vars

(* After finitely many crashes and failures the program runs again, when   *)
(* every destination existed before the restore (StartupNotStuck says what *)
(* happens to a file that did not).                                        *)
RecoveryCompletes ==
  (pc \in Off \cup Steps /\ \A f \in Files : orig[f] # Absent) ~> (pc = "running")

(* What the next start loads from each file. *)
Recovered(f) ==
  IF journal = NoJournal \/ journal.committed THEN dest[f]
  ELSE IF backup[f] # Absent THEN backup[f]
  ELSE IF /\ f \in journal.prepared \ journal.hadOriginal
          /\ f \in journal.published \/ temp[f] = Absent THEN Absent
  ELSE dest[f]

Abstract == INSTANCE AtomicRestore
              WITH stored <- [f \in Files |-> Recovered(f)]

(* The whole protocol implements AtomicRestore: readers after a restart    *)
(* see all of a restore or nothing of it.                                  *)
ImplementsAtomicRestore == Abstract!Spec
=============================================================================
