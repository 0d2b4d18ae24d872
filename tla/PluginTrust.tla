----------------------------- MODULE PluginTrust ----------------------------
(* The trust record of one managed plugin: the file PluginTrustStore keeps it *)
(* in, the package directory PluginPackageManager keeps beside it, and the    *)
(* plugin commands of App, which keep both and what is loaded in step.  The   *)
(* commands run one at a time on the UI thread; the process may be killed and *)
(* calls may fail between any two steps, and the package may be changed on    *)
(* disk behind Axiom's back.                                                  *)
EXTENDS StoreFiles, Naturals

CONSTANTS
  NoRecord,       \* the plugin has no trust record
  MaxTrustFaults  \* bound: kills and failing calls

VARIABLES
  records,    \* PluginTrustStore::records_, as far as this plugin goes
  main, tmp, bak,  \* the trust file and its two siblings
  package,    \* the managed directory: "absent", "pinned" or "changed"
  aside,      \* the same directory under its ".remove-" name
  enabledAll, \* settings_.plugins_enabled
  savedAll,   \* the same switch in the settings file
  loaded,     \* the plugin's module is loaded
  cmd,        \* the command that runs, and its next step
  trustFaults,
  condemned,  \* ghost: a quarantine was recorded and it was not removed since
  halfDone    \* ghost: an install or a removal was cut short, could not be undone, or
              \* was undone while its record waits in the temporary file

files == <<main, tmp, bak>>
switch == <<enabledAll, savedAll>>
trustVars == <<records, files, package, aside, enabledAll, savedAll, loaded, cmd,
               trustFaults, condemned, halfDone>>

Record(e, q) == [enabled |-> e, quarantined |-> q]
Records == {NoRecord, Record(FALSE, FALSE), Record(TRUE, FALSE), Record(FALSE, TRUE)}

ASSUME TrustAssumption ==
  /\ MaxTrustFaults \in Nat
  /\ Missing \notin Records /\ Torn \notin Records
  /\ NoRecord \notin {Record(FALSE, FALSE), Record(TRUE, FALSE), Record(FALSE, TRUE)}

Free == [op |-> "none", step |-> "none"]
Known == records # NoRecord

TrustInit ==
  /\ records = NoRecord /\ main = Missing /\ tmp = Missing /\ bak = Missing
  /\ package = "absent" /\ aside = "absent"
  /\ enabledAll = TRUE /\ savedAll = TRUE /\ loaded = FALSE
  /\ cmd = Free /\ trustFaults = 0 /\ condemned = FALSE /\ halfDone = FALSE

Ready == cmd = Free
TrustAt(step) == cmd.step = step
Step(op, step) == cmd' = [op |-> op, step |-> step]
GoOn(step) == Step(cmd.op, step)
(* A step that leads into commit_locked carries the records to be committed.  *)
CommitTrust(op, new) == cmd' = [op |-> op, step |-> "write", new |-> new]
Abort == cmd' = Free
Budget == trustFaults < MaxTrustFaults /\ trustFaults' = trustFaults + 1

(* verify(): the manifest parses, names this version and library, and both    *)
(* files hash to their pins.                                                  *)
Verified == package = "pinned"
Quarantine(op) == CommitTrust(op, Record(FALSE, TRUE))

-----------------------------------------------------------------------------
(* The commands, each up to its first commit.                                 *)
Install ==
  /\ Ready /\ ~Known /\ package = "absent"
  /\ package' = "pinned"   \* staged, hashed, and renamed into place
  /\ CommitTrust("install", Record(FALSE, FALSE)) /\ condemned' = FALSE
  /\ UNCHANGED <<records, files, aside, switch, loaded, trustFaults, halfDone>>

Enable ==
  /\ Ready /\ Known
  /\ \/ ~Verified /\ Quarantine("enable")
     \/ Verified /\ ~records.quarantined /\ CommitTrust("enable", Record(TRUE, FALSE))
  /\ UNCHANGED <<records, files, package, aside, switch, loaded, trustFaults, condemned,
                 halfDone>>

Disable ==
  /\ Ready /\ Known
  /\ CommitTrust("disable", Record(FALSE, records.quarantined))
  /\ UNCHANGED <<records, files, package, aside, switch, loaded, trustFaults, condemned,
                 halfDone>>

Verify ==
  /\ Ready /\ Known /\ ~Verified
  /\ Quarantine("verify")
  /\ UNCHANGED <<records, files, package, aside, switch, loaded, trustFaults, condemned,
                 halfDone>>

(* load_manifest may fail for reasons of its own; a loaded plugin stays.      *)
LoadModule == loaded' \in {loaded, TRUE}

Reload ==
  /\ Ready /\ enabledAll /\ Known /\ records.enabled /\ ~records.quarantined
  /\ \/ ~Verified /\ Quarantine("reload") /\ UNCHANGED loaded
     \/ Verified /\ loaded' \in BOOLEAN /\ Abort
  /\ UNCHANGED <<records, files, package, aside, switch, trustFaults, condemned, halfDone>>

Remove ==
  /\ Ready /\ Known
  /\ \/ records.enabled /\ CommitTrust("remove", Record(FALSE, FALSE)) /\ UNCHANGED loaded
     \/ ~records.enabled /\ loaded' = FALSE /\ Step("remove", "move")
  /\ UNCHANGED <<records, files, package, aside, switch, trustFaults, condemned, halfDone>>

(* The switch is set in memory first: when the settings cannot be saved the   *)
(* command ends there.                                                        *)
SettingsSaveFails == Budget /\ UNCHANGED savedAll

SettingsOff ==
  /\ Ready /\ enabledAll
  /\ enabledAll' = FALSE
  /\ \/ savedAll' = FALSE /\ loaded' = FALSE /\ UNCHANGED trustFaults
     \/ SettingsSaveFails /\ UNCHANGED loaded
  /\ UNCHANGED <<records, files, package, aside, cmd, condemned, halfDone>>

(* load_enabled_plugins, also run by the constructor of App.                  *)
LoadEnabled ==
  IF ~(Known /\ records.enabled /\ ~records.quarantined) THEN UNCHANGED loaded /\ Abort
  ELSE IF Verified THEN LoadModule /\ Abort
  ELSE UNCHANGED loaded /\ Quarantine("load")

SettingsOn ==
  /\ Ready /\ ~enabledAll
  /\ enabledAll' = TRUE
  /\ \/ savedAll' = TRUE /\ LoadEnabled /\ UNCHANGED trustFaults
     \/ SettingsSaveFails /\ UNCHANGED <<loaded, cmd>>
  /\ UNCHANGED <<records, files, package, aside, condemned, halfDone>>

(* A command for another plugin writes the whole file.                        *)
OtherPlugin ==
  /\ Ready /\ CommitTrust("other", records)
  /\ UNCHANGED <<records, files, package, aside, switch, loaded, trustFaults, condemned,
                 halfDone>>

-----------------------------------------------------------------------------
(* commit_locked.                                                             *)
WriteTrustTemp ==
  /\ TrustAt("write")
  /\ tmp' = cmd.new
  /\ cmd' = [cmd EXCEPT !.step = IF main = Missing THEN "rename" ELSE "backup"]
  /\ UNCHANGED <<records, main, bak, package, aside, switch, loaded, trustFaults,
                 condemned, halfDone>>

CopyBackup ==
  /\ TrustAt("backup") /\ bak' = main
  /\ cmd' = [cmd EXCEPT !.step = "discard"]
  /\ UNCHANGED <<records, main, tmp, package, aside, switch, loaded, trustFaults,
                 condemned, halfDone>>

DiscardMain ==
  /\ TrustAt("discard")
  /\ main' = Missing
  /\ cmd' = [cmd EXCEPT !.step = "rename"]
  /\ UNCHANGED <<records, tmp, bak, package, aside, switch, loaded, trustFaults,
                 condemned, halfDone>>

Condemns(new) == new # NoRecord /\ new.quarantined
PublishTrust ==
  /\ TrustAt("rename")
  /\ main' = tmp /\ tmp' = Missing /\ records' = cmd.new
  /\ condemned' = IF cmd.op = "other" THEN condemned ELSE Condemns(cmd.new)
  /\ GoOn("committed")
  /\ UNCHANGED <<bak, package, aside, switch, loaded, trustFaults, halfDone>>

(* What the commands do once their record is committed.                       *)
UnloadAfter == {"enable", "disable", "verify", "reload", "load"}
AfterCommit ==
  \/ /\ cmd.op = "enable" /\ records.enabled /\ Abort
     /\ IF enabledAll THEN LoadModule ELSE UNCHANGED loaded
  \/ /\ cmd.op \in UnloadAfter /\ ~records.enabled /\ loaded' = FALSE /\ Abort
  \/ /\ cmd.op \in {"install", "other"} /\ Abort /\ UNCHANGED loaded
  \/ /\ cmd.op = "remove" /\ Known /\ loaded' = FALSE /\ GoOn("move")
  \/ /\ cmd.op = "remove" /\ ~Known /\ UNCHANGED loaded /\ GoOn("sweep")
Committed ==
  /\ TrustAt("committed") /\ AfterCommit
  /\ UNCHANGED <<records, files, package, aside, switch, trustFaults, condemned, halfDone>>

(* PluginPackageManager::remove: the directory is put aside before the record *)
(* is erased, and deleted after.                                              *)
PutAside ==
  /\ TrustAt("move")
  /\ aside' = package /\ package' = "absent"
  /\ CommitTrust("remove", NoRecord)
  /\ UNCHANGED <<records, files, switch, loaded, trustFaults, condemned, halfDone>>

Sweep ==
  /\ TrustAt("sweep")
  /\ aside' = "absent" /\ Abort
  /\ UNCHANGED <<records, files, package, switch, loaded, trustFaults, condemned, halfDone>>

-----------------------------------------------------------------------------
(* Failing calls.  An exception leaves the command; install and remove undo   *)
(* what they did to the directory first.                                      *)
Undo ==
  \/ cmd.op = "install" /\ package' \in {"absent", package} /\ UNCHANGED aside
  \/ /\ cmd.op = "remove" /\ package = "absent"
     /\ \/ package' = aside /\ aside' = "absent"
        \/ UNCHANGED <<package, aside>>
  \/ /\ cmd.op # "install" /\ (cmd.op = "remove" => package # "absent")
     /\ UNCHANGED <<package, aside>>

(* load_enabled_plugins catches the exception of a quarantine and unloads the *)
(* plugin all the same; with the other commands it leaves what is loaded.     *)
AfterFailure == loaded' = (loaded /\ cmd.op # "load")

LeftBehind ==
  \/ cmd.op = "install" /\ package' # "absent"
  \/ cmd.op = "remove" /\ (aside' # "absent" \/ tmp' = NoRecord)

WriteFails ==
  /\ TrustAt("write") /\ Budget
  /\ tmp' \in {Torn, cmd.new} /\ Undo /\ AfterFailure /\ Abort
  /\ halfDone' = (halfDone \/ LeftBehind)
  /\ UNCHANGED <<records, main, bak, switch, condemned>>

BackupFails ==
  /\ TrustAt("backup") /\ Budget
  /\ tmp' = Missing /\ bak' \in {bak, Torn} /\ Undo /\ AfterFailure /\ Abort
  /\ halfDone' = (halfDone \/ LeftBehind)
  /\ UNCHANGED <<records, main, switch, condemned>>

(* The records that could not be published stay in the temporary file.        *)
RenameFails ==
  /\ TrustAt("rename") /\ Budget
  /\ UNCHANGED <<records, tmp, bak, switch, condemned>>
  /\ main' \in (IF bak = Missing THEN {Missing} ELSE {bak, Missing, Torn})
  /\ Undo /\ AfterFailure /\ Abort
  /\ halfDone' = (halfDone \/ LeftBehind)

MoveFails ==
  /\ TrustAt("move") /\ Budget
  /\ Abort
  /\ UNCHANGED <<records, files, package, aside, switch, loaded, condemned, halfDone>>

(* The process is killed; the next one loads the first file that reads.       *)
KillTrust ==
  /\ cmd.op # "dead" /\ Budget
  /\ tmp' \in (IF TrustAt("write") THEN {tmp, Torn, cmd.new} ELSE {tmp})
  /\ bak' \in (IF TrustAt("backup") THEN {bak, Torn, main} ELSE {bak})
  /\ halfDone' = (halfDone \/ cmd.op \in {"install", "remove"})
  /\ records' = NoRecord /\ loaded' = FALSE /\ enabledAll' = savedAll
  /\ Step("dead", "dead")
  /\ UNCHANGED <<main, package, aside, savedAll, condemned>>

TrustReads(f) == f \in Records
FirstReadable ==
  IF TrustReads(main) THEN main ELSE IF TrustReads(tmp) THEN tmp
  ELSE IF TrustReads(bak) THEN bak ELSE NoRecord
NewestFirstMut ==
  IF TrustReads(bak) THEN bak ELSE IF TrustReads(main) THEN main
  ELSE IF TrustReads(tmp) THEN tmp ELSE NoRecord
LoadTrustMut == TrustAt("dead") /\ records' = NewestFirstMut
LoadTrust == TrustAt("dead") /\ records' = FirstReadable

Start ==
  /\ LoadTrust
  /\ Step("start", "plugins")
  /\ UNCHANGED <<files, package, aside, switch, loaded, trustFaults, condemned, halfDone>>

StartPlugins ==
  /\ TrustAt("plugins")
  /\ IF enabledAll THEN LoadEnabled ELSE Abort /\ UNCHANGED loaded
  /\ UNCHANGED <<records, files, package, aside, switch, trustFaults, condemned, halfDone>>

PackageChanges ==
  /\ package = "pinned" /\ package' = "changed"
  /\ UNCHANGED <<records, files, aside, switch, loaded, cmd, trustFaults, condemned, halfDone>>

Commands == Install \/ Enable \/ Disable \/ Verify \/ Reload \/ Remove \/ SettingsOff \/ SettingsOn
            \/ OtherPlugin
TrustSteps ==
  WriteTrustTemp \/ CopyBackup \/ DiscardMain \/ PublishTrust \/ Committed \/ PutAside \/ Sweep
Failures == WriteFails \/ BackupFails \/ RenameFails \/ MoveFails
TrustNext ==
  Commands \/ TrustSteps \/ Failures \/ KillTrust \/ Start \/ StartPlugins \/ PackageChanges
TrustSpec == TrustInit /\ [][TrustNext]_trustVars

-----------------------------------------------------------------------------
(* Whenever no command runs, a plugin is loaded only if its record says       *)
(* enabled and not quarantined, whichever commands were cut short by a        *)
(* failing call or a kill.                                                    *)
LoadedIsTrusted == Ready /\ loaded => Known /\ records.enabled /\ ~records.quarantined

(* A recorded quarantine lasts until the plugin is removed: no failing save,  *)
(* kill or backup file brings the enabled record back.                        *)
QuarantineLasts == Ready /\ condemned /\ Known => records.quarantined
QuarantineKnown == Ready /\ condemned /\ ~halfDone => Known

(* A package directory has its record, unless an install or a removal was     *)
(* killed half-way or its undoing failed too: otherwise the plugin could be   *)
(* neither installed ("directory already exists") nor removed ("not           *)
(* installed").                                                               *)
PackageHasRecord == Ready /\ ~halfDone /\ ~Known => package = "absent"

(* The trust record, the package directory and what is loaded stay in step,   *)
(* with up to MaxTrustFaults failing calls and kills.                         *)
TrustKept == LoadedIsTrusted /\ QuarantineLasts /\ QuarantineKnown /\ PackageHasRecord
=============================================================================
