----------------------------- MODULE SettingsFile -----------------------------
(* AppSettingsStore: settings.conf, replaced through a temporary file that no *)
(* load ever reads, and the index settings of older versions, which are taken *)
(* over when there is no settings.conf.  The export of the journal, the local *)
(* data archive and the release manifest are replaced in the same way.        *)
EXTENDS StoreFiles, Naturals

CONSTANTS
  Legacy,            \* what the file of an older version holds
  MaxSettingsSaves,  \* bound: commands that change a setting
  MaxSettingsFaults  \* bound: failing saves and kills between two saves that succeed

(* Settings are the set of the changes they hold, by number, with Legacy among *)
(* them if they come from an older version; the defaults hold none.            *)
Contents == SUBSET (1..MaxSettingsSaves \union {Legacy})
Defaults == {}

ASSUME SettingsAssumption ==
  /\ MaxSettingsSaves \in Nat /\ MaxSettingsFaults \in Nat
  /\ Missing # Torn /\ \A s \in Contents : s \notin {Missing, Torn}
  /\ Legacy \notin Nat

VARIABLES
  current,        \* settings_ of App
  conf, confTemp, \* the file and its ".tmp"
  legacyFile,     \* the file of an older version exists
  app,            \* App: "down", "loading" (in its constructor) or "up"
  confStep,       \* the step of the save that runs
  confAcked       \* ghost: how many changes were made, those that a save reported as
                  \* saved, the faults since, and whether App is blind: it started
                  \* without having read all of a file that was there

settingsFileVars == <<current, conf, confTemp, legacyFile, app, confStep, confAcked>>

SettingsFileInit ==
  /\ current = Defaults /\ conf = Missing /\ confTemp = Missing /\ legacyFile \in BOOLEAN
  /\ app = "down" /\ confStep = "none"
  /\ confAcked = [changes |-> 0, saved |-> {}, faults |-> 0, blind |-> FALSE]

SettingsFault ==
  /\ confAcked.faults < MaxSettingsFaults
  /\ confAcked' = [confAcked EXCEPT !.faults = @ + 1]

(* settings_ is changed first and saved then.                                 *)
ChangeSettingMut ==
  /\ app = "up" /\ confStep = "none" /\ confAcked.changes < MaxSettingsSaves
  /\ current' = {confAcked.changes + 1}
  /\ confAcked' = [confAcked EXCEPT !.changes = @ + 1]
  /\ confStep' = "write"
  /\ UNCHANGED <<conf, confTemp, legacyFile, app>>
ChangeSetting ==
  /\ app = "up" /\ confStep = "none" /\ confAcked.changes < MaxSettingsSaves
  /\ current' = current \union {confAcked.changes + 1}
  /\ confAcked' = [confAcked EXCEPT !.changes = @ + 1]
  /\ confStep' = "write"
  /\ UNCHANGED <<conf, confTemp, legacyFile, app>>

(* The stream opens: the lines are taken up to the end, or up to a read that  *)
(* fails, which load() does not tell from the end.                            *)
ReadConf ==
  /\ conf # Missing
  /\ current' \in SUBSET conf
  /\ app' = "up" /\ confStep' = "none"
  /\ confAcked' = [confAcked EXCEPT !.blind = current' # conf]

(* The stream does not open, because there is no file or because opening it   *)
(* fails, which load() does not tell apart either: the settings of the older  *)
(* version are taken, the defaults if those cannot be read, and saved if the  *)
(* file of the older version is seen to exist.                                *)
ReadLegacy ==
  /\ current' \in IF legacyFile THEN SUBSET {Legacy} ELSE {Defaults}
  /\ \/ app' = "up" /\ confStep' = "none"
     \/ legacyFile /\ app' = "loading" /\ confStep' = "write"
  /\ confAcked' = [confAcked EXCEPT !.blind = conf # Missing]

(* load(), in the constructor of App.                                         *)
LoadSettings ==
  /\ app = "down"
  /\ ReadConf \/ ReadLegacy
  /\ UNCHANGED <<conf, confTemp, legacyFile>>

WriteConf ==
  /\ confStep = "write"
  /\ confTemp' = current /\ confStep' = "rename"
  /\ UNCHANGED <<current, conf, legacyFile, app, confAcked>>

(* The first rename, and the second, which follows a removal.  A save by an   *)
(* App that is blind is the end of what had been saved before.                *)
Replaces(step) == step \in {"rename", "again"}
ReplaceConf ==
  /\ Replaces(confStep)
  /\ conf' = confTemp /\ confTemp' = Missing
  /\ confAcked' = [confAcked EXCEPT
       !.saved = IF confAcked.blind THEN current ELSE @ \union current,
       !.faults = 0, !.blind = FALSE]
  /\ confStep' = "none" /\ app' = "up"
  /\ UNCHANGED <<current, legacyFile>>

(* The first rename fails.                                                    *)
RemoveConf ==
  /\ confStep = "rename" /\ SettingsFault
  /\ conf' = Missing /\ confStep' = "again"
  /\ UNCHANGED <<current, confTemp, legacyFile, app>>

(* An exception: the command ends, and App with it if it was starting.        *)
SaveThrows ==
  /\ SettingsFault
  /\ \/ confStep = "write" /\ confTemp' \in {confTemp, Torn}
     \/ confStep = "again" /\ confTemp' = Missing
  /\ confStep' = "none" /\ app' = IF app = "loading" THEN "down" ELSE app
  /\ UNCHANGED <<current, conf, legacyFile>>

KillSettings ==
  /\ app # "down" /\ SettingsFault
  /\ confTemp' \in (IF confStep = "write" THEN {confTemp, Torn, current} ELSE {confTemp})
  /\ app' = "down" /\ confStep' = "none"
  /\ UNCHANGED <<current, conf, legacyFile>>

QuitSettings ==
  /\ app = "up" /\ confStep = "none" /\ app' = "down"
  /\ UNCHANGED <<current, conf, confTemp, legacyFile, confStep, confAcked>>

SettingsFileNext ==
  \/ ChangeSetting \/ LoadSettings \/ WriteConf \/ ReplaceConf \/ RemoveConf
  \/ SaveThrows \/ KillSettings \/ QuitSettings

SettingsFileSpec == SettingsFileInit /\ [][SettingsFileNext]_settingsFileVars

-----------------------------------------------------------------------------
(* The file holds every change that a save reported as saved, through failing *)
(* renames, kills and starts that could not read it, with up to               *)
(* MaxSettingsFaults failing saves and kills since, until a save by an App    *)
(* that started without having read all of the file: load() goes on as if     *)
(* there were none, and that save, its own or a later command's, is the end   *)
(* of what it had not read.                                                   *)
SettingsKept ==
  confAcked.saved # {} /\ confStep # "again" =>
    conf \notin {Missing, Torn} /\ confAcked.saved \subseteq conf
=============================================================================
