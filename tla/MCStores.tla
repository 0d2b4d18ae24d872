------------------------------ MODULE MCStores ------------------------------
(* The parts of Axiom that replace files, checked one beside the other: they  *)
(* share no variable, so each behaviour is a behaviour of one of them, while  *)
(* the others stay in their initial state.                                    *)
EXTENDS RestoreTransaction, JournalStore, ReminderFile, AutomationFile, PluginTrust,
        SettingsFile

VARIABLE part

restoreVars == vars
storeVars == <<journalVars, reminderFileVars, automationFileVars>>
allVars == <<restoreVars, storeVars, trustVars, settingsFileVars, part>>

StoresInit ==
  /\ part \in {"restore", "journal", "reminders", "automations", "trust", "settings"}
  /\ Init
  /\ part # "restore" =>
       dest = [f \in Files |-> Absent] /\ payload = CHOOSE p \in Payloads : TRUE
  /\ JournalInit /\ ReminderFileInit /\ AutomationFileInit /\ TrustInit
  /\ SettingsFileInit /\ (part # "settings" => ~legacyFile)

StoresNext ==
  /\ UNCHANGED part
  /\ \/ part = "restore" /\ Next /\ UNCHANGED <<storeVars, trustVars, settingsFileVars>>
     \/ /\ part = "journal" /\ JournalNext
        /\ UNCHANGED <<restoreVars, reminderFileVars, automationFileVars>>
        /\ UNCHANGED <<trustVars, settingsFileVars>>
     \/ /\ part = "reminders" /\ ReminderFileNext
        /\ UNCHANGED <<restoreVars, journalVars, automationFileVars>>
        /\ UNCHANGED <<trustVars, settingsFileVars>>
     \/ /\ part = "automations" /\ AutomationFileNext
        /\ UNCHANGED <<restoreVars, journalVars, reminderFileVars>>
        /\ UNCHANGED <<trustVars, settingsFileVars>>
     \/ part = "trust" /\ TrustNext /\ UNCHANGED <<restoreVars, storeVars, settingsFileVars>>
     \/ part = "settings" /\ SettingsFileNext /\ UNCHANGED <<restoreVars, storeVars, trustVars>>

(* In the initial states no step that Fairness speaks of is enabled.          *)
StoresSpec == StoresInit /\ [][StoresNext]_allVars /\ Fairness
=============================================================================
