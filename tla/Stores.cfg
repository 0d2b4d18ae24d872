\* Restore: two files, two archives, two crashes and two failing calls.
\* The stores: two faults between two saves of the journal and in a whole life
\* of the trust file, one between two saves of the reminders or automations.
SPECIFICATION StoresSpec
CONSTANTS
  N = 2
  Payloads = {p1, p2}
  Saves = {s}
  Absent = Absent
  Partial = Partial
  NoJournal = NoJournal
  MaxCrashes = 2
  MaxFaults = 2
  Missing = Missing
  Torn = Torn
  NoRecord = NoRecord
  MaxId = 2
  Notes = {1}
  MaxRecords = 1
  Limits = {1, 2}
  MaxGeneration = 4
  MaxJournalFaults = 2
  MaxReminderSaves = 4
  MaxReminderFaults = 1
  MaxAutomationSaves = 4
  MaxAutomationFaults = 1
  MaxTrustFaults = 2
  Legacy = Legacy
  MaxSettingsSaves = 3
  MaxSettingsFaults = 1
INVARIANTS
  AlwaysRecoverable
  JournalKept
  NoPlaintextLeft
  RemindersReadBack
  AutomationsReadBack
  TrustKept
  SettingsKept
PROPERTIES
  SettledBeforeRemoval
  CommittedIsFinal
  ImplementsAtomicRestore
  RecoveryCompletes
CHECK_DEADLOCK FALSE
