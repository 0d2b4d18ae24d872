\* One new file and two crashes are enough.
SPECIFICATION Spec
CONSTANTS
  N = 1
  Payloads = {p}
  Saves = {s}
  Absent = Absent
  Partial = Partial
  NoJournal = NoJournal
  MaxCrashes = 2
  MaxFaults = 0
INVARIANT
  StartupNotStuck
