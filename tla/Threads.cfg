\* The gate: two retained outcomes and four scans, so that outcomes are pruned
\* while waiters sleep.  The index: one path.  The host: two plugins that want
\* the same two names, one of them Axiom's, and a reload.  The notifications:
\* twice what is retained.  The clipboard: more texts than fit, in number and in
\* size.
SPECIFICATION ThreadsSpec
CONSTANTS
  Retained = 2
  Waiters = {w1, w2}
  MaxGenerations = 4
  root = root
  Paths <- OnePath
  Under <- OneUnder
  Configs <- OneConfigs
  MaxChanges = 1
  MaxConfigs = 1
  MaxRecoveries = 1
  MaxFailures = 1
  Plugins = {p, q}
  Names = {a, b}
  Builtins = {b}
  Workers = {worker1}
  Axiom = Axiom
  None = None
  MaxLoads = 3
  Publishers = {"ui", "worker"}
  RetentionLimit = 2
  MaxNotices = 4
  MaxToggles = 1
  Texts = {"a", "b", "c", "d", "e"}
  Bytes <- TextSizes
  MaxEntries = 2
  MaxTextBytes = 4
  MaxItemBytes = 3
  MaxCaptures = 5
INVARIANTS
  GateTruthful
  OnlyMappedCodeRuns
  NoticesAccounted
  ClipboardAccounted
PROPERTIES
  WaitersReturn
  ScansEnd
  OwnEntriesOnly
  UnloadReturns
  NoticesLeave
CHECK_DEADLOCK FALSE
