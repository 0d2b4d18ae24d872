# Verification of AxiomDesktop

TLA+ models of the parts of AxiomDesktop in which concurrency, failing calls and
crashes meet: the atomic restore of local data, the files each store replaces, the
file index and the recovery of lost file notifications, the scheduler, reminders
and automations, the executor, plugins, notifications and the clipboard. TLC checks
them on small instances; TLAPS proves the results that matter most for every
value of the constants.

1. [The system](#1-the-system)
2. [Modules and runs](#2-modules-and-runs)
3. [The models](#3-the-models)
4. [What is proved](#4-what-is-proved)
5. [Findings](#5-findings)
6. [What is not modelled](#6-what-is-not-modelled)
7. [Plan](#7-plan)

Run TLC on a module with the `.cfg` of a run, and `tlapm` on a `...Proofs`
module. `PROJECT.json` lists the runs, maps every definition to the lines it
models, and gives for each property a mutation of the model that breaks it.

## 1. The system

AxiomDesktop is one Win32 process. Its threads are the user's (window messages
and commands), the worker of `RuntimeScheduler`, the workers of
`BoundedExecutor`, the scan thread of `FileIndex`, one thread per watched root,
and the worker of `WatcherResyncCoordinator`. Everything that lasts is in files
under the profile directory, each owned by one store.

```
 user's thread ──commands──> App ──> FileIndex ──begins/completes──> IndexScanGate
                              │         ^  ^                              │ wait
   watch threads ──changes────┼─────────┘  └──────launch scan─────┐       v
        └── overflow, error ──┴─> WatcherHealth <──mark── WatcherResyncCoordinator
                              │
                              ├──> ReminderCenter ───┐ arm      fire
                              ├──> AutomationEngine ─┴──> RuntimeScheduler
                              │         └─ submit ──────> BoundedExecutor ──> ActionRegistry ──> plugins
                              └──> stores (reminders, automations, journal, clipboard, settings)
                                        ^ replaced as a set by RestoreTransaction
```

| component | state | operations | what is hard | what makes it correct |
|---|---|---|---|---|
| Restore transaction | data files, `.tmp`/`.bak` siblings, the recovery journal | `commit`, `rollback_state`, `recover_interrupted`, recovery at startup | kills between any two file calls, calls that fail, a second kill during recovery | all files are replaced or none; recovery always finishes; no original is lost |
| Index scan gate | the newest generations and their outcomes | `begin`, `complete`, `cancel`, `wait`, `inspect` | late completions, pruning while somebody waits | a waiter is told what became of *its* scan, and is told in the end |
| File index | records, configuration, state, pending changes | launch and publication of scans, incremental changes of subtrees, configuration, `stop` | changes during a scan, superseded scans, a replay concurrent with new changes, of a directory and of what is in it | the index converges to the disk; launches return |
| Watcher health, coordinator, watches | health state, issue generation, queued resync; one handle and thread per root | issues, restart, resync, acceptance | a loss during a resync, a restart from two threads, threads that end | a reported loss is repaired before "healthy" is said, or being repaired |
| Runtime scheduler | priority queue, task table | schedule, cancel, worker, `stop` | cancelling a task that runs, waking a sleeping worker, `stop()` from a callback | each task starts once, in order, in time; nothing runs after `stop()` |
| Reminder center, its store | entries, next identifier, file | schedule, cancel, clear, fire, restore, stop | arming outside of the lock, failing saves, kills | each promised reminder is shown, once |
| Automation engine, its store | entries, retries, in-flight count, file | schedule, cancel, clear, policy, enable, fire, execute, complete, reconcile, refresh, restore, stop | as above, with executions on other threads, retries, plugins that come and go | an enabled one whose action is there has a task, any other none; retries bounded; `stop()` quiet |
| Reminder and automation stores | three files each, a generation | `load`, `save` | kills between rotation and rename, a rename that fails, records the reader refuses | a start finds the last save that returned, or a later one |
| Automation schedule | none (pure) | next occurrence of a calendar rule or interval, retry delay | clocks that spring forward | the first occurrence after a time, never a shifted one |
| Bounded executor | queue, workers, counters | `submit`, `run`, `stop` with and without draining | a full queue, `stop()` from a callback, wake-ups | what was accepted runs, or is dropped by `stop(false)` and counted; `stop()` returns |
| Plugin host, loader, action registry | modules, gates with their active counts, actions and commands by name | load, register, invoke, unload | a plugin unloaded and loaded again while its callbacks run | no callback of a module that is gone; only own entries are removed; an unload returns |
| Plugin trust store, packages | trust record in three files, package directory, what is loaded | install, enable, disable, verify, reload, remove, the master switch, load | failing saves and kills between record, directory and module | what is loaded is trusted; a quarantine lasts; a package has its record |
| Journal store | entries, three files, protection at rest | add, erase, prune, import, limits, protection, `load` | saves that fail after memory changed, plaintext siblings, recovery from a sibling | what was saved is read back; no plaintext under protection |
| Settings | one file, an older version's file | change, save, load | a rename that fails half-way, a file that does not open | a change that was saved is not lost |
| Notifications | pending queue, history, message, timer | publish, pump, toggle, clear | publishing while the pump looks for more | nothing lost without a count, nothing left pending |
| Clipboard | texts, pins, bytes | record, pin, erase, clear | limits filled by pinned entries | pinned entries stay, counts agree |
| Archive, support bundle, release verification, journal transfer | one file each | export, import | formats | old or new contents |
| Application shell | windows, wiring, order of start and shutdown | commands | shutdown while threads run | services stop before what they use |

## 2. Modules and runs

| module | models | composed with |
|---|---|---|
| `RestoreTransaction` | `restore_transaction.cpp`, `startup_restore_recovery.cpp` | `AtomicRestore`, the abstract specification it implements |
| `JournalStore` | `journal_store.cpp`, the journal options of `axiom.cpp` | `StoreFiles`: files that are missing or torn |
| `ReminderFile`, `AutomationFile` | `reminder_store.cpp`, `automation_store.cpp` | `StoreFiles` |
| `PluginTrust` | `plugin_trust_store.cpp`, `plugin_package.cpp`, the plugin commands of `axiom.cpp` | `StoreFiles` |
| `SettingsFile` | `app_settings.cpp` | `StoreFiles` |
| `BoundedExecutor` | `BoundedExecutor` of `runtime.cpp` | |
| `IndexScanGate` | `index_scan_gate.cpp` | |
| `PluginHost` | `plugin_host.cpp`, `plugin_loader_win32.cpp`, `action_registry.cpp` | |
| `NotificationCenter` | `notification_center.cpp`, the pump of `axiom.cpp` | |
| `ClipboardStore` | `clipboard_store.cpp` | |
| `FileIndex` | `file_index.cpp`, the index commands of `axiom.cpp` | the gate's promise: the outcome of the newest generation |
| `WatcherHealth` | `watcher_health.cpp`, as operators | extended by `WatcherRecovery` |
| `WatcherRecovery` | `watcher_resync.cpp`, `filesystem_watcher.cpp`, their wiring in `axiom.cpp` | `WatcherHealth`, and what the gate and the index promise |
| `RuntimeScheduler` | `RuntimeScheduler` of `runtime.cpp` | |
| `ReminderCenter` | `ReminderCenter` of `runtime.cpp`; `reminder_store.cpp` as one step per save | what the scheduler promises |
| `AutomationEngine` | `automation_engine.cpp`; `automation_store.cpp` as one step per save | what scheduler and executor promise |
| `AutomationSchedule` | `next_calendar_occurrence`, `next_fixed_occurrence` and an automation that lives by them | |
| `RestoreTransactionProofs`, `FileIndexProofs`, `WatcherRecoveryProofs`, `RuntimeSchedulerProofs`, `ReminderCenterProofs` | theorems about the module they extend | |
| `StoresProofs` | theorems about the files of the reminders, the automations and the settings | |
| `ThreadsProofs` | theorems about the executor, the gate, the notifications, the plugin host and the clipboard | |
| `AutomationProofs` | theorems about the automation engine and the calendar schedule | |
| `MCStores`, `MCRuntime`, `MCThreads` | the parts that replace files, the two classes of `runtime.cpp`, and what else threads share, side by side in one run | see below |
| other `MC...` | constants for TLC | |

| run | question | distinct states |
|---|---|---|
| `stores` | does every file that Axiom replaces survive one or two failing calls and kills; is a restore of all of them atomic, and does its recovery finish | 650 000 |
| `restore_stuck` | *finding* | |
| `threads` | does what threads share stay accounted for, and does nobody wait for ever | 165 000 |
| `file_index` | do changes of a directory and of a file in it survive scans | 4 470 000 |
| `file_index_accurate` | *finding* | |
| `watcher_recovery` | does a resync repair what it accepts, whatever is lost or configured meanwhile | 1 970 000 |
| `watcher_user` | do the user's commands leave the watcher's health right, do resyncs end | 370 000 |
| `watcher_dead` | *finding* | |
| `runtime` | is every accepted callback run or counted; does each task start once, in order and in time; does `stop()` return | 360 000 |
| `reminders` | is each promised reminder armed, saved, shown once | 340 000 |
| `automations` | has each automation that should run one task, and no other any, but for what `unarmed`, `overtaken` and `rewound` except; are retries bounded, is `stop()` quiet | 710 000 |
| `calendar_gap` | *finding* | |

`MCStores`, `MCRuntime` and `MCThreads` put small modules into one run. A variable `part`, fixed
in the initial state, chooses the one that moves; the modules share no variable, so
each behaviour is one of one module while the others rest. Every property is about
the variables of one module and holds of the rest trivially. Fairness is that of
each module, said of its part: in `MCRuntime` and `MCThreads` each condition repeats the
module's with `part`, in `MCStores` the restore is the only part with fairness, and its
fair actions are not enabled in the initial states it rests in.

A run checks few properties, each with its parts by name: `AlwaysRecoverable` is
`NoOrphanArtifacts`, `JournalAccepted` and, when every file existed before the restore,
`StartupNotStuck`, `GateTruthful` is `Retention`,
`OutcomesTruthful` and `WaitersToldTruth`, `ScansAreSound` is `ChangesSurviveScans`
and `ReadyMeansDone`, `LossesTracked` holds `NothingForgotten`, `SchedulerSound` is
`TableMatchesQueue`, `NeverSleepsPast` and `QuietAfterStop`, `RemindersArmed` holds
`ExactlyArmed`, `RemindersKept` and `AutomationsKept` are `SavedIsKept` and
`CancelledStaysCancelled`, `AutomationsArmed` holds `EnabledIsArmed` and
`ParkedIsNotArmed`, `RunsAccounted` is `StopIsQuiet` and `RetriesCounted`. The type
invariant of a module is a conjunct of one of them.

`CHECK_DEADLOCK FALSE` appears where the program really may come to rest: after
the bounds on changes and commands are spent nothing more happens to an index, a
watcher, a scheduler, a store or an engine, and a stopped one does nothing. That
nobody is stuck on the way is what the liveness properties say.

An environment (the disk, the user, a plugin, a kill, a failing call) is never
assumed fair. Fairness is of the program's own threads, and weak unless said
otherwise: a thread that can go on, and is not stopped, goes on.

TLC checks the type invariants of all modules, as conjuncts of the properties above;
they are proved, too.

## 3. The models

### Restore transaction: `RestoreTransaction`, `AtomicRestore`

`RestoreTransaction::commit` replaces a set of data files by the contents of an
archive; `StartupRestoreRecovery` repairs what an interrupted commit left, before
any store is loaded.

| state | in the code |
|---|---|
| `dest`, `temp`, `backup` | the destination of each item and its two siblings, on disk |
| `journal`, `journalTmp` | `restore-recovery.axr` and its `.tmp`, on disk |
| `state` | `JournalState` in memory: each flag of `ItemState` is the set of items that have it set |
| `pc`, `resume`, `cur` | the next file-system call, where `write_journal` returns to, the item of the loop |
| `failed`, `booting` | `first_error` of `rollback_state`; whether `App`'s constructor is the caller |
| `orig`, `atRisk`, `faulted` | ghosts: the files before the transaction, the files that stores saved while a journal was pending, whether a call has failed since the start |

Each file-system call is one action; `Crash` may come between any two of them
and `Fault` makes any of them throw.  `write_journal` is two actions
(`WriteJournalTmp`, `ReplaceJournal`).  Running stores go on saving
(`StoreSave`), also while a failed restore has left its journal behind, which is
what the code allows.  `AtomicRestore` is the promise: a restore replaces all
files in one step, or none; the refinement mapping `Recovered(f)` is what the
next start will load from file `f`.

Invariants and step properties: an original always exists somewhere until the
commit point (`OriginalsKept`); artifacts never outlive the journal
(`NoOrphanArtifacts`); recovery accepts every journal the protocol writes
(`JournalAccepted`), and when every file existed before the restore a start
fails only by a call that fails (the three are `AlwaysRecoverable`; it does not say that
every start recovers, which is false of a restore that creates a file); the journal goes
only when every file is new, or every file is old (`SettledBeforeRemoval`); after the commit point nothing touches the files
(`CommittedIsFinal`); and the whole implements `AtomicRestore`
(`ImplementsAtomicRestore`).

`RecoveryCompletes`: after finitely many crashes and failures the program runs
again, when every destination existed before the restore. For a destination that
did not exist it is false: see the finding `restore_stuck`.

Bounds: two files (the smallest number where "all" and "some" differ and the
loops have a first and a last item), two archives, one saved content, two crashes
(the second one hits the recovery of the first) and two failing calls.
Fairness: weak fairness of the program's own sequential code (`Commit`,
`Rollback`, `Recover`); nothing is assumed of stores, users or the environment.

`OriginalsKept` is implied by the refinement; it is proved and has no run.

### The files of the stores: `StoreFiles`, `JournalStore`, `ReminderFile`, `AutomationFile`

Each store holds its mutex from the first to the last file call of a save, so a
save is a sequence of actions, one per call, between which only a failing call or a
kill can come. A file is `Missing`, `Torn` (it was being written when the writer
stopped) or a snapshot with its generation.

| state | in the code |
|---|---|
| `held` | the fields of `JournalStore`: entries, `next_id_`, `generation_`, limit, protection, `skip` for `skip_primary_rotation_once_`; `bad` are entries that cannot be encoded |
| `onDisk`, `reminderFiles`, `automationFiles` | the path and its `.tmp` and `.bak` |
| `saving`, `reminderSave`, `automationSave` | the next call of the save |
| `reminderStore`, `automationStore` | `generation_`, and whether the process runs |
| `settings` | the journal options in the settings file |
| `promised`, `reminderAcked`, `automationAcked` | ghosts: what returned saves promise, and the faults since |

`JournalKept`: what a save that returned wrote is read by the next start, and what it
removed stays removed; `RemindersReadBack`, `AutomationsReadBack`: a start finds the
last save that returned, or a later one. `NoPlaintextLeft`: with protection on and
in effect no file holds plaintext once an operation is over. `AutomationsReadBack`
covers the codec too: whatever state of retries the writer lets through, the reader
accepts (`Writable`, `Parsable`).

Not modelled is a read that fails at the load of one of these three: a file reads as what
it holds.

How many faults between two saves that succeed a store survives is part of what
these properties say: two for the journal, one for reminders and automations. One
more and TLC shows the loss:

- Journal: three faults, around the save that follows a recovery, lose a save that
  was reported. A save of the journal makes up for the faults before it unless one
  of them was the save of the settings: as long as these say otherwise of the
  protection than the journal, the next load writes the file again, or tidies
  a plaintext sibling away that is all there is, and two more faults lose it.
  (`Promise` counts accordingly. TLC shows the loss if every save resets the count,
  in 25 steps and five saves; the proof attempt found it first.) A first save ever that is torn blocks every later save and start. An
  entry that cannot be encoded stays in memory and makes every save fail until it is
  erased or evicted. `set_max_entries` accepts 200 000, a file holds 50 000: beyond
  it every save fails.
- Journal at rest: a start that recovered from a sibling leaves the plaintext primary
  it passed over until the next save; switching protection off, when it fails, leaves
  a plaintext `.tmp`. `NoPlaintextLeft` excepts the two, and a sibling that could not
  be removed.
- Reminders and automations: a kill between the rotation and the rename leaves the
  last save only in the siblings, which the next save removes before it publishes. For
  automations a failing rename then removes the temporary file too and everything is
  lost. For reminders it leaves the complete temporary file; the following save removes
  that one first, and a kill or a failing write there loses everything.
- Automations: the message of the last failure is saved and may not exceed 64 KiB;
  a longer one makes every later save fail.

Bounds: two journal entries of both kinds and a file that holds one, so that limits,
eviction and refusal are reached; four saves.

### Plugin trust and packages: `PluginTrust`

| state | in the code |
|---|---|
| `records`, `main`, `tmp`, `bak` | `records_` and the three files of `PluginTrustStore`, for one plugin |
| `package`, `aside` | the managed directory and the name it has while it is removed |
| `enabledAll`, `savedAll`, `loaded` | `plugins_enabled` in memory and on file; `PluginLoaderWin32::is_loaded` |
| `cmd` | the command of `plugin_management_command` or `settings plugins` that runs, and its next step |
| `condemned`, `halfDone` | ghosts: a quarantine was recorded; an install or removal was cut short |

A command is a step up to its first commit, the calls of `commit_locked`, and what
it does after. `TrustKept`: a plugin is loaded only if its record says enabled and
not quarantined (`LoadedIsTrusted`), a quarantine lasts (`QuarantineLasts`,
`QuarantineKnown`), and a package has its record (`PackageHasRecord`). Two faults;
with three the first two still hold, but a torn main file may be copied over the only
good backup, and all records are lost. What the properties leave out, by `halfDone` or by what they are about: a
removal or an enabling whose rename failed waits in the temporary file and takes
effect at the next start; a kill between the rename of an installed directory and
its record leaves a directory that can be neither installed nor removed; a
quarantine that cannot be saved leaves the plugin enabled, and loaded too unless it was
found by `load_enabled_plugins`, which unloads all the same (`AfterFailure`); `settings
plugins off` that cannot be saved leaves plugins loaded, and repeated answers
"already off". A start reads `savedAll` as it was saved: a settings file that does not open is
`SettingsFile`'s subject.

### Settings: `SettingsFile`

`current` is `settings_`, `conf` and `confTemp` the file and its `.tmp`, `legacyFile`
the file of an older version, `app` whether `App` runs. Settings are the set of the changes
they hold. A setting changes in memory first and is saved then. `load()` does not tell a
file that does not open from one that is not there (`app_settings.cpp:298`), nor a read
that fails from the end of the file: `LoadSettings` may take any part of the settings, or
those of the older version, or the defaults, and saves the older version's where `load()`
does, whether `settings.conf` exists or not.

`SettingsKept`: the file holds every change that a save reported, with one failing save or
kill since, until a save by an App that started without having read all of it
(`confAcked.blind`). That exception is a loss: with the file of an older version there, one
failing open is enough for `load()` itself to save the older settings over the newer ones;
without it, it takes the next command that changes a setting. Between the removal and the
second rename (`app_settings.cpp:431`) the file is missing: a kill there costs a
second fault, since the first rename had to fail, and loses the settings, as two
failing renames do. The data archive, the export of the journal and the release
manifest are replaced in the same way. Three changes: two saved, and one that
is saved over them.

### Bounded executor: `BoundedExecutor`

| state | in the code |
|---|---|
| `jobQueue`, `totals` | `queue_`; `active_workers_` and the counters |
| `closing` | `stopped_`, `drain_on_stop_`, and whether the stop tokens were requested |
| `thread` | per worker: waiting for the mutex, asleep, running a callback, gone |
| `caller` | per thread: what is left of the `submit()` or `stop()` it is in |
| `fate` | ghost: what became of each callback |

A notification is a step of its own, after the mutex was released. `AcceptedAreRun`:
when `stop()` has returned outside of the pool, every accepted callback has run or
was dropped by `stop(false)`, and the statistics agree at every moment.
`ExecutorGoesOn`: the queue is emptied and `stop()` returns, whoever calls. Two
workers, a queue of two, four callbacks: the queue is full, and a wake-up may go to
the wrong worker. Fairness: threads that can run do, and callbacks return. A second
`stop()` returns without waiting; `stop(false)` counts the callbacks it drops as
submitted and as rejected.

### Plugins in memory: `PluginHost`

| state | in the code |
|---|---|
| `mapped`, `modules` | modules in memory; `PluginLoaderWin32::modules_` |
| `entries`, `commands` | `ActionRegistry::entries_`, `PluginHost::commands_` |
| `actionNames`, `commandNames` | what the host notes of each plugin |
| `callbackGates`, `gate` | the gate of each id; the gates, kept by the handlers after that |
| `ui`, `call` | where the loader stands; where each invocation stands |

The loader and commands run on the UI thread, actions on the executor's. An
invocation copies its handler under the registry's lock and enters the gate later.
`OnlyMappedCodeRuns`: no callback of a module that is gone runs, however old its
handler; `OwnEntriesOnly`: two plugins that want the same name, one of them Axiom's,
lose exactly their own; `UnloadReturns`. `callback_gate_for` throws when the gate
on record has leases; there is none: a gate is on record only while its plugin is
loaded or on its way in or out, and `load_manifest` refuses a plugin that is loaded.
Two plugins, two names, three loads. Fairness: an unload
goes on by itself, callbacks return.

`invoke_callback` gives its lease back before its caller converts the message the
plugin returned (`ReadMessage`): that pointer is read when the module may be gone.
`plugin_api.hpp:20-21` asks plugins to keep it valid "until the callback returns to
the host", which is shorter. No property is about it.

### Notifications: `NotificationCenter`

`unseen` and `history` are `pending_` and `history_`; `inbox` the window messages,
`pumpTimer` the timer, `pumping` that the pump has taken one and not looked for
more. `NoticesAccounted`: nothing is lost without a count, shown twice or out of
order. `NoticesLeave`: what was published with a message does not stay pending.
Published without one (`axiom.cpp:2631`, `3321`, `3329`: at start, and by a failing
load of a plugin) it stays until another is posted. Those taken while notifications
are off are discarded; `total_dropped` counts drops of both queues. Fairness: threads
post what they published, the window handles its messages.

### Clipboard: `ClipboardStore`

`ClipboardAccounted`: the count of bytes is right, limits are exceeded only by pinned
entries, no text is held twice, and pinned entries stay. A new entry may evict itself
when all others are pinned, although its identifier is returned. Everything is under
one mutex, so there are no interleavings; what is hard is the eviction. Five texts, of
which two have the same size and one is too long, for a store of two entries and of
four bytes.

### Index scan gate: `IndexScanGate`

`FileIndex` begins a generation per scan, the scan completes or cancels it, a
newer one supersedes it. Every method holds the mutex for its whole length, so
each is one action, except `wait()`: `WaitBegin` asks, `WaitReturn` is the
predicate of the condition variable becoming true, `WaitStopped` its stop token.

| state | in the code |
|---|---|
| `begun`, `outcomes` | `next_generation_`, `outcomes_` |
| `waiting`, `answer` | per thread: the argument of `wait()` and its result |
| `verdict` | ghost: what became of every generation ever begun |

The list must stay bounded without forgetting what somebody may ask about:
pruning goes from the front and stops at a pending outcome, which is right only
because nothing but the newest can be pending. `Retention` says so;
`OutcomesTruthful` and `WaitersToldTruth` compare what the gate says with
`verdict`; `WaitersReturn` is the liveness. Bounds: two retained outcomes and four
scans, so that outcomes are pruned while two threads wait. Fairness: a waiter
whose predicate holds wakes, and the newest scan completes (scans end:
`ScansEnd` of `FileIndex`).

### File index: `FileIndex`, `MCFileIndex`

| state | in the code |
|---|---|
| `disk`, `events` | the paths that exist; notifications not yet taken by the watch thread |
| `records`, `config`, `status`, `pending` | `records_`, `roots_` and `excluded_directory_names_`, `state_`, `pending_changes_` |
| `generation`, `outcome` | what the gate holds of the newest generation |
| `mutex`, `launch`, `wish` | holder of `worker_mutex_`; where each launcher stands in `launch_scan` |
| `scan`, `unread`, `found`, `todo`, `stopScan` | the scan thread: its walk, its publication, its replay, its stop token |
| `step`, `change`, `known`, `subtree` | the two callers of `remove_path`/`refresh_path`: watch thread and replay, and what they have read |
| `overtaken`, `leftOut`, `wanted`, `published` | ghosts |
| `saved` | the configuration in the settings file |

A path is a directory or a file, `Under` says what is below it, and a configuration is the
set of paths it covers, closed upwards: what holds a path holds its directory, so roots do
not nest. A directory appears with whatever it holds and takes it along, and the watcher is
told of the directory alone; what is in it may change by itself too. The
walk looks at one path per step, a directory before what is in it, so the disk changes on
either side of each look. `refresh_path` is three steps (copy the configuration, read the
subtree, take the lock, drop the records of the subtree and put back what was read), as the
code holds no lock while it reads; an excluded or missing path goes on as `remove_path`,
which drops the subtree. `launch_scan` is a step per lock and one for the join.

`ChangesSurviveScans`: when everything is settled every path is right in the index, except

- `overtaken`: a newer change was applied unnoted when what the replay will do last of an
  older one was already decided (a removal is to be replayed, or its answer has been read),
  so the replay writes after it: the finding `file_index_accurate`. A failed scan
  leaves its noted changes for the next scan's replay, and what happened in between is
  overtaken in the same way. Or the watch thread wrote an answer for a configuration
  that was changed since it had read it.
- `leftOut`: the path is covered, and the last note of it says removed only because it was
  excluded then. `NotedChangesStay` does not except it, and TLC refutes it (section 5).

Either is taken back when a newer change of the path is noted or applied after it, or a
scan publishes with no change of it to replay, so the order of the replay, the subtree that
a write covers and what a superseded scan leaves behind are all checked on every other
path. `ReadyMeansDone`: "ready" and "succeeded" are said when no change is held back.
`ScansEnd`: launches return and generations are resolved.

Bounds: a directory and a file in it, the smallest tree in which a step on one path writes
another; configurations that cover both, the directory or nothing; two changes of the disk,
one configuration command, one recovery, one failing scan, which lets every pair of
scans overlap with a change before, between and after. `ScansEnd`, about no path, is checked
by `threads` with one path and one change. Fairness: the threads; strong for taking `worker_mutex_`, which two launchers may
contend for.

Left out: `refresh_path` reads its subtree in one step (a change of the subtree during that
read is notified, and so read again); nested roots, whose records are kept twice; a look at
the disk that fails with an error, which `refresh_path` takes for a missing path; several
roots, each with a watch thread of its own: one thread applies all notifications, in their
order.

### Watchers and their recovery: `WatcherHealth`, `WatcherRecovery`, `MCWatcherRecovery`

`WatcherHealth` has the methods of the class as operators on its snapshot, each a
critical section. `WatcherRecovery` has the threads: one per watch, the worker of
`WatcherResyncCoordinator`, and the user's.

| state | in the code |
|---|---|
| `health`, `pending`, `restarting` | `WatcherHealth`; the coordinator's `pending_generation`; `watcher_restart_in_progress_` |
| `worker`, `workerGeneration` | where `perform_watcher_resync` stands, and for which issue |
| `ui`, `uiGeneration`, `uiRoots` | the user's thread in an index command, a manual resync, or startup |
| `watch`, `issue`, `fatal`, `told` | the thread of each watch |
| `owned`, `restart`, `toOpen`, `opened` | `FileSystemWatcher::restart`, by the thread that calls it |
| `scan`, `scanRoots`, `unread`, `fresh`, `succeeded` | the scan in progress, as `FileIndex` promises it |
| `stale`, `noted`, `dropped` | ghosts: roots that lost changes, reported losses that no accepted scan repaired, reports dropped during a restart |

`ResyncRepairs`: when the worker marks the watcher resynced, every loss that was
reported by then in the roots its scan was given (`copied`) has been repaired by a scan that
read its root later; and if no call has failed, any other root of the index with such a loss,
which a command has given it since, is in a scan that runs or that the command is about to
launch (`ToBeRead`). So "healthy" may be said while a root is still being read for the
first time; and after a failing scan of a root that was added, without its having been read.
`NothingForgotten`: a need for a resync that nobody works on is one that was
dropped by a restart, or follows a failure. `HealthyNeedsNoRestart`: "healthy" is
not said with a broken watch. `ResyncEnds`: the worker always comes back.

Bounds: two roots, so that a scan has read one and not the other; two losses, one
during the recovery of the other; or one loss and a command that changes the roots, before
their copy, or between the end of the scan and the mark, or elsewhere (the constraint
`LossesOrCommands` keeps two losses and a command apart; the theorem `ResyncsRepair` does
not need it). The user's other commands and failures of restarts
are in `watcher_user`, with one of each. `watcher_recovery` is safety only.

### Runtime scheduler: `RuntimeScheduler`, `MCRuntime`

| state | in the code |
|---|---|
| `deadline`, `interval`, `cancelled` | the fields of a `Task` |
| `queue`, `tasks`, `next` | `queue_` (as a set: `IsTop` is its comparator), `tasks_`, `next_id_` |
| `worker`, `until`, `current` | the worker: looking, asleep without or with a deadline, running a callback |
| `changed` | `revision_ # observed_revision` |
| `stopped`, `stopping` | `stopped_`; the threads inside `stop()` |

The worker holds the mutex except while it sleeps and while it runs a callback;
between the two it takes one step, two after a callback. All other threads, and
the callback, may schedule, cancel and stop. `TableMatchesQueue`, `NeverSleepsPast`,
`QuietAfterStop`, `StartsInOrder`, `TasksStart`, `StopReturns`. Bounds: three tasks
(one that runs, one that waits, one that arrives), delays in the past and the
future, once and recurring, two ticks of the clock. Fairness: the worker, the
clock, and the thread that joins, as far as callbacks return. `stop()` from a
callback does not join and needs none.

### Reminders: `ReminderCenter`

| state | in the code |
|---|---|
| `kind`, `generation`, `runtime`, `next` | `entries` with `arm_generation` and `runtime_task`; `next_id` |
| `mutation` | holder of `mutation_mutex` |
| `live` | the tasks in the scheduler, as (reminder, generation) |
| `at`, `id`, `armed` | where the user's thread and the scheduler's thread stand |
| `disk`, `diskNext` | what `ReminderStore::load()` would return |

Changes of the set hold `mutation_mutex` until they are saved or taken back; arming
and cancelling of tasks come after it is released, in steps of their own, so
that a task may start before it is recorded. A save fails in one of two ways: the
file is unchanged, or (its last flush or rename failed) the next start loads the
change all the same. `Crash` and `Restart` come anywhere.

`ExactlyArmed`: at rest the scheduler has one task per reminder and no other.
`SavedIsKept`, `CancelledStaysCancelled`: what was reported to the user is on file.
`ShownOnce`, `OnceIsShown`. The properties name what the code does not promise:
nothing is claimed between a save that failed at its end and the next one
(`doubtful`); reminders that a failed removal brought back while the worker found
them gone are never armed (`orphans`); one whose firing could not be saved may be
shown again (`repeated`). `clear()` after a stop (a data restore that failed)
empties the file; the model takes that as the user's wish.

Bounds: two reminders, two firings, one failing save and one kill, in any order.
Time is left out: a task may start at any time after it was scheduled, which
allows every order the clock allows. Fairness: the two threads.

### Automations: `AutomationEngine`, `MCAutomationEngine`

| state | in the code |
|---|---|
| `automation`, `generation`, `task`, `next` | `entries`: what is saved of each, `arm_generation`, `runtime_task`; `next_id` |
| `available` | the automations whose action the registry has |
| `mutation`, `inFlight` | holder of `mutation_mutex`; `in_flight` |
| `live`, `armed` | the scheduler's tasks; the one each thread fires or arms |
| `at`, `job` | per thread (user, timer, executions): where it stands, what it works on |
| `operation`, `changed`, `before`, `toCancel`, `toArm` | locals of the command |
| `disk`, `diskNext` | what `AutomationStore::load()` would return |

As for the reminders, with more: executions run on threads of their own and put
their automation back, or change it, when they are complete; the registry's
actions come and go (`PluginChange`) and `reconcile_action_availability` arms and
parks; a change of the clock re-arms calendars (`refresh_calendar_schedules`);
`stop()` waits until `in_flight` is 0. The executor is full or not, as it likes
(`Submit`, `Rejected`). A calendar rule may have no next occurrence
(`AutomationSchedule` says when).

`EnabledIsArmed` and `ParkedIsNotArmed`: at rest, exactly the enabled automations
whose action is there have a task that will fire them, and one each.
`SavedIsKept`, `CancelledStaysCancelled`; `RetriesCounted` and `OnceSucceedsOnce`: a
one-shot action is not run more often than its recorded attempts, across kills, and
never after it succeeded; `StopIsQuiet`, `StopReturns`. They except, by ghosts, what
the code does otherwise, each a behaviour TLC shows:

- `unarmed`: a save that failed after an execution leaves a recurring automation
  without a task; an automation without a next occurrence is disabled.
- `overtaken`: a task is recorded after it has started, or after its action has
  gone; `reconcile` then takes the automation for armed.
- `rewound`: a command whose save failed restores the whole entry, including the
  generation and the task another thread has given it meanwhile: the task in the
  scheduler is void, or a later one has the same generation and both fire. And a
  one-shot automation that is put back for a retry is a new entry, whose
  `arm_generation` starts at 0 again (`automation_engine.cpp:213`): a thread that has
  not recorded an older task of the same generation yet then records it, and there
  are two (TLC shows it with two retries and three disturbances).
- a one-shot automation in flight during `clear()` is put back when it fails and
  is retried, and the retry of a recurring one restores the policy that it fired
  with: neither is claimed otherwise.

Bounds: one automation (no step but the saves relates two; the save of one is the
save of all), one-shot or calendar (an interval does what a calendar does, less the
refresh), two firings, two places for executions, and any two of: commands, failing
saves, kills. Fairness: `Draining`, that while `stop()` waits, the threads it waits
for run on.

### Calendar schedules: `AutomationSchedule`

Days are numbered; of a day it matters on which weekday it falls and whether the
wall-clock time exists on it. `Candidates` are the days that
`next_calendar_occurrence` looks at, `NextOccurrence` the first of them.
`TakeNext` is what firing, restoring and enabling do with it; a change of the clock
(`Refresh`) parks an automation without a next occurrence instead of disabling it. The
module has one run, the finding `calendar_gap`, and is otherwise proved about.

## 4. What is proved

Every theorem is for all values of the constants, under the named assumptions of
the modules, which say no more than that bounds are natural numbers, limits are
positive and sets of the right kind (TLC evaluates them in the runs).

**`RestoreTransactionProofs`**: `TypeCorrect`, `OriginalsAreKept`,
`NoArtifactsLeft`, `JournalIsAccepted`, `RecoveryIsSound` (`AlwaysRecoverable`),
`RemovalIsSettled`, `CommitIsFinal` and
`Refinement`, that the protocol implements `AtomicRestore`. The safety properties
are not inductive
alone; the invariant `IInv` adds where the control can be when the journal is
absent, uncommitted or committed (`Control`), how the journal lags behind the
memory and what its flags say of the disk (`Records`), which files are already
clean (`Shape`), that undoing the journal restores each original (`Backups`), how
far the loops are (`Progress`), and that no destination or backup is ever partial
(`Whole`).  It is proved action by action; the refinement follows from
`ViewsHold`, which reads off `IInv` what the next start would load.

**`ThreadsProofs`**, five parts, each with an invariant of its own.

- The gate: `GateRetention`, `GateIsTruthful`, `WaitersAreToldTruth`, and
  `GateIsTrue`, the three as the run checks them. `GateInv` adds that the list is full
  up to the limit (`Filled`), that verdicts stand unless they are the newest scan's
  (`Settled`), and that threads ask about scans that were begun (`Asked`). Without
  `Settled` a late `complete()` could change what was told.
- The executor: `NoneIsForgotten` (`AcceptedAreRun`, for any finite set of workers).
  `ExecutorInv` says that the queue holds exactly what is accepted and not yet taken
  (`QueueIsAccepted`), that what was started and did not finish is in the hands of one
  worker (`Handed`), that a worker leaves only when the pool is stopped and the queue
  empty (`Closed`), and what the statistics count (`Counted`). Without `Closed` a worker
  could leave a callback that was promised.
- The notifications: `NoticesAreAccounted`. `NoticeInv` says that what is pending and
  what is gone are all that was published, and that whatever is pending is newer than
  whatever is gone (`Split`), that the history has the newest (`Recent`), and bounds the
  count of the dropped (`Dropped`). Without `Split` a notification could be shown after
  a newer one.
- The plugin host: `NoCallAfterFree` (`OnlyMappedCodeRuns`) and `TakesOwnEntries`
  (`OwnEntriesOnly`). `HostInv` says that a gate is on record from before the load
  function runs until nothing of the plugin is left to be called (`GateOfPlugin`), that
  the names on record are entries of the plugin's module and the converse
  (`NamesAreOwn`, `AllAreNoted`), and that a gate counts the callbacks that run and is
  shut before its module goes (`Leases`). Without `AllAreNoted` an entry could outlive
  its module; without `Leases` a `FreeLibrary` could pass a thread that runs in it.
- The clipboard: `ClipboardIsAccounted` (`ClipboardAccounted`, for any texts and
  limits). `ClipboardInv` adds to the property that the numbers of the entries differ
  and that none is ahead of `next_id_`; without that an eviction could take a pinned
  entry along. The count of bytes is a sum over the entries, and what is left after an
  eviction a selection from them: both are recursive functions. That they exist and
  what they compute (`SizeAdds`, `AmongDraws`, `SizesAdd`: what is taken and what is
  left make up the size) is proved by induction on the length, said of the set of
  lengths for which it holds (`UpTo`: a smallest exception would have a smaller one).

**`FileIndexProofs`**: `ScansLoseNothing` (`ScansAreSound`), from `IndexInvariant`, for
any tree of paths, and any number of changes, configurations, recoveries and failing scans.
`ScanShape` relates the phases of a scan to its generation, `StepShape` says what a
thread that applies a change knows of it. The rest is said
path by path, of all changes that concern the path or a directory that it is in: the last
notification tells whether it exists (`NewsOf`); what the walk has missed is ahead of it,
noted, or about to be noted (`WalkOf`); what the replay will do last is right until something
overtakes it (`WaitOf`); and while the index is ready a record is right, or a
notification, the watch thread or the replay will make it right (`RecordOf`), unless the
path is `overtaken` or `leftOut`. Without the part about the walk a change that falls between the
walk of its directory and the swap could be lost.
`ConfigsAssumption` asks that configurations are closed, `PathsAssumption` for one path at
least: `NoChange` is some change.

**`WatcherRecoveryProofs`**: `LossesAreTracked` (`LossesTracked`), `HealthyIsWhole`
(`HealthyNeedsNoRestart`) and `ResyncsRepair` (`ResyncRepairs`), from `WatcherInvariant`, for
any roots, losses, commands and failures. `WatchShape` says which watches exist: those that
the watcher owns, and those that a restart has opened, which it does only where the same
thread's earlier watches are gone. `IssueShape` says who passes the newest issue on: the
worker has taken it, it is queued, or a thread is about to ask. `ScanShape` keeps generations
apart, and `RepairShape` says of a resync that may still be accepted that each root with a
reported loss is still to be visited, or was visited since, and that nothing is left
once its scan succeeded. `WatcherHealth` refuses the acceptance when an issue came in
between: without the condition on the generation `RepairShape` is not inductive.
`CommandShape` says of the losses in roots that a command gives the index after that scan
that the scan in progress reads them, or that the command is about to launch one that does.

**`ReminderCenterProofs`**: `AreArmed` (`RemindersArmed`), `AreKept` (`RemindersKept`)
and `OnceIsShownOnce` (`ShownOnce`), from `CenterInvariant`, for any number of
reminders, firings, failing saves and kills. Only the counters relate reminders to
each other, so `CenterInv` is the shape of the state and, for each reminder: what a
change under way comes back to (`ChangeOf`), that its number is not given out again
while anything knows of it (`NumberOf`), that its task is of the newest generation,
the only one, and can be found when the reminder goes (`TaskOf`), that a reminder has
a task or a thread that will give it one (`RestOf`), and what is on file of it, was
reported of it and was shown of it (`FileOf`, `KeptOf`, `ShownOf`). Without `NumberOf` a late task of an old reminder could
fire a new one.

**`StoresProofs`**: `RemindersAreReadBack`, `AutomationsAreReadBack` and
`SettingsAreKept`, for any number of saves, contents and restarts, with at most one
fault between two saves that succeed (the bound `MaxReminderFaults <= 1` and its
likes): with two the properties are false, since a second broken save can take what made up
for the first. Starts that do not read the settings file are not counted: any number of them
may come. Each invariant orders the generations of the
three files, relates the step of a save to the files, and says that the file, or
its backup when there is no file, holds the last save that returned, or a later one.
`Missing`, `Torn` and `Legacy` are assumed to be no contents.
The journal has two theorems. `NothingIsLeftPlain` (`NoPlaintextLeft`) needs no
bound on the faults: `PlainInv` says how the step of a save relates to the files
(`WriteShape`) and which of them may be in plaintext during it, also when it is
going to fail (`PlainShape`). `JournalIsKept` (`JournalKept`) is for
`MaxJournalFaults <= 2`. `JournalInv` adds that memory, the file and the temporary file
keep the promise at any time (`MemoryTells`, `FilesOrder`), that neither the file nor its
backup is ahead of the generation in memory (`NothingAhead`), when settings and journal
agree on the protection (`Agreement`), that the file that was loaded is not tidied
away (`TidyLeaves`), and what is left after each fault (`FaultsSurvived`): the file
itself and nothing else before the first; the file or both siblings after it; one of
the three after the second. `BestTells` concludes that the file a start takes keeps
the promise, and is where a third fault breaks the proof.
The plugin trust has two theorems. `TrustIsNotRaised` needs no bound on the faults: a
start may come to read an old file, or none, but none that grants more. Its
`TrustInv` says when what is loaded may differ from its record, between the publication
of a record and the unloading (`LoadedShape`), and which files are harmless while
a quarantine is recorded (`CondemnedShape`): the file and the temporary file are, and
the backup, which may still enable the plugin, is unless the file before it can be
read. `TrustIsKept` (`TrustKept`) is for `MaxTrustFaults <= 2`. `OwedInv` says when a
record is owed, also by a removal that may be undone, and counts the ways to it:
the file itself before the first fault, or its backup and the temporary file during the
rename; one way that survives another fault after it; and the file that the next
start takes after the second.

**`RuntimeSchedulerProofs`**: `SchedulerTypes`, `TableIsTheQueue`, `WakesInTime`,
`StopIsQuiet`, the four as `SchedulerIsSound`, and `RunsInOrder`. The invariant adds
that the running task is not in the queue (`RunsAlone`), that nothing is known of a task before it is created
(`Created`), that a one-shot task does not wait again (`RunsOnce`), and who stopped
the scheduler (`StoppedBySomeone`).

**`AutomationProofs`**: `RunsAreAccounted` (`RunsAccounted`), `AutomationsAreKept`
(`AutomationsKept`), `OnceSucceeds` (`OnceSucceedsOnce`) and `AutomationsAreArmed`
(`AutomationsArmed`), from `EngineInvariant`, for any number of automations,
executions, firings, commands, failing saves and kills.
`EngineShape` says where each thread may be and that `mutation_mutex` is held exactly by
the one that saves. The rest is said automation by automation: its number is not given
to another one while anything knows of it (`NumberOf`); a one-shot automation is among
the entries or in the hands of one thread, which has saved that before its action runs
(`CarriedOf`); the attempts are on record wherever it is (`CountOf`); the file says what
memory says or, while a command is saved, what memory said before (`FileOf`); and one
that was accepted is among them, until it is done, cancelled or cleared (`KeptOf`).
Without `CarriedOf` a retry could put a cancelled automation back, or an automation run once
more than its attempts say; without `NumberOf` the late answer to an old automation could
be taken for a new one's. `RunsAreAccounted` needs also that `in_flight_` counts the
threads that execute (`Accounted`). `ExecutorAssumption` asks that no execution has the
name of the free mutex.

`AutomationsAreArmed` needs a second invariant, `ArmInv`, about the tasks. `TaskShape`
says who may hold one, and that no two threads hold the same. For each automation that
`rewound` does not except: no task of it is ahead of its generation, one at most is of
it, and that one is on record, or in the hands of the thread that will record or cancel
it, and not among those that a command is going to cancel (`TasksOf`); an automation
without its action has no task on record (`ParkedOf`); and one that should be armed has a
task that no thread is going to drop, or one that is about to fire, or a thread or a
command that owes it one (`Promised`). All three speak of the entry as it is again when
the save of a command on it fails (`Entry`, `Hidden`): a command that removes an
automation may still have to give it back, with its task. Without `TasksOf` a task of an
older arming could still fire; without `Promised` nothing says that an automation between
two firings will be armed. That a new task differs from all that anyone knows
(`NewTaskIsNew`) is a count: there is one number more than tasks. The first attempt
failed where a retry puts an entry back; that the invariant could not be kept there
was the behaviour described under `rewound`.

Of the calendar: `NextIsFirst` (the search returns the first
occurrence or none), `GapSkippedAhead` and `GapEndsSchedule` (when one day without
the wall-clock time is skipped safely, and when it ends the schedule),
`NeverDueInGap` (an invariant of the specification), `FixedIsFirst` (intervals:
after now, in step with the previous one, nothing skipped that is still ahead).

Every safety property that a passing run checks is proved, under the bounds on
faults that are named above. Only model-checked: every
liveness property (`RecoveryCompletes`, `ExecutorGoesOn`, `WaitersReturn`,
`UnloadReturns`, `NoticesLeave`, `ScansEnd`, `ResyncEnds`, `TasksStart`,
`OnceIsShown`, and `StopReturns` of the scheduler and of the automations), which is out
of the prover's reach.

## 5. Findings

- `restore_stuck` (`restore_transaction.cpp:515`): the rollback takes a created
  file that is already gone for a failure. A kill after its removal and before the
  journal's makes every later start fail although no call fails.
- `file_index_accurate` (`file_index.cpp:549`): a replayed change that asked the
  disk before the watch thread did may write after it; the index stays wrong.
- `watcher_dead` (`filesystem_watcher.cpp:75`): a watch that fails with
  `ERROR_NOTIFY_ENUM_DIR` at the call itself ends its thread but asks for no
  restart; the resync makes the watcher healthy with no watch on the root.
- `calendar_gap` (`automation_schedule.cpp:59`): the two weeks that are searched end
  one day before the occurrence after a gap, when the search starts after today's
  occurrence of the only weekday. The automation is disabled, a week before
  clocks change.

Stated in the modules and refuted by TLC, but not kept as runs:
`FileIndex!ConfigurationKept` and `SettingsKept` (a recovery's scan launched from an
older copy of the configuration supersedes a command's), and `NotedChangesStay`
(`file_index.cpp:403`: during a scan a change of an excluded path is noted as a removal; when
the next scan to publish covers the path, because it was launched from the configuration
before the exclusion or after it was lifted, its replay erases what it has found),
`WatcherRecovery!ReportsAreQueued` (reports during a restart are dropped) and
`HealthyMeansFresh` (the index is scanned before the watches are armed).

## 6. What is not modelled

- Failing allocations; the exit of a watch through `ERROR_OPERATION_ABORTED`; the
  shutdown of the watcher.
- The time of reminders and automations: a task may start at any time.
- The scoring of searches and the fields of a record; statistics of automations.
- Formats, parsers, hashes, metrics, windows and text: see `PROJECT.json`,
  "components".
- The diagnostics ring: one lock around each operation, and nothing it relates to.
- Journal transfer, data archive, support bundle and release verification: a format
  and a file that is replaced as the settings are.
- The order of start and shutdown of `App`, and what runs after a data restore that
  failed: `data_command` (`axiom.cpp:3758-3790`) stops the services before it restores
  and leaves them stopped when that throws.

## 7. Plan

Done, in this order: the restore transaction and its proofs (the only place where
data can be destroyed), the gate and the index, the watchers, the scheduler, the
reminders, the automations, the calendar; then the files of every store, the plugin
host and plugin trust, the executor, the notifications and the clipboard.

The proofs cover the restore, the index and its gate, the watchers, the scheduler, the
reminders, the automations, the calendar, the executor, the plugin host, the
notifications, the clipboard and the files of the reminders, the automations, the settings, the journal
and the plugin trust. Next:

1. `AppLifecycle`: the order of start, data restore and shutdown.
