------------------------------ MODULE FileIndex ------------------------------
(***************************************************************************)
(* FileIndex (src/src/file_index.cpp): the searchable records, rebuilt by  *)
(* full scans and kept current by the notifications of a file-system       *)
(* watcher.                                                                *)
(*                                                                         *)
(* Four threads meet here.  The user's commands change the configuration   *)
(* and launch scans ("ui"); the watcher's recovery launches scans          *)
(* ("recovery"); one scan thread walks the disk and publishes; one watch   *)
(* thread applies notifications in their order.  Each critical section and *)
(* each look at the disk is one step.                                      *)
(*                                                                         *)
(* A configuration (roots and excluded names) is the set of the paths that *)
(* it covers; roots do not nest.  A path is a file or a directory, and a   *)
(* notification of a directory stands for all below it: the index drops    *)
(* the records of the whole subtree, and puts back what it has read of it. *)
(* Notifications are never lost here: their loss is the subject of         *)
(* WatcherRecovery.                                                        *)
(***************************************************************************)
EXTENDS Integers, Sequences, FiniteSets

CONSTANTS Paths, Under,    \* per path: itself and all below it
          Configs,         \* the configurations: sets of covered paths
          MaxChanges, MaxConfigs, MaxRecoveries, MaxFailures  \* bounds

ASSUME PathsAssumption ==
  /\ Paths # {} /\ Under \in [Paths -> SUBSET Paths]
  /\ \A p \in Paths : p \in Under[p]

(* What holds a path holds the directories that it is in.                  *)
Closed(s) == \A p \in Paths : p \notin s => Under[p] \cap s = {}

ASSUME ConfigsAssumption ==
  Configs # {} /\ \A c \in Configs : c \subseteq Paths /\ Closed(c)

Change == [path : Paths, remove : BOOLEAN]
Launchers == {"ui", "recovery"}
Mutators == {"watch", "replay"}
NoChange == [path |-> CHOOSE p \in Paths : TRUE, remove |-> FALSE]

VARIABLES
  disk,          \* the paths that exist
  events,        \* notifications the watch thread has not taken
  records,       \* records_
  config,        \* roots_ and excluded_directory_names_
  status,        \* state_
  pending,       \* pending_changes_
  generation,    \* of the scan gate
  outcome,       \* the gate's outcome of that generation
  mutex,         \* holder of worker_mutex_
  launch,        \* per launcher: where it stands
  wish,          \* per launcher: the configuration it passes to launch_scan
  scan,          \* where the scan thread stands
  scanGeneration, scanConfig, \* its arguments
  stopScan,      \* its stop token
  unread, found, \* what its walk has not visited; next_records
  todo,          \* the changes it has still to replay
  step, change, known, \* per mutator: progress of refresh_path and remove_path
  subtree,        \* per mutator: replacements, what refresh_path read
  changes, configs, recoveries, failures, \* how much of the bounds is spent
  wanted,        \* ghost: the configuration the user's last command set
  saved,         \* settings_: what the last command wrote to disk
  published,     \* ghost: generation of the last published scan
  overtaken,     \* ghost: paths that the replay, or an old configuration, spoils
  leftOut        \* ghost: paths noted as removed for being excluded

index == <<records, config, status, pending>>
scanGate == <<generation, outcome>>
launching == <<mutex, launch, wish>>
scanning == <<scan, scanGeneration, scanConfig, stopScan, unread, found>>
mutating == <<step, change, known, subtree>>
bounds == <<changes, configs, recoveries, failures>>
ghosts == <<wanted, saved, published, overtaken, leftOut>>
vars == <<disk, events, index, scanGate, launching, scanning, todo, mutating,
          bounds, ghosts>>

(* A scan has been published: the program has started. *)
Init ==
  /\ disk \in SUBSET Paths /\ Closed(disk)
  /\ config \in Configs
  /\ records = disk \cap config
  /\ events = <<>> /\ pending = <<>> /\ todo = <<>>
  /\ status = "ready"
  /\ generation = 1 /\ outcome = "succeeded"
  /\ mutex = "free"
  /\ launch = [l \in Launchers |-> "idle"]
  /\ wish = [l \in Launchers |-> config]
  /\ scan = "none" /\ scanGeneration = 1 /\ scanConfig = config
  /\ stopScan = FALSE
  /\ unread = {} /\ found = {}
  /\ step = [t \in Mutators |-> "idle"]
  /\ change = [t \in Mutators |-> NoChange]
  /\ known = [t \in Mutators |-> config] /\ subtree = [t \in Mutators |-> {}]
  /\ changes = 0 /\ configs = 0 /\ recoveries = 0 /\ failures = 0
  /\ wanted = config /\ saved = config /\ published = 1
  /\ overtaken = {} /\ leftOut = {}

-----------------------------------------------------------------------------
(* A file or a directory appears, with whatever is below it, disappears    *)
(* with it, or is modified; the watcher is told of the path alone.         *)
DiskChange(p, d) ==
  /\ changes < MaxChanges
  /\ changes' = changes + 1
  /\ Closed(d) /\ d \ Under[p] = disk \ Under[p]
  /\ p \in disk \cup d /\ (p \in disk \cap d => d = disk)
  /\ disk' = d
  /\ events' = Append(events, [path |-> p, remove |-> p \notin d])
  /\ UNCHANGED <<index, scanGate, launching, scanning, todo, mutating, configs,
                 recoveries, failures, ghosts>>

-----------------------------------------------------------------------------
(* Launching scans *)

(* add_root, remove_root, add_exclusion, remove_exclusion: start() sets    *)
(* the configuration before it launches the scan.                          *)
Configure(c) ==
  /\ launch["ui"] = "idle"
  /\ configs < MaxConfigs
  /\ c # config
  /\ configs' = configs + 1
  /\ config' = c /\ wanted' = c
  /\ wish' = [wish EXCEPT !["ui"] = c]
  /\ launch' = [launch EXCEPT !["ui"] = "begin"]
  /\ UNCHANGED <<disk, events, records, status, pending, scanGate, mutex, scanning,
                 todo, mutating, changes, recoveries, failures, saved,
                 published, overtaken, leftOut>>

(* rebuild_tracked(): the configuration is copied, then a scan launched. *)
Rebuild ==
  /\ launch["recovery"] = "idle"
  /\ recoveries < MaxRecoveries
  /\ recoveries' = recoveries + 1
  /\ wish' = [wish EXCEPT !["recovery"] = config]
  /\ launch' = [launch EXCEPT !["recovery"] = "begin"]
  /\ UNCHANGED <<disk, events, index, scanGate, mutex, scanning, todo, mutating,
                 changes, configs, failures, ghosts>>

(* launch_scan() takes worker_mutex_, begins a generation, which supersedes *)
(* an unresolved one, and asks the previous scan to stop.                  *)
LaunchBegin(l) ==
  /\ launch[l] = "begin"
  /\ mutex = "free"
  /\ mutex' = l
  /\ generation' = generation + 1
  /\ outcome' = "pending"
  /\ stopScan' = (stopScan \/ scan # "none")
  /\ launch' = [launch EXCEPT ![l] = "join"]
  /\ UNCHANGED <<disk, events, index, wish, scan, scanGeneration, scanConfig,
                 unread, found, todo, mutating, bounds, ghosts>>

(* Mutant: an early return that keeps worker_mutex_. *)
ReleaseMut == UNCHANGED mutex

Release == mutex' = "free"

(* What the user's command does when start() has returned. *)
AfterLaunch(l) == IF l = "ui" THEN "save" ELSE "idle"

(* It joins the previous scan and starts the new thread. *)
LaunchThread(l) ==
  /\ launch[l] = "join"
  /\ scan = "none"
  /\ status' = "indexing"
  /\ scan' = "walk"
  /\ scanGeneration' = generation /\ scanConfig' = wish[l]
  /\ stopScan' = FALSE
  /\ unread' = wish[l] /\ found' = {}
  /\ Release
  /\ launch' = [launch EXCEPT ![l] = AfterLaunch(l)]
  /\ UNCHANGED <<disk, events, records, config, pending, scanGate, wish, todo,
                 mutating, bounds, ghosts>>

(* on_index_configuration_changed(): the settings take over what the index *)
(* says its configuration is.                                              *)
SaveSettings ==
  /\ launch["ui"] = "save"
  /\ saved' = config
  /\ launch' = [launch EXCEPT !["ui"] = "idle"]
  /\ UNCHANGED <<disk, events, index, scanGate, mutex, wish, scanning, todo,
                 mutating, bounds, wanted, published, overtaken, leftOut>>

(* FileIndex::stop(), after the recovery and the watcher have stopped. *)
StopBegin ==
  /\ \A l \in Launchers : launch[l] = "idle"
  /\ mutex = "free" /\ step["watch"] = "idle" /\ events = <<>>
  /\ mutex' = "ui"
  /\ stopScan' = TRUE
  /\ outcome' = IF scan # "none" /\ outcome = "pending" THEN "superseded"
                ELSE outcome
  /\ launch' = [l \in Launchers |-> "stopping"]
  /\ UNCHANGED <<disk, events, index, generation, wish, scan, scanGeneration,
                 scanConfig, unread, found, todo, mutating, bounds, ghosts>>

-----------------------------------------------------------------------------
(* The scan thread *)

(* complete() and cancel() resolve only a pending generation. *)
Resolve(o) ==
  outcome' = IF scanGeneration = generation /\ outcome = "pending" THEN o
             ELSE outcome

ScanStopped ==
  /\ scan = "walk" /\ stopScan
  /\ Resolve("superseded")
  /\ scan' = "none"
  /\ UNCHANGED <<disk, events, index, generation, launching, scanGeneration,
                 scanConfig, stopScan, unread, found, todo, mutating, bounds,
                 ghosts>>

(* A directory is visited before what it holds; what is below a directory  *)
(* that is not there is not visited.                                       *)
ScanVisit(p) ==
  /\ scan = "walk" /\ ~stopScan
  /\ p \in unread /\ \A q \in unread \ {p} : p \notin Under[q]
  /\ unread' = unread \ (IF p \in disk THEN {p} ELSE Under[p])
  /\ found' = found \cup ({p} \cap disk)
  /\ UNCHANGED <<disk, events, index, scanGate, launching, scan, scanGeneration,
                 scanConfig, stopScan, todo, mutating, bounds, ghosts>>

(* The walk is over and the stop token checked for the last time. *)
ScanDone ==
  /\ scan = "walk" /\ ~stopScan /\ unread = {}
  /\ scan' = "publish"
  /\ UNCHANGED <<disk, events, index, scanGate, launching, scanGeneration,
                 scanConfig, stopScan, unread, found, todo, mutating, bounds,
                 ghosts>>

AfterPublish == "replay"

(* Mutant: changes noted during the scan are forgotten. *)
ToReplayMut == <<>>

ToReplay == pending

(* Some change of the list, or the last that concerns p if it is a removal. *)
Concerns(c, p) == p \in Under[c.path]
In(p, s) == \E i \in DOMAIN s : Concerns(s[i], p)
RemovedLast(p, s) ==
  \E i \in DOMAIN s : /\ s[i].remove /\ Concerns(s[i], p)
                      /\ \A j \in (i + 1)..Len(s) : ~Concerns(s[j], p)

ScanPublish ==
  /\ scan = "publish"
  /\ records' = found
  /\ config' = scanConfig
  /\ todo' = ToReplay /\ pending' = <<>>
  /\ status' = "ready"
  /\ published' = scanGeneration
  /\ overtaken' = {p \in overtaken : In(p, pending)}
  /\ leftOut' = {p \in leftOut : In(p, pending)}
  /\ scan' = AfterPublish
  /\ UNCHANGED <<disk, events, scanGate, launching, scanGeneration, scanConfig,
                 stopScan, unread, found, mutating, bounds, wanted, saved>>

ScanResolve ==
  /\ \/ scan = "replay" /\ todo = <<>> /\ step["replay"] = "idle"
     \/ scan = "resolve"
  /\ Resolve("succeeded")
  /\ scan' = "none"
  /\ UNCHANGED <<disk, events, index, generation, launching, scanGeneration,
                 scanConfig, stopScan, unread, found, todo, mutating, bounds,
                 ghosts>>

Failure == "failed"

(* The walk throws. *)
ScanFails ==
  /\ scan = "walk"
  /\ failures < MaxFailures
  /\ failures' = failures + 1
  /\ status' = "failed"
  /\ Resolve(Failure)
  /\ scan' = "none"
  /\ UNCHANGED <<disk, events, records, config, pending, generation, launching,
                 scanGeneration, scanConfig, stopScan, unread, found, todo,
                 mutating, changes, configs, recoveries, ghosts>>

-----------------------------------------------------------------------------
(* refresh_path() and remove_path(), on the watch and on the scan thread *)

TakeChange(t, c) ==
  /\ step[t] = "idle"
  /\ change' = [change EXCEPT ![t] = c]
  /\ step' = [step EXCEPT ![t] = IF c.remove THEN "noteRemove" ELSE "noteRefresh"]

TakeEvent ==
  /\ events # <<>>
  /\ TakeChange("watch", Head(events))
  /\ events' = Tail(events)
  /\ UNCHANGED <<disk, index, scanGate, launching, scanning, todo, known, subtree,
                 bounds, ghosts>>

TakeReplay ==
  /\ scan = "replay" /\ todo # <<>>
  /\ TakeChange("replay", Head(todo))
  /\ todo' = Tail(todo)
  /\ UNCHANGED <<disk, events, index, scanGate, launching, scanning, known, subtree,
                 bounds, ghosts>>

Indexing == status = "indexing"

(* The paths that the change of t is about.                                *)
Target(t) == Under[change[t].path]

(* Ghost: what the replay will do to p last is already decided.            *)
ReplayDecides(p) ==
  \/ RemovedLast(p, pending) \/ RemovedLast(p, todo)
  \/ /\ step["replay"] \in {"insert", "noteRemove", "erase"}
     /\ p \in Target("replay") /\ ~In(p, todo)

(* Ghost: a change that is not noted overtakes what the replay will do; one *)
(* that is noted puts that right, unless it is noted as a removal only     *)
(* because the path is excluded.                                           *)
RememberNote(t) ==
  LET excluded == step[t] = "noteRemove" /\ ~change[t].remove /\ change[t].path \notin known[t]
  IN /\ overtaken' = IF Indexing THEN overtaken \ Target(t)
                     ELSE overtaken \cup {p \in Target(t) : t = "watch" /\ ReplayDecides(p)}
     /\ leftOut' = IF ~Indexing THEN leftOut
                   ELSE IF excluded THEN leftOut \cup Target(t) ELSE leftOut \ Target(t)

(* While a scan runs the change is also kept for its replay. *)
Note(t) ==
  /\ step[t] \in {"noteRemove", "noteRefresh"}
  /\ pending' = IF Indexing
                  THEN Append(pending, [path |-> change[t].path,
                                        remove |-> step[t] = "noteRemove"])
                  ELSE pending
  /\ step' = [step EXCEPT ![t] = IF step[t] = "noteRemove" THEN "erase" ELSE "read"]
  /\ RememberNote(t)
  /\ UNCHANGED <<disk, events, records, config, status, scanGate, launching,
                 scanning, todo, change, known, subtree, bounds, wanted, saved,
                 published>>

ReadConfig(t) ==
  /\ step[t] = "read"
  /\ known' = [known EXCEPT ![t] = config]
  /\ step' = [step EXCEPT ![t] = "probe"]
  /\ UNCHANGED <<disk, events, index, scanGate, launching, scanning, todo, change,
                 subtree, bounds, ghosts>>

(* A path outside the roots is ignored, an excluded or missing one removed; *)
(* one that exists is read from the disk, with all below it that is covered. *)
Probe(t) ==
  /\ step[t] = "probe"
  /\ LET p == change[t].path
     IN \/ p \notin known[t] /\ step' = [step EXCEPT ![t] = "idle"]
           /\ UNCHANGED subtree
        \/ p \notin known[t] \cap disk /\ step' = [step EXCEPT ![t] = "noteRemove"]
           /\ UNCHANGED subtree
        \/ p \in known[t] \cap disk /\ step' = [step EXCEPT ![t] = "insert"]
           /\ subtree' = [subtree EXCEPT ![t] = Target(t) \cap known[t] \cap disk]
  /\ UNCHANGED <<disk, events, index, scanGate, launching, scanning, todo, change,
                 known, bounds, ghosts>>

(* Ghost: the watch thread puts right what the replay will not undo, but    *)
(* what it writes for a configuration that is no longer may be wrong.      *)
RememberWrite(t) ==
  LET done == {p \in Target(t) : t = "watch" /\ ~ReplayDecides(p)}
      wrong == {p \in Target(t) : (p \in records') # (p \in disk \cap config)}
      old == t = "watch" /\ ~change[t].remove /\ known[t] # config
  IN /\ overtaken' = (overtaken \ done) \cup (IF old THEN wrong ELSE {})
     /\ leftOut' = leftOut \ done

Insert(t) ==
  /\ step[t] = "insert"
  /\ records' = (records \ Target(t)) \cup subtree[t]
  /\ RememberWrite(t)
  /\ step' = [step EXCEPT ![t] = "idle"]
  /\ UNCHANGED <<disk, events, config, status, pending, scanGate, launching,
                 scanning, todo, change, known, subtree, bounds, wanted, saved,
                 published>>

Erase(t) ==
  /\ step[t] = "erase"
  /\ records' = records \ Target(t)
  /\ RememberWrite(t)
  /\ step' = [step EXCEPT ![t] = "idle"]
  /\ UNCHANGED <<disk, events, config, status, pending, scanGate, launching,
                 scanning, todo, change, known, subtree, bounds, wanted, saved,
                 published>>

Mutate(t) == Note(t) \/ ReadConfig(t) \/ Probe(t) \/ Insert(t) \/ Erase(t)

-----------------------------------------------------------------------------
Launch(l) == LaunchBegin(l) \/ LaunchThread(l)

ScanThread ==
  \/ ScanStopped \/ (\E p \in Paths : ScanVisit(p)) \/ ScanDone \/ ScanPublish
  \/ TakeReplay \/ Mutate("replay") \/ ScanResolve

WatchThread == TakeEvent \/ Mutate("watch")

Next ==
  \/ \E p \in Paths, d \in SUBSET Paths : DiskChange(p, d)
  \/ \E c \in Configs : Configure(c)
  \/ Rebuild \/ SaveSettings \/ StopBegin
  \/ \E l \in Launchers : Launch(l)
  \/ ScanThread \/ ScanFails
  \/ WatchThread

Spec == Init /\ [][Next]_vars

(* Threads that can run do run; users, disks and failures are free. *)
Fairness ==
  /\ WF_vars(ScanThread) /\ WF_vars(WatchThread) /\ WF_vars(SaveSettings)
  /\ \A l \in Launchers : SF_vars(LaunchBegin(l)) /\ WF_vars(LaunchThread(l))

FairSpec == Spec /\ Fairness

-----------------------------------------------------------------------------
TypeOK ==
  /\ disk \subseteq Paths /\ records \subseteq Paths
  /\ events \in Seq(Change) /\ pending \in Seq(Change) /\ todo \in Seq(Change)
  /\ config \in Configs /\ scanConfig \in Configs
  /\ wanted \in Configs /\ saved \in Configs
  /\ status \in {"indexing", "ready", "failed"}
  /\ generation \in Nat /\ scanGeneration \in Nat /\ published \in Nat
  /\ outcome \in {"pending", "succeeded", "failed", "superseded"}
  /\ mutex \in Launchers \cup {"free"}
  /\ launch \in [Launchers -> {"idle", "begin", "join", "save", "stopping"}]
  /\ launch["recovery"] # "save"
  /\ wish \in [Launchers -> Configs]
  /\ scan \in {"none", "walk", "publish", "replay", "resolve"}
  /\ stopScan \in BOOLEAN
  /\ unread \subseteq Paths /\ found \subseteq Paths
  /\ overtaken \subseteq Paths /\ leftOut \subseteq Paths
  /\ step \in [Mutators -> {"idle", "noteRemove", "noteRefresh", "read",
                            "probe", "insert", "erase"}]
  /\ change \in [Mutators -> Change] /\ known \in [Mutators -> Configs]
  /\ subtree \in [Mutators -> SUBSET Paths]
  /\ changes \in Nat /\ configs \in Nat /\ recoveries \in Nat /\ failures \in Nat

(* Nothing is in flight and the index calls itself ready. *)
Settled ==
  /\ events = <<>> /\ step = [t \in Mutators |-> "idle"]
  /\ scan = "none" /\ \A l \in Launchers : launch[l] = "idle"
  /\ status = "ready"

Accurate(p) == p \in records <=> p \in disk \cap config

(* A change that arrives during a scan, on either side of the walk and of  *)
(* the swap, is in the index when things settle.  Not claimed of a path    *)
(* whose newer change was applied unnoted although an older one was still  *)
(* to be replayed, or that was written for a configuration changed since;  *)
(* nor of one whose last noted change says removed because it was excluded *)
(* then, if it is covered now.                                             *)
ChangesSurviveScans ==
  Settled => \A p \in Paths \ (overtaken \cup (leftOut \cap config)) : Accurate(p)

(* The index always converges to the disk: "replay those mutations after   *)
(* publishing the scan so a late create, delete, or rename cannot be       *)
(* overwritten", and refresh_path() shows "the current filesystem state".  *)
IndexAccurate == Settled => \A p \in Paths : Accurate(p)

(* A change noted during a scan is in the index after its replay: "so a    *)
(* late create, delete, or rename cannot be overwritten by the snapshot    *)
(* swap".  This one excepts only what a newer change overtook.             *)
NotedChangesStay == Settled => \A p \in Paths \ overtaken : Accurate(p)

(* Only a scan that was published, and whose missed changes have all been  *)
(* replayed, is ever reported to a waiter as succeeded.                    *)
SuccessMeansPublished ==
  outcome = "succeeded" => published = generation /\ todo = <<>>

(* An index that calls itself ready holds no change back: what a cancelled *)
(* or failed scan left pending is taken over by the next one.              *)
PendingOnlyWhileScanning == status = "ready" => pending = <<>>

(* "Ready" and "succeeded" are said when nothing is left to do for them. *)
ReadyMeansDone == SuccessMeansPublished /\ PendingOnlyWhileScanning

(* Whatever happens around a scan, no change is lost by it, and it is not  *)
(* reported as done before it is.                                          *)
ScansAreSound == TypeOK /\ ChangesSurviveScans /\ ReadyMeansDone

(* After a configuration command has returned, the index keeps that        *)
(* configuration: a "new root should become searchable", a "removed root   *)
(* must disappear from results".                                           *)
ConfigurationKept == Settled => config = wanted

(* The settings file gets the configuration the user asked for. *)
SettingsKept == launch["ui"] = "idle" => saved = wanted

(* The launcher gives worker_mutex_ back, the scan its verdict. *)
LaunchesReturn ==
  \A l \in Launchers : (launch[l] = "begin") ~> (launch[l] # "begin" /\ mutex # l)
GenerationsResolve == (outcome = "pending") ~> (outcome # "pending")

(* Every launch returns and every generation is resolved, so that neither  *)
(* the user interface nor the recovery waits for ever.                     *)
ScansEnd == LaunchesReturn /\ GenerationsResolve
=============================================================================
