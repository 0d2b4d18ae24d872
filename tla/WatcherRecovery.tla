--------------------------- MODULE WatcherRecovery ---------------------------
(***************************************************************************)
(* How lost file notifications are noticed and repaired: the watches of    *)
(* FileSystemWatcher, WatcherHealth, WatcherResyncCoordinator and the      *)
(* functions of App that wire them to the file index (src/src/axiom.cpp).  *)
(*                                                                         *)
(* Threads: one per watch, the resync worker ("worker"), and the user's    *)
(* thread ("ui"), which also starts everything.  Both "ui" and "worker"    *)
(* restart the watches, and nothing keeps them apart.                      *)
(*                                                                         *)
(* The index is what FileIndex promises: a scan visits its roots one after *)
(* another and publishes what it saw; a watched change is applied; a newer *)
(* scan supersedes an unfinished one (IndexScanGate).                      *)
(***************************************************************************)
EXTENDS WatcherHealth, FiniteSets

CONSTANTS Roots, Configs,         \* the configurations: sets of roots
          MaxLosses, MaxConfigs, MaxManual, MaxFailures  \* bounds

ASSUME RootsAssumption ==
         /\ IsFiniteSet(Roots)
         /\ Configs # {} /\ \A c \in Configs : c # {} /\ c \subseteq Roots

Restarters == {"ui", "worker"}

(* A watch, by its root and by the thread that opened it: a thread destroys *)
(* its earlier watches before it opens new ones.                           *)
Watches == Roots \X Restarters

VARIABLES
  roots,        \* roots_ of the index
  health,       \* WatcherHealth
  pending,      \* pending_generation of the coordinator, 0 for none
  restarting,   \* watcher_restart_in_progress_
  worker, workerGeneration, \* where the resync worker stands, for which issue
  ui, uiGeneration, uiRoots, \* where the user's thread stands, what it passes on
  watch,        \* per watch: its thread
  issue,        \* per watch: the issue it reports
  fatal,        \* per watch: its thread ends after the report
  told,         \* per watch: the generation that noting the issue returned
  owned,        \* watches_ of FileSystemWatcher
  restart,      \* per restarter: where its restart stands
  toOpen,       \* per restarter: the roots it has still to open
  opened,       \* per restarter: the watches it opened
  scan,         \* generation of the scan in progress, 0 for none
  scanRoots, unread, fresh, \* its roots, those not visited, those seen as they are
  generation, succeeded,    \* the scan gate: the newest generation, the successful
  copied,       \* the roots that rebuild_tracked() copied
  awaited,      \* the generation the worker waits for
  losses, configs, manual, failures, \* how much of the bounds is spent
  stale,        \* ghost: roots of which the index misses a change
  noted,        \* ghost: roots with a reported issue that no scan repaired
  visited,      \* ghost: roots visited by the scan since they were noted
  dropped,      \* ghost: a report was not queued because of a restart
  taken         \* ghost: the newest generation the worker has taken

watching == <<watch, issue, fatal, told, owned>>
restarts == <<restart, toOpen, opened>>
index == <<scan, scanRoots, unread, fresh, visited, generation, succeeded>>
user == <<ui, uiGeneration, uiRoots>>
coordination == <<pending, worker, workerGeneration, copied, awaited, taken>>
bounds == <<losses, configs, manual, failures>>
vars == <<roots, health, restarting, user, watching, restarts, index,
          coordination, bounds, stale, noted, dropped>>

(* App's constructor is about to launch the first scan. *)
Init ==
  /\ roots \in Configs
  /\ health = NewHealth
  /\ pending = 0 /\ worker = "wait" /\ workerGeneration = 0
  /\ restarting = FALSE
  /\ ui = "launch" /\ uiGeneration = 0 /\ uiRoots = roots
  /\ watch = [w \in Watches |-> "none"]
  /\ issue = [w \in Watches |-> "overflow"]
  /\ fatal = [w \in Watches |-> FALSE]
  /\ told = [w \in Watches |-> 0]
  /\ owned = {}
  /\ restart = [o \in Restarters |-> "idle"]
  /\ toOpen = [o \in Restarters |-> {}]
  /\ opened = [o \in Restarters |-> {}]
  /\ scan = 0 /\ scanRoots = {} /\ unread = {} /\ fresh = {}
  /\ generation = 0 /\ succeeded = {}
  /\ copied = {} /\ awaited = 0
  /\ losses = 0 /\ configs = 0 /\ manual = 0 /\ failures = 0
  /\ stale = Roots /\ noted = {} /\ visited = {} /\ dropped = FALSE /\ taken = 0

-----------------------------------------------------------------------------
(* Watches and what they miss *)

Armed(r) ==
  \E o \in Restarters : watch[<<r, o>>] \in {"watching", "note", "ask"}

Miss(r) == stale' = stale \cup {r} /\ fresh' = fresh \ {r}

Lossy == losses < MaxLosses /\ losses' = losses + 1

(* Something changes where no watch looks. *)
UnwatchedChange(r) ==
  /\ Lossy
  /\ ~Armed(r) /\ generation # 0
  /\ Miss(r) /\ UNCHANGED visited
  /\ UNCHANGED <<roots, health, restarting, user, watching, restarts, scan,
                 scanRoots, unread, generation, succeeded, coordination,
                 configs, manual, failures, noted, dropped>>

(* The first ReadDirectoryChangesW of a watch. *)
Arm(w) ==
  /\ watch[w] = "open"
  /\ watch' = [watch EXCEPT ![w] = "watching"]
  /\ UNCHANGED <<roots, health, restarting, user, issue, fatal, told, owned,
                 restarts, index, coordination, bounds, stale, noted, dropped>>

(* The buffer overflows, or the result cannot be had: the thread reports   *)
(* that and waits again.  When ReadDirectoryChangesW itself fails, for     *)
(* either reason, or the wait does, the thread ends after its report.      *)
Trouble(w, kind, ends) ==
  /\ watch[w] = "watching" \/ (watch[w] = "open" /\ ends)
  /\ Lossy
  /\ Miss(w[1]) /\ UNCHANGED visited
  /\ watch' = [watch EXCEPT ![w] = "note"]
  /\ issue' = [issue EXCEPT ![w] = kind]
  /\ fatal' = [fatal EXCEPT ![w] = ends]
  /\ UNCHANGED <<roots, health, restarting, user, told, owned, restarts, scan,
                 scanRoots, unread, generation, succeeded, coordination,
                 configs, manual, failures, noted, dropped>>

(* handle_watcher_issue(): the issue is noted ...                          *)
Note(w) ==
  /\ watch[w] = "note"
  /\ health' = NoteIssue(health, issue[w])
  /\ told' = [told EXCEPT ![w] = health'.generation]
  /\ noted' = noted \cup {w[1]} /\ visited' = visited \ {w[1]}
  /\ watch' = [watch EXCEPT ![w] = "ask"]
  /\ UNCHANGED <<roots, restarting, user, issue, fatal, owned, restarts, scan,
                 scanRoots, unread, fresh, generation, succeeded, coordination,
                 bounds, stale, dropped>>

(* Mutant: only a first request is queued. *)
RequestMut(g) == IF taken = 0 THEN g ELSE pending

(* WatcherResyncCoordinator::request() *)
Request(g) == IF g > pending THEN g ELSE pending

(* ... and a resync requested, unless a restart is in progress.            *)
Ask(w) ==
  /\ watch[w] = "ask"
  /\ IF restarting
       THEN pending' = pending /\ dropped' = TRUE
       ELSE pending' = Request(told[w]) /\ UNCHANGED dropped
  /\ watch' = [watch EXCEPT ![w] = IF fatal[w] THEN "dead" ELSE "watching"]
  /\ UNCHANGED <<roots, health, restarting, user, issue, fatal, told, owned,
                 restarts, index, worker, workerGeneration, copied, awaited,
                 taken, bounds, stale, noted>>

WatchThread(w) == Arm(w) \/ Note(w) \/ Ask(w)

-----------------------------------------------------------------------------
(* restart_file_watcher() and FileSystemWatcher::start() *)

(* Joining the threads of a set of watches waits for their callbacks. *)
Joinable(ws) == \A w \in ws : watch[w] \notin {"note", "ask"}

BeginRestart(o) ==
  /\ restart' = [restart EXCEPT ![o] = "stop"]
  /\ toOpen' = [toOpen EXCEPT ![o] = roots]
  /\ UNCHANGED opened

StopWatches(o) ==
  /\ restart[o] = "stop"
  /\ Joinable(owned)
  /\ watch' = [w \in Watches |-> IF w \in owned THEN "none" ELSE watch[w]]
  /\ owned' = {}
  /\ restart' = [restart EXCEPT ![o] = "open"]
  /\ UNCHANGED <<roots, health, restarting, user, issue, fatal, told, toOpen,
                 opened, index, coordination, bounds, stale, noted, dropped>>

Open(o, r) ==
  /\ restart[o] = "open" /\ r \in toOpen[o]
  /\ toOpen' = [toOpen EXCEPT ![o] = @ \ {r}]
  /\ opened' = [opened EXCEPT ![o] = @ \cup {<<r, o>>}]
  /\ watch' = [watch EXCEPT ![<<r, o>>] = "open"]
  /\ UNCHANGED <<roots, health, restarting, user, issue, fatal, told, owned,
                 restart, index, coordination, bounds, stale, noted, dropped>>

(* A root that is no directory is skipped in silence; a root that cannot   *)
(* be opened is reported by the thread that restarts.                      *)
OpenFails(o, r, silent) ==
  /\ restart[o] = "open" /\ r \in toOpen[o]
  /\ failures < MaxFailures /\ failures' = failures + 1
  /\ toOpen' = [toOpen EXCEPT ![o] = @ \ {r}]
  /\ IF silent THEN UNCHANGED <<health, pending>>
     ELSE /\ health' = NoteIssue(health, "error")
          /\ pending' = IF restarting THEN pending
                        ELSE Request(health'.generation)
  /\ UNCHANGED <<roots, restarting, user, watching, restart, opened, index,
                 worker, workerGeneration, copied, awaited, taken, losses,
                 configs, manual, stale, noted, dropped>>

(* watches_ = std::move(next) destroys what is there by now. *)
AssignWatches(o) ==
  /\ restart[o] = "open" /\ toOpen[o] = {}
  /\ Joinable(owned)
  /\ watch' = [w \in Watches |-> IF w \in owned THEN "none" ELSE watch[w]]
  /\ owned' = opened[o]
  /\ opened' = [opened EXCEPT ![o] = {}]
  /\ restart' = [restart EXCEPT ![o] = "update"]
  /\ UNCHANGED <<roots, health, restarting, user, issue, fatal, told, toOpen,
                 index, coordination, bounds, stale, noted, dropped>>

UpdateHealth(o) ==
  /\ restart[o] = "update"
  /\ health' = UpdateRoots(health, Cardinality(owned))
  /\ restart' = [restart EXCEPT ![o] = "idle"]
  /\ ui' = IF o = "ui" THEN "idle" ELSE ui
  /\ worker' = IF o = "worker" THEN "unflag" ELSE worker
  /\ UNCHANGED <<roots, restarting, uiGeneration, uiRoots, watching, toOpen,
                 opened, index, pending, workerGeneration, copied, awaited,
                 taken, bounds, stale, noted, dropped>>

Restart(o) ==
  \/ StopWatches(o) \/ AssignWatches(o) \/ UpdateHealth(o)
  \/ \E r \in Roots : Open(o, r)

-----------------------------------------------------------------------------
(* The index *)

Launch(R) ==
  /\ generation' = generation + 1
  /\ scan' = generation + 1
  /\ scanRoots' = R /\ unread' = R /\ fresh' = {} /\ visited' = {}
  /\ UNCHANGED succeeded

Visit(r) ==
  /\ scan # 0 /\ r \in unread
  /\ unread' = unread \ {r} /\ fresh' = fresh \cup {r}
  /\ visited' = visited \cup {r}
  /\ UNCHANGED <<roots, health, restarting, user, watching, restarts, scan,
                 scanRoots, generation, succeeded, coordination, bounds, stale,
                 noted, dropped>>

PublishedRoots == scanRoots

Publish ==
  /\ scan # 0 /\ unread = {}
  /\ roots' = PublishedRoots
  /\ stale' = Roots \ fresh
  /\ noted' = noted \ visited
  /\ succeeded' = succeeded \cup {scan}
  /\ scan' = 0
  /\ UNCHANGED <<health, restarting, user, watching, restarts, scanRoots,
                 unread, fresh, visited, generation, coordination, bounds,
                 dropped>>

ScanFails ==
  /\ scan # 0
  /\ failures < MaxFailures /\ failures' = failures + 1
  /\ scan' = 0
  /\ UNCHANGED <<roots, health, restarting, user, watching, restarts, scanRoots,
                 unread, fresh, visited, generation, succeeded, coordination, losses,
                 configs, manual, stale, noted, dropped>>

Scan == Publish \/ \E r \in Roots : Visit(r)

-----------------------------------------------------------------------------
(* The user's thread *)

(* An index command: FileIndex::start() sets the roots, then launches. *)
Configure(c) ==
  /\ ui = "idle"
  /\ configs < MaxConfigs /\ configs' = configs + 1
  /\ c # roots
  /\ roots' = c /\ uiRoots' = c
  /\ ui' = "launch"
  /\ UNCHANGED <<health, restarting, uiGeneration, watching, restarts, index,
                 coordination, losses, manual, failures, stale, noted, dropped>>

(* "index rebuild" *)
Rebuild ==
  /\ ui = "idle"
  /\ manual < MaxManual /\ manual' = manual + 1
  /\ uiRoots' = roots
  /\ ui' = "rebuild"
  /\ UNCHANGED <<roots, health, restarting, uiGeneration, watching, restarts,
                 index, coordination, losses, configs, failures, stale, noted,
                 dropped>>

LaunchScan ==
  /\ ui \in {"launch", "rebuild"}
  /\ Launch(uiRoots)
  /\ ui' = IF ui = "rebuild" THEN "idle" ELSE "save"
  /\ UNCHANGED <<roots, health, restarting, uiGeneration, uiRoots, watching,
                 restarts, coordination, bounds, stale, noted, dropped>>

(* on_index_configuration_changed(): the settings are saved, and only then *)
(* the watches restarted.  The constructor saves nothing.                  *)
SaveFails ==
  /\ ui = "save" /\ configs > 0
  /\ failures < MaxFailures /\ failures' = failures + 1
  /\ ui' = "idle"
  /\ UNCHANGED <<roots, health, restarting, uiGeneration, uiRoots, watching,
                 restarts, index, coordination, losses, configs, manual, stale,
                 noted, dropped>>

RestartForUser ==
  /\ ui = "save"
  /\ BeginRestart("ui")
  /\ health' = Started(health, Cardinality(roots))
  /\ ui' = "restart"
  /\ UNCHANGED <<roots, restarting, uiGeneration, uiRoots, watching, index,
                 coordination, bounds, stale, noted, dropped>>

(* "index resync" *)
ManualResync ==
  /\ ui = "idle"
  /\ manual < MaxManual /\ manual' = manual + 1
  /\ health.roots # 0
  /\ health' = RequestResync(health)
  /\ uiGeneration' = health'.generation
  /\ ui' = "request"
  /\ UNCHANGED <<roots, restarting, uiRoots, watching, restarts, index,
                 coordination, losses, configs, failures, stale, noted, dropped>>

RequestManual ==
  /\ ui = "request"
  /\ pending' = Request(uiGeneration)
  /\ ui' = "idle"
  /\ UNCHANGED <<roots, health, restarting, uiGeneration, uiRoots, watching,
                 restarts, index, worker, workerGeneration, copied, awaited,
                 taken, bounds, stale, noted, dropped>>

UiThread == LaunchScan \/ RestartForUser \/ RequestManual

-----------------------------------------------------------------------------
(* WatcherResyncCoordinator::run() and perform_watcher_resync() *)

Take ==
  /\ worker = "wait" /\ pending # 0
  /\ workerGeneration' = pending
  /\ taken' = IF pending > taken THEN pending ELSE taken
  /\ pending' = 0
  /\ worker' = "check"
  /\ UNCHANGED <<roots, health, restarting, user, watching, restarts, index,
                 copied, awaited, bounds, stale, noted, dropped>>

Goto(step) ==
  /\ worker' = step
  /\ UNCHANGED <<pending, workerGeneration, copied, awaited, taken>>

Current == health.generation = workerGeneration

Check ==
  /\ worker = "check"
  /\ Goto(IF ~Current THEN "mark" ELSE IF health.restart THEN "flag" ELSE "copy")
  /\ UNCHANGED <<roots, health, restarting, user, watching, restarts, index,
                 bounds, stale, noted, dropped>>

RestartForRecovery ==
  /\ worker = "flag"
  /\ restarting' = TRUE
  /\ BeginRestart("worker")
  /\ Goto("restart")
  /\ UNCHANGED <<roots, health, user, watching, index, bounds, stale, noted,
                 dropped>>

Unflag ==
  /\ worker = "unflag"
  /\ restarting' = FALSE
  /\ Goto("recheck")
  /\ UNCHANGED <<roots, health, user, watching, restarts, index, bounds, stale,
                 noted, dropped>>

Recheck ==
  /\ worker = "recheck"
  /\ Goto(IF Current THEN "count" ELSE "mark")
  /\ UNCHANGED <<roots, health, restarting, user, watching, restarts, index,
                 bounds, stale, noted, dropped>>

CountWatches ==
  /\ worker = "count"
  /\ Goto(IF Cardinality(owned) = Cardinality(roots) THEN "confirm" ELSE "wait")
  /\ UNCHANGED <<roots, health, restarting, user, watching, restarts, index,
                 bounds, stale, noted, dropped>>

ConfirmRestart ==
  /\ worker = "confirm"
  /\ IF MayMarkRestarted(health, workerGeneration)
       THEN health' = MarkRestarted(health) /\ Goto("copy")
       ELSE UNCHANGED health /\ Goto("wait")
  /\ UNCHANGED <<roots, restarting, user, watching, restarts, index, bounds,
                 stale, noted, dropped>>

(* rebuild_tracked() *)
CopyRoots ==
  /\ worker = "copy"
  /\ copied' = roots
  /\ worker' = "launch"
  /\ UNCHANGED <<roots, health, restarting, user, watching, restarts, index,
                 pending, workerGeneration, awaited, taken, bounds, stale,
                 noted, dropped>>

LaunchResync ==
  /\ worker = "launch"
  /\ Launch(copied)
  /\ awaited' = generation'
  /\ worker' = "await"
  /\ UNCHANGED <<roots, health, restarting, user, watching, restarts, pending,
                 workerGeneration, copied, taken, bounds, stale, noted, dropped>>

(* Mutant: what became of the scan is not asked. *)
AfterScanMut == "mark"

AfterScan == IF awaited \in succeeded THEN "mark" ELSE "wait"

(* Mutant: only a success wakes the worker. *)
ScanDecidedMut == awaited \in succeeded

(* IndexScanGate::wait(): the scan is over, or a newer one has begun. *)
ScanDecided == scan # awaited

Await ==
  /\ worker = "await" /\ ScanDecided
  /\ Goto(AfterScan)
  /\ UNCHANGED <<roots, health, restarting, user, watching, restarts, index,
                 bounds, stale, noted, dropped>>

Mark ==
  /\ worker = "mark"
  /\ health' = IF MayMarkResynced(health, workerGeneration)
                 THEN MarkResynced(health) ELSE health
  /\ Goto("wait")
  /\ UNCHANGED <<roots, restarting, user, watching, restarts, index, bounds,
                 stale, noted, dropped>>

Worker ==
  \/ Take \/ Check \/ RestartForRecovery \/ Unflag \/ Recheck \/ CountWatches
  \/ ConfirmRestart \/ CopyRoots \/ LaunchResync \/ Await \/ Mark

-----------------------------------------------------------------------------
Environment ==
  \/ \E r \in Roots : UnwatchedChange(r)
  \/ \E w \in Watches, ends \in BOOLEAN :
       Trouble(w, "overflow", ends) \/ Trouble(w, "error", ends)
  \/ \E o \in Restarters, r \in Roots, silent \in BOOLEAN : OpenFails(o, r, silent)
  \/ ScanFails \/ SaveFails

User == Rebuild \/ ManualResync \/ \E c \in Configs : Configure(c)

Next ==
  \/ Environment \/ User
  \/ \E w \in Watches : WatchThread(w)
  \/ \E o \in Restarters : Restart(o)
  \/ Scan \/ UiThread \/ Worker

Spec == Init /\ [][Next]_vars

(* Threads that can run do run; the user and the environment are free. *)
Fairness ==
  /\ \A w \in Watches : WF_vars(WatchThread(w))
  /\ \A o \in Restarters : WF_vars(Restart(o))
  /\ WF_vars(Scan) /\ WF_vars(UiThread) /\ WF_vars(Worker)

FairSpec == Spec /\ Fairness

-----------------------------------------------------------------------------
TypeOK ==
  /\ roots \in Configs /\ uiRoots \in Configs
  /\ health \in Health
  /\ pending \in Nat /\ workerGeneration \in Nat /\ uiGeneration \in Nat
  /\ generation \in Nat /\ scan \in Nat /\ awaited \in Nat /\ taken \in Nat
  /\ worker \in {"wait", "check", "flag", "restart", "unflag", "recheck",
                 "count", "confirm", "copy", "launch", "await", "mark"}
  /\ ui \in {"launch", "rebuild", "save", "restart", "request", "idle"}
  /\ restarting \in BOOLEAN /\ dropped \in BOOLEAN
  /\ watch \in [Watches -> {"none", "open", "watching", "note", "ask", "dead"}]
  /\ issue \in [Watches -> {"overflow", "error"}]
  /\ fatal \in [Watches -> BOOLEAN] /\ told \in [Watches -> Nat]
  /\ owned \subseteq Watches
  /\ restart \in [Restarters -> {"idle", "stop", "open", "update"}]
  /\ toOpen \in [Restarters -> SUBSET Roots]
  /\ opened \in [Restarters -> SUBSET Watches]
  /\ scanRoots \subseteq Roots /\ unread \subseteq Roots /\ fresh \subseteq Roots
  /\ visited \subseteq Roots
  /\ copied \subseteq Roots /\ stale \subseteq Roots /\ noted \subseteq Roots
  /\ succeeded \subseteq Nat
  /\ losses \in Nat /\ configs \in Nat /\ manual \in Nat /\ failures \in Nat

(* "Healthy" is never said while no root is watched or a broken watch      *)
(* still has to be restarted: "degraded watcher cannot become healthy      *)
(* before its watch is restarted".                                         *)
HealthyNeedsNoRestart ==
  health.state = "healthy" => health.roots # 0 /\ ~health.restart

(* Some scan that was launched will read r, or the user's command is about *)
(* to launch one that will.                                                *)
ToBeRead(r) == (scan # 0 /\ r \in scanRoots) \/ (ui = "launch" /\ r \in uiRoots)

(* An accepted resync has repaired every loss that was reported before it  *)
(* was accepted in the roots that its scan was given, and the roots that a *)
(* command has given the index since are being read, unless a call failed: *)
(* "a stale scan generation cannot clear a newer recovery need".           *)
ResyncRepairs ==
  [][ (worker = "mark" /\ worker' = "wait" /\ health' # health) =>
         /\ noted \cap copied = {}
         /\ failures > 0 \/ \A r \in noted \cap roots : ToBeRead(r) ]_vars

(* What the worker has not taken, and nobody will tell it about, is only   *)
(* what a restart in progress dropped.                                     *)
NothingForgotten ==
  /\ pending = 0 /\ worker = "wait" /\ ui = "idle"
  /\ \A w \in Watches : watch[w] \notin {"note", "ask"}
  /\ health.state = "resync_required"
  => dropped \/ failures > 0 \/ taken = health.generation

(* The state has its type, and no loss is forgotten.                       *)
LossesTracked == TypeOK /\ NothingForgotten

(* Every reported loss of notifications is queued: "New notification-loss  *)
(* generations are queued by request()".                                   *)
ReportsAreQueued ==
  /\ pending = 0 /\ worker = "wait" /\ ui = "idle"
  /\ \A w \in Watches : watch[w] \notin {"note", "ask"}
  /\ health.state = "resync_required"
  => failures > 0 \/ taken = health.generation

Quiet ==
  /\ ui = "idle" /\ worker = "wait" /\ pending = 0 /\ scan = 0
  /\ \A w \in Watches : watch[w] \notin {"open", "note", "ask"}

(* A healthy watcher has a live watch on every root: an "overflow-only     *)
(* loss does not require a restart".                                       *)
HealthyMeansWatching ==
  (Quiet /\ health.state = "healthy" /\ failures = 0) =>
     \A r \in roots : Armed(r)

(* A healthy watcher means that the index shows the disk. *)
HealthyMeansFresh ==
  (Quiet /\ health.state = "healthy" /\ failures = 0) => stale \cap roots = {}

(* A resync always ends: the worker goes back to wait for the next one. *)
ResyncEnds == (worker # "wait") ~> (worker = "wait")
=============================================================================
