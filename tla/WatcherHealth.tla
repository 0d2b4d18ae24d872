---------------------------- MODULE WatcherHealth ----------------------------
(***************************************************************************)
(* WatcherHealth (src/src/watcher_health.cpp): what the program believes   *)
(* of its file-system watches.  Every method is one critical section, so   *)
(* each is an operator from the old snapshot to the new one.               *)
(* Counters that nothing reads back, and the last error, are left out.     *)
(***************************************************************************)
EXTENDS Integers

HealthState == {"stopped", "healthy", "degraded", "resync_required"}

Health == [state : HealthState,
           roots : Nat,        \* watched_roots
           generation : Nat,   \* issue_generation
           restart : BOOLEAN]  \* restart_required

NewHealth ==
  [state |-> "stopped", roots |-> 0, generation |-> 0, restart |-> FALSE]

(* Mutant: a restart demanded before is still demanded. *)
StartedMut(h, n) ==
  [h EXCEPT !.roots = n, !.state = IF n = 0 THEN "stopped" ELSE "healthy"]

Started(h, n) ==
  [h EXCEPT !.roots = n,
            !.state = IF n = 0 THEN "stopped" ELSE "healthy",
            !.restart = FALSE]

UpdateRoots(h, n) ==
  [h EXCEPT !.roots = n,
            !.state = IF n = 0 /\ @ \notin {"degraded", "resync_required"}
                        THEN "stopped" ELSE @]

(* note_overflow and note_error: an error asks for a restart of the        *)
(* watches, but does not hide that notifications were lost.                *)
NoteIssue(h, kind) ==
  [h EXCEPT !.restart = @ \/ kind = "error",
            !.generation = @ + 1,
            !.state = IF h.roots = 0 THEN @
                      ELSE IF kind = "overflow" THEN "resync_required"
                      ELSE IF @ = "resync_required" THEN @ ELSE "degraded"]

(* request_resync(), which does nothing when no root is watched. *)
RequestResync(h) == [h EXCEPT !.generation = @ + 1, !.state = "resync_required"]

MayMarkRestarted(h, g) == h.roots # 0 /\ g = h.generation /\ h.restart

MarkRestarted(h) == [h EXCEPT !.restart = FALSE]

MayMarkResynced(h, g) ==
  /\ h.roots # 0 /\ h.state \in {"resync_required", "degraded"}
  /\ g = h.generation /\ ~h.restart

MarkResynced(h) == [h EXCEPT !.state = "healthy"]
=============================================================================
