-------------------------- MODULE MCWatcherRecovery --------------------------
(* Constants for the runs of WatcherRecovery.                                 *)
EXTENDS WatcherRecovery

CONSTANTS r1, r2

OneRoot == {r1}
OneConfig == {{r1}}
TwoRoots == {r1, r2}
TwoConfigs == {{r1}, {r1, r2}}

(* Two losses without a command, or one loss before or after a command.     *)
LossesOrCommands == losses + configs <= 2
=============================================================================
