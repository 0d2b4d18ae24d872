---------------------------- MODULE AtomicRestore ----------------------------
(***************************************************************************)
(* What restore_transaction promises to its caller.  The user's data is a  *)
(* set of files; a restore either replaces all of them by the archive's    *)
(* contents or none of them, in one step that no reader can see half done. *)
(* "stored" is what the next start of the program loads from each file.    *)
(*                                                                         *)
(* "atRisk" is the one concession: a store may save a file while an        *)
(* unfinished roll-back is still recorded on disk, and such a save may be  *)
(* undone by the roll-back.  No other save ever is.                        *)
(***************************************************************************)
CONSTANTS Files,    \* the files a restore replaces
          Payloads, \* contents an archive may hold
          Saves,    \* contents a running store may write
          Absent    \* the file does not exist

VARIABLES stored, atRisk

vars == <<stored, atRisk>>

Init == /\ stored \in [Files -> Saves \cup {Absent}]
        /\ atRisk = {}

(* All files change together. *)
Restore == /\ atRisk = {}
           /\ \E p \in Payloads : stored' = [f \in Files |-> p]
           /\ UNCHANGED atRisk

(* A store replaces its own file; only possibly at risk. *)
Save(f) == /\ \/ \E v \in Saves : stored' = [stored EXCEPT ![f] = v]
              \/ UNCHANGED stored /\ f \in atRisk'
           /\ atRisk' \in {atRisk, atRisk \cup {f}}

(* The recorded roll-back takes back saves that were made on top of it.    *)
(* Once it is complete, what is stored stays.                              *)
Undo == /\ atRisk # {}
        /\ stored' \in [Files -> Saves \cup Payloads \cup {Absent}]
        /\ \A f \in Files \ atRisk : stored'[f] = stored[f]
        /\ atRisk' \in {atRisk, {}}

Next == Restore \/ (\E f \in Files : Save(f)) \/ Undo

Spec == Init /\ [][Next]_vars
=============================================================================
