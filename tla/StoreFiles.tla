----------------------------- MODULE StoreFiles -----------------------------
(* What a store's file and its ".tmp" and ".bak" siblings have in common.     *)
CONSTANTS
  Missing,  \* there is no such file
  Torn      \* the file does not parse: it was being written when the writer stopped

Present(f) == f # Missing
Readable(f) == f # Missing /\ f # Torn
=============================================================================
