----------------------------- MODULE MCFileIndex -----------------------------
(* Constants for the runs of FileIndex: a directory and a file in it.      *)
EXTENDS FileIndex

CONSTANTS dir, file

MCPaths == {dir, file}
MCUnder == [p \in MCPaths |-> IF p = dir THEN MCPaths ELSE {p}]

(* A root that was removed, one that excludes the file, and a whole root.  *)
MCConfigs == {{}, {dir}, MCPaths}
=============================================================================
