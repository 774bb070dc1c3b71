------------------------------ MODULE CacheFile ------------------------------
(***************************************************************************)
(* What one file of the package cache promises a client that has the       *)
(* working directory to itself, with inodes and writes left out: a file    *)
(* comes to be only where there was none, holds a whole package from the   *)
(* moment its writer is done, and never changes again but by being         *)
(* removed.  A writer that stops half-way leaves a torn file for good.     *)
(*                                                                         *)
(* PackageCache.tla, which has the file system in detail, and Syncer.tla,  *)
(* which keeps one value per file, are both shown to implement this.       *)
(***************************************************************************)

CONSTANTS
  Packages,      \* the whole packages a file may hold
  Absent, Torn   \* no file; a file without the end, or of no package

VARIABLES
  file,          \* what is found under the name
  open           \* whether a writer is at work on it

fileVars == <<file, open>>

Init == file = Absent /\ open = FALSE

\* Writer looks for the file and refuses when there is one.
Create ==
  /\ file = Absent
  /\ file' = Torn /\ open' = TRUE

Complete ==
  /\ open
  /\ file' \in Packages /\ open' = FALSE

\* An error that does not invalidate the file, or a kill.
Abandon ==
  /\ open
  /\ open' = FALSE
  /\ UNCHANGED file

\* After a failed download, before an upload, or with the whole directory.
Remove == file' = Absent /\ open' = FALSE

Next == Create \/ Complete \/ Abandon \/ Remove

Spec == Init /\ [][Next]_fileVars
==============================================================================
