---------------------------- MODULE MCDiskLogger ----------------------------
(***************************************************************************)
(* DiskLogger for TLC: files of two messages checked every second write,   *)
(* so that a few messages turn the files over several times.               *)
(***************************************************************************)
EXTENDS DiskLogger
=============================================================================
