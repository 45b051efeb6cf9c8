----------------------------- MODULE MCCleanupTask -----------------------------
(* Small instances of CleanupTask for TLC. *)
EXTENDS CleanupTask

\* Always due; due after the shortest time; due after some time.
ShortIntervals == {0, 1, 3}
=============================================================================
