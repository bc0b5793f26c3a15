---------------------------- MODULE MCWriterLock ----------------------------
(***************************************************************************)
(* Two workers and a builder, on one host or spread over two: one process  *)
(* can die at any point while the two others meet its lock.                *)
(***************************************************************************)
EXTENDS WriterLock, TLC

CONSTANTS p1, p2, p3, h1, h2

Alike == Permutations({p1, p2}) \cup Permutations({h1, h2})
=============================================================================
