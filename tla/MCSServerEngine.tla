---------------------------- MODULE MCSServerEngine ----------------------------
(***************************************************************************)
(* Instances of SServerEngine for TLC.                                     *)
(***************************************************************************)
EXTENDS SServerEngine, TLC

\* Addresses and threads are interchangeable (used in safety runs only).
Symmetry == Permutations(ConnPtr) \cup Permutations(Threads)
=============================================================================
