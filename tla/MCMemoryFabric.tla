---------------------------- MODULE MCMemoryFabric ----------------------------
(***************************************************************************)
(* Instances of the Memory Fabric for TLC: one or two nodes, two threads   *)
(* and one or two records.                                                 *)
(***************************************************************************)
EXTENDS MemoryFabric, TLC

CONSTANTS t1, t2

\* The threads differ in nothing.
ThreadSymmetry == Permutations({t1, t2})
=============================================================================
