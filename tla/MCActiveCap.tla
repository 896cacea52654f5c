---------------------------- MODULE MCActiveCap ----------------------------
(* A small instance of ActiveCap: more sessions than slots and hooks. *)
EXTENDS ActiveCap, TLC

CapSymmetry == Permutations(Sessions) \cup Permutations(Hooks)
=============================================================================
