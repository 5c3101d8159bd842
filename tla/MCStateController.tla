-------------------------- MODULE MCStateController --------------------------
(***************************************************************************)
(* Instances of StateController for TLC.                                   *)
(***************************************************************************)
EXTENDS StateController, TLC

ProcessorSymmetry == Permutations(Processor)
ObjectSymmetry == Permutations(Object) \cup Permutations(Slot)
=============================================================================
