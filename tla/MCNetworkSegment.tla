-------------------------- MODULE MCNetworkSegment ---------------------------
(***************************************************************************)
(* Instances of NetworkSegment for TLC.                                    *)
(***************************************************************************)
EXTENDS NetworkSegment, TLC

CONSTANTS s1, s2, g1, i1, i2

NoneGenerated == {}
NoOwner == << >>
OneGenerated == {g1}
OneOwner == g1 :> i1

Symmetry == Permutations(Instance) \cup Permutations(Handler)
=============================================================================
