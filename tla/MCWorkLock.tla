----------------------------- MODULE MCWorkLock ------------------------------
(***************************************************************************)
(* Instances of WorkLock for TLC.                                          *)
(***************************************************************************)
EXTENDS WorkLock, TLC

CONSTANTS i1, i2, c1, c2, k1

\* One caller on each of two servers, for the same work.
TwoServers == c1 :> i1 @@ c2 :> i2
SameWork == c1 :> k1 @@ c2 :> k1

OneCaller == c1 :> i1
OneWork == c1 :> k1
IdSymmetry == Permutations(WorkerId)
=============================================================================
