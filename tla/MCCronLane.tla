------------------------------- MODULE MCCronLane -------------------------------
(***************************************************************************)
(* Instances of CronLane for TLC.  Invocations are interchangeable.        *)
(***************************************************************************)
EXTENDS CronLane, TLC

InvocationSymmetry == Permutations(Invocations)
=============================================================================
