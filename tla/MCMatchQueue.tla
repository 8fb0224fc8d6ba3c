------------------------------ MODULE MCMatchQueue ------------------------------
(***************************************************************************)
(* Instances of MatchQueue for TLC.  Workers are interchangeable, and so   *)
(* are passes.                                                             *)
(***************************************************************************)
EXTENDS MatchQueue, TLC

MatchSymmetry == Permutations(Workers) \cup Permutations(Passes)
=============================================================================
