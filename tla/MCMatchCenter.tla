---------------------------- MODULE MCMatchCenter ----------------------------
(* Instances of MatchCenter for TLC. *)
EXTENDS MatchCenter, TLC

CONSTANTS p1, c1, s1, k1

MCMira == s1 :> p1
=============================================================================
