----------------------------- MODULE MCJobGroup -----------------------------
(***************************************************************************)
(* A client makes a group of one job, which makes a nested group of two    *)
(* jobs and a further group, before, between or after the nested jobs.     *)
(* Every body may cancel every group.                                      *)
(***************************************************************************)
EXTENDS JobGroup, TLC

CONSTANTS main, w1, g1, g2, g3, j1, j2, j3

MCGroupOf == j1 :> g1 @@ j2 :> g2 @@ j3 :> g2
MCCreator == g1 :> main @@ g2 :> j1 @@ g3 :> j1
=============================================================================
