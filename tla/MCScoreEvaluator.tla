---------------------------- MODULE MCScoreEvaluator ----------------------------
(* An instance of ScoreEvaluator for TLC. *)
EXTENDS ScoreEvaluator, TLC

CONSTANTS s1, s2, s3, n1, n2

(* the label of n2 is being moved from s2 to s3, and both have it cached *)
MCNodesOf == (s1 :> {n1}) @@ (s2 :> {n2}) @@ (s3 :> {n2})
===============================================================================
