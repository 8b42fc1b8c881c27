---------------------------- MODULE MCSchedulerSet ----------------------------
(* An instance of SchedulerSet for TLC, and of the leader's sharing out of nodes. *)
EXTENDS SchedulerSet, NodeLabels

MCProcs == {1, 2, 3, 4}
MCRelays == {2, 4}
MCMembers == {1, 2, 4}

(* Up to three schedulers and four nodes; 0 is no label, or a scheduler that is gone. *)
ASSUME NodeLabelsChecked ==
  \A s \in 1 .. 3 : \A n \in 0 .. 4 : SharesFewestMoves(1 .. s, [1 .. n -> 0 .. s])
===============================================================================
