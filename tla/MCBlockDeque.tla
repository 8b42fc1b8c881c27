----------------------------- MODULE MCBlockDeque -----------------------------
(* Instances of BlockDeque for TLC. *)
EXTENDS BlockDeque, TLC

ThreadSymmetry == Permutations(Threads)
===============================================================================
