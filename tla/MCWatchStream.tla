----------------------------- MODULE MCWatchStream -----------------------------
(* Instances of WatchStream for TLC. *)
EXTENDS WatchStream

MCKeys == {1, 2}

(* every watcher watches the whole range *)
MCWatched == [x \in Watchers |-> MCKeys]

(* every watcher watches the first key only *)
MCWatchedOne == [x \in Watchers |-> {1}]

WriterSymmetry == Permutations(Writers)
===============================================================================
