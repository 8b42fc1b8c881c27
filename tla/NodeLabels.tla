------------------------------ MODULE NodeLabels -------------------------------
(***************************************************************************)
(* dist-scheduler/cmd/dist-scheduler/leader_activities.go: how the leader  *)
(* shares the nodes out among the schedulers (updateNodeLabels), as a      *)
(* function of what it sees: the schedulers, and the nodes with the group  *)
(* label each has.  A node is a number, its place in nodeList; a label     *)
(* outside the schedulers is one that is missing or names a scheduler that *)
(* is gone.                                                                *)
(***************************************************************************)
EXTENDS Integers, Sequences, FiniteSets

(* desiredNodeCountPerGroup *)
Desired(schedulers, labels) ==
  LET s == Cardinality(schedulers)
  IN  (Len(labels) + s - 1) \div s

(* A node stays while its scheduler has not got the desired number. *)
Stays(schedulers, labels, n) ==
  /\ labels[n] \in schedulers
  /\ Cardinality({m \in 1 .. n - 1 : labels[m] = labels[n]}) < Desired(schedulers, labels)

Kept(schedulers, labels, g) ==
  Cardinality({n \in DOMAIN labels : Stays(schedulers, labels, n) /\ labels[n] = g})

ToMove(schedulers, labels) ==
  SelectSeq([n \in DOMAIN labels |-> n], LAMBDA n : ~Stays(schedulers, labels, n))

(* The schedulers that lack nodes, in the order of a Go map: any. *)
ShortGroups(schedulers, labels) ==
  LET short == {g \in schedulers : Kept(schedulers, labels, g) < Desired(schedulers, labels)}
  IN  {s \in [1 .. Cardinality(short) -> short] : \A i, j \in DOMAIN s : s[i] = s[j] => i = j}

(***************************************************************************)
(* The loop over toMove, after i nodes: the groups that are still short,   *)
(* the counts, and the labels.  Node i goes to group i % len, and a group  *)
(* that has enough is taken out, which shifts those behind it.  With no    *)
(* group left to choose from, the division by zero panics.                 *)
(***************************************************************************)
Moved(schedulers, labels, shortGroups) ==
  LET toMove == ToMove(schedulers, labels)
      After[i \in 0 .. Len(toMove)] ==
        IF i = 0
        THEN [short  |-> shortGroups,
              count  |-> [g \in schedulers |-> Kept(schedulers, labels, g)],
              labels |-> labels,
              panic  |-> FALSE]
        ELSE IF After[i - 1].short = <<>> THEN [After[i - 1] EXCEPT !.panic = TRUE]
        ELSE LET was  == After[i - 1]
                 at   == ((i - 1) % Len(was.short)) + 1
                 g    == was.short[at]
                 full == was.count[g] + 1 >= Desired(schedulers, labels)
             IN  [short  |-> IF full THEN SubSeq(was.short, 1, at - 1)
                                            \o SubSeq(was.short, at + 1, Len(was.short))
                                     ELSE was.short,
                  count  |-> [was.count EXCEPT ![g] = @ + 1],
                  labels |-> [was.labels EXCEPT ![toMove[i]] = g],
                  panic  |-> FALSE]
  IN  After[Len(toMove)]

-------------------------------------------------------------------------------
(* Every node has a scheduler, and none has more than its share. *)
IsShared(schedulers, labels) ==
  /\ \A n \in DOMAIN labels : labels[n] \in schedulers
  /\ \A g \in schedulers :
       Cardinality({n \in DOMAIN labels : labels[n] = g}) <= Desired(schedulers, labels)

Changed(labels, other) == {n \in DOMAIN labels : labels[n] # other[n]}

(***************************************************************************)
(* What updateNodeLabels sets out to do, "re-distribute nodes to           *)
(* schedulers evenly, and minimize the number of nodes moved": for every   *)
(* labelling and every order of the groups the loop never runs out of      *)
(* groups, shares all nodes out, and moves as few as any way to do so; and *)
(* no node is moved to where it is, which "shouldn't happen".              *)
(***************************************************************************)
SharesFewestMoves(schedulers, labellings) ==
  \A labels \in labellings : \A shortGroups \in ShortGroups(schedulers, labels) :
    LET moved  == Moved(schedulers, labels, shortGroups)
        toMove == ToMove(schedulers, labels)
    IN  /\ ~moved.panic
        /\ IsShared(schedulers, moved.labels)
        /\ Changed(labels, moved.labels) = {toMove[i] : i \in DOMAIN toMove}
        /\ \A other \in labellings :
             IsShared(schedulers, other) => Len(toMove) <= Cardinality(Changed(labels, other))

===============================================================================
