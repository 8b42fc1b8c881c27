------------------------------- MODULE RelayProof -------------------------------
(***************************************************************************)
(* Proofs about SchedulerSet and Relay, for any processes, members, pods   *)
(* and kube-schedulers: the tree that GetSubMembers computes, the          *)
(* freshness of its cache, the handover, the stream indices and the latch  *)
(* of ProcessOne, and the way of a pod down the tree.                      *)
(***************************************************************************)
EXTENDS Relay, FiniteSetTheorems, WellFoundedInduction, TLAPS

-------------------------------------------------------------------------------
(***************************************************************************)
(* The tree.                                                               *)
(***************************************************************************)
(* podNameSort is a strict total order. *)
LEMMA BeforeOrder ==
  ASSUME NEW l
  PROVE  /\ \A a \in Procs : ~Before(l, a, a)
         /\ \A a, b \in Procs : a # b => Before(l, a, b) \/ Before(l, b, a)
         /\ \A a, b, c \in Procs : Before(l, a, b) /\ Before(l, b, c) => Before(l, a, c)
<1>1. \A a \in Procs : a \in Nat
  BY ProcsAssumption
<1>2. \A a \in Procs : ~Before(l, a, a)
  BY DEF Before
<1>3. \A a, b \in Procs : a # b => Before(l, a, b) \/ Before(l, b, a)
  BY <1>1 DEF Before
<1>4. \A a, b, c \in Procs : Before(l, a, b) /\ Before(l, b, c) => Before(l, a, c)
  BY <1>1 DEF Before
<1> QED
  BY <1>2, <1>3, <1>4

(* The members that sortMembers puts before a. *)
Ahead(l, M, a) == {b \in M : Before(l, b, a)}

LEMMA AheadFinite ==
  ASSUME NEW l, NEW M \in SUBSET Procs, NEW a
  PROVE  /\ IsFiniteSet(M) /\ IsFiniteSet(Ahead(l, M, a))
         /\ Position(l, M, a) = Cardinality(Ahead(l, M, a))
         /\ Position(l, M, a) \in Nat
<1>1. IsFiniteSet(M)
  BY ProcsAssumption, FS_Subset
<1>2. Ahead(l, M, a) \in SUBSET M
  BY DEF Ahead
<1>3. IsFiniteSet(Ahead(l, M, a))
  BY <1>1, <1>2, FS_Subset
<1>4. Cardinality(Ahead(l, M, a)) \in Nat
  BY <1>3, FS_CardinalityType
<1> QED
  BY <1>1, <1>3, <1>4 DEF Position, Ahead

LEMMA PositionLess ==
  ASSUME NEW l, NEW M \in SUBSET Procs, NEW a \in M, NEW b \in M, Before(l, a, b)
  PROVE  Position(l, M, a) < Position(l, M, b)
<1>1. PICK A, B : A = Ahead(l, M, a) /\ B = Ahead(l, M, b)
  OBVIOUS
<1>2. /\ IsFiniteSet(A) /\ IsFiniteSet(B)
      /\ Position(l, M, a) = Cardinality(A) /\ Position(l, M, b) = Cardinality(B)
      /\ Position(l, M, a) \in Nat /\ Position(l, M, b) \in Nat
  BY <1>1, AheadFinite
<1>3. A \in SUBSET B
  BY <1>1, BeforeOrder DEF Ahead
<1>4. a \in B /\ a \notin A
  BY <1>1, BeforeOrder DEF Ahead
<1>5. Cardinality(A) <= Cardinality(B) /\ Cardinality(B) # Cardinality(A)
  BY <1>2, <1>3, <1>4, FS_Subset
<1> QED
  BY <1>2, <1>5

LEMMA PositionsDiffer ==
  ASSUME NEW l, NEW M \in SUBSET Procs, NEW a \in M, NEW b \in M,
         Position(l, M, a) = Position(l, M, b)
  PROVE  a = b
<1>1. Position(l, M, a) \in Nat /\ Position(l, M, b) \in Nat
  BY AheadFinite
<1>2. ~Before(l, a, b) /\ ~Before(l, b, a)
  BY <1>1, PositionLess
<1> QED
  BY <1>2, BeforeOrder

LEMMA PositionBound ==
  ASSUME NEW l, NEW M \in SUBSET Procs, NEW a \in M
  PROVE  /\ Cardinality(M) \in Nat
         /\ Position(l, M, a) \in 0 .. Cardinality(M) - 1
<1>1. PICK A : A = Ahead(l, M, a)
  OBVIOUS
<1>2. /\ IsFiniteSet(M) /\ Position(l, M, a) = Cardinality(A) /\ Position(l, M, a) \in Nat
  BY <1>1, AheadFinite
<1>3. A \in SUBSET M /\ a \notin A
  BY <1>1, BeforeOrder DEF Ahead
<1>4. Cardinality(M) \in Nat
  BY <1>2, FS_CardinalityType
<1>5. Cardinality(A) <= Cardinality(M) /\ Cardinality(M) # Cardinality(A)
  BY <1>2, <1>3, FS_Subset
<1> QED
  BY <1>2, <1>4, <1>5

(* Every position is taken: sortMembers numbers the members. *)
LEMMA PositionTaken ==
  ASSUME NEW l, NEW M \in SUBSET Procs, NEW j \in 0 .. Cardinality(M) - 1
  PROVE  \E a \in M : Position(l, M, a) = j
<1>1. PICK N : N = Cardinality(M)
  OBVIOUS
<1>2. IsFiniteSet(M) /\ N \in Nat
  BY <1>1, AheadFinite, FS_CardinalityType
<1>3. PICK f : f = [a \in M |-> Position(l, M, a)]
  OBVIOUS
<1>4. f \in [M -> 0 .. N - 1]
  BY <1>1, <1>3, PositionBound
<1>5. \A a, b \in M : f[a] = f[b] => a = b
  BY <1>3, PositionsDiffer
<1>6. f \in Injection(M, 0 .. N - 1)
  BY <1>4, <1>5 DEF Injection, IsInjective
<1>7. IsFiniteSet(0 .. N - 1) /\ Cardinality(0 .. N - 1) = N
  BY <1>2, FS_Interval
<1>8. f \in Surjection(M, 0 .. N - 1)
  BY <1>1, <1>6, <1>7, FS_Injection
<1>9. \A i \in 0 .. N - 1 : \E a \in M : f[a] = i
  BY <1>8 DEF Surjection
<1> QED
  BY <1>1, <1>3, <1>9

LEMMA LeaderFirst ==
  ASSUME NEW M \in SUBSET Procs, NEW l \in M, NEW a \in M
  PROVE  Position(l, M, a) = 0 <=> a = l
<1>1. Ahead(l, M, l) = {}
  BY DEF Ahead, Before
<1>2. Position(l, M, l) = 0
  BY <1>1, AheadFinite, FS_EmptySet
<1> QED
  BY <1>2, PositionsDiffer

(* The search that leaves out the first member finds a member's position. *)
LEMMA IndexIsPosition ==
  ASSUME NEW M \in SUBSET Procs, NEW l \in M, NEW p \in M
  PROVE  Index(l, M, p) = Position(l, M, p)
<1>1. CASE p = l
  BY <1>1, LeaderFirst DEF Index
<1>2. CASE p # l
  <2>1. PICK A : A = Ahead(l, M, p)
    OBVIOUS
  <2>2. IsFiniteSet(A) /\ Position(l, M, p) = Cardinality(A) /\ Position(l, M, p) \in Nat
    BY <2>1, AheadFinite
  <2>3. \A b \in M : Position(l, M, b) > 0 <=> b # l
    <3> SUFFICES ASSUME NEW b \in M PROVE Position(l, M, b) > 0 <=> b # l
      OBVIOUS
    <3>1. Position(l, M, b) \in Nat
      BY AheadFinite
    <3> QED
      BY <3>1, LeaderFirst
  <2>4. {b \in M : Position(l, M, b) > 0 /\ Before(l, b, p)} = A \ {l}
    <3>1. A \subseteq M /\ \A b \in M : b \in A <=> Before(l, b, p)
      BY <2>1 DEF Ahead
    <3>2. PICK B : B = {b \in M : Position(l, M, b) > 0 /\ Before(l, b, p)}
      OBVIOUS
    <3>3. \A b : b \in B <=> b \in A \ {l}
      BY <2>3, <3>1, <3>2
    <3>4. B = A \ {l}
      BY <3>3
    <3> QED
      BY <3>2, <3>4
  <2>5. l \in A
    BY <1>2, <2>1 DEF Ahead, Before
  <2>6. Cardinality(A \ {l}) = Cardinality(A) - 1
    BY <2>2, <2>5, FS_RemoveElement
  <2>7. Index(l, M, p) = Cardinality(A \ {l}) + 1
    BY <1>2, <2>4, Zenon DEF Index
  <2> QED
    BY <2>2, <2>6, <2>7
<1> QED
  BY <1>1, <1>2

(* Blocks of S positions from 1 on: each position is in exactly one. *)
LEMMA Blocks ==
  ASSUME NEW S \in Nat \ {0}, NEW x \in Nat \ {0}
  PROVE  \E j \in Nat : /\ j < x
                        /\ x >= j * S + 1 /\ x < j * S + 1 + S
                        /\ \A i \in Nat : x >= i * S + 1 /\ x < i * S + 1 + S => i = j
<1>1. PICK j : j = (x - 1) \div S
  OBVIOUS
<1>2. j \in Nat /\ j * S <= x - 1 /\ x - 1 < j * S + S
  BY <1>1
<1>3. j < x
  <2>1. j <= j * S
    BY <1>2
  <2> QED
    BY <1>2, <2>1
<1>4. ASSUME NEW i \in Nat, x >= i * S + 1, x < i * S + 1 + S PROVE i = j
  <2>1. \A u, v \in Nat : u < v => u * S + S <= v * S
    <3> SUFFICES ASSUME NEW u \in Nat, NEW v \in Nat, u < v PROVE u * S + S <= v * S
      OBVIOUS
    <3>1. PICK w \in Nat : v = u + 1 + w
      <4>1. v - u - 1 \in Nat /\ v = u + 1 + (v - u - 1)
        OBVIOUS
      <4> QED
        BY <4>1
    <3>2. v * S = u * S + S + w * S /\ w * S \in Nat /\ u * S \in Nat
      BY <3>1
    <3> QED
      BY <3>2
  <2>2. ~(i < j) /\ ~(j < i)
    BY <1>2, <1>4, <2>1
  <2> QED
    BY <1>2, <2>2
<1>5. x >= j * S + 1 /\ x < j * S + 1 + S
  <2>1. j * S \in Nat
    BY <1>2
  <2> QED
    BY <1>2, <2>1
<1>6. \A i \in Nat : x >= i * S + 1 /\ x < i * S + 1 + S => i = j
  BY <1>4
<1> QED
  BY <1>2, <1>3, <1>5, <1>6, Zenon

(* The one that has a among its sub-members: nobody if a leads, else one   *)
(* that sortMembers puts before a.                                         *)
LEMMA TreeParent ==
  ASSUME FanOut = Stride, NEW M \in SUBSET Procs, NEW l \in M, NEW a \in M
  PROVE  /\ a = l => \A p \in M : a \notin SubMembersOf(l, M, p)
         /\ a # l => \E p \in M : /\ Position(l, M, p) < Position(l, M, a)
                                  /\ \A q \in M : a \in SubMembersOf(l, M, q) <=> q = p
<1>1. PICK x : x = Position(l, M, a)
  OBVIOUS
<1>2. x \in Nat /\ x <= Cardinality(M) - 1 /\ Cardinality(M) \in Nat
  BY <1>1, PositionBound
<1>3. FanOut \in Nat \ {0}
  BY FanOutAssumption
<1>4. ASSUME NEW p \in M
      PROVE  a \in SubMembersOf(l, M, p) <=>
               /\ Cardinality(M) > 1
               /\ x >= Position(l, M, p) * FanOut + 1
               /\ x < Position(l, M, p) * FanOut + 1 + FanOut
  <2>1. Index(l, M, p) * Stride + 1 = Position(l, M, p) * FanOut + 1
    BY IndexIsPosition
  <2> QED
    BY <1>1, <1>2, <2>1 DEF SubMembersOf
<1>5. ASSUME a = l, NEW p \in M, a \in SubMembersOf(l, M, p) PROVE FALSE
  <2>1. x = 0
    BY <1>1, <1>5, LeaderFirst
  <2>2. Position(l, M, p) \in Nat
    BY AheadFinite
  <2>3. Position(l, M, p) * FanOut \in Nat
    BY <1>3, <2>2
  <2> QED
    BY <1>4, <1>5, <2>1, <2>3
<1>6. ASSUME a # l
      PROVE  \E p \in M : /\ Position(l, M, p) < Position(l, M, a)
                          /\ \A q \in M : a \in SubMembersOf(l, M, q) <=> q = p
  <2>1. x # 0 /\ Cardinality(M) > 1
    BY <1>1, <1>2, <1>6, LeaderFirst
  <2>2. PICK j \in Nat :
          /\ j < x
          /\ x >= j * FanOut + 1 /\ x < j * FanOut + 1 + FanOut
          /\ \A i \in Nat : x >= i * FanOut + 1 /\ x < i * FanOut + 1 + FanOut => i = j
    BY <1>2, <1>3, <2>1, Blocks
  <2>3. j \in 0 .. Cardinality(M) - 1
    BY <1>2, <2>2
  <2>4. PICK p \in M : Position(l, M, p) = j
    BY <2>3, PositionTaken
  <2>5. \A q \in M : a \in SubMembersOf(l, M, q) <=> q = p
    <3> SUFFICES ASSUME NEW q \in M PROVE a \in SubMembersOf(l, M, q) <=> q = p
      OBVIOUS
    <3>1. Position(l, M, q) \in Nat
      BY AheadFinite
    <3>2. a \in SubMembersOf(l, M, q) => Position(l, M, q) = j
      BY <1>4, <2>2, <3>1
    <3>3. a \in SubMembersOf(l, M, p)
      BY <1>4, <2>1, <2>2, <2>4
    <3> QED
      BY <2>4, <3>2, <3>3, PositionsDiffer
  <2> QED
    BY <1>1, <2>2, <2>4, <2>5
<1> QED
  BY <1>5, <1>6

(* A set of natural numbers that is not empty has a least one. *)
LEMMA NatHasLeast ==
  ASSUME NEW T, T \subseteq Nat, T # {}
  PROVE  \E x \in T : \A y \in T : x <= y
<1> DEFINE R == OpToRel(<, Nat)
<1>1. IsWellFoundedOn(R, Nat)
  BY NatLessThanWellFounded, Zenon
<1>2. \A x, y \in Nat : <<y, x>> \in R <=> y < x
  BY DEF OpToRel
<1> HIDE DEF R
<1>3. PICK x \in T : \A y \in T : ~ (<<y, x>> \in R)
  BY <1>1, WFMin
<1>4. \A y \in T : x <= y
  <2> TAKE y \in T
  <2>1. x \in Nat /\ y \in Nat
    OBVIOUS
  <2>2. ~(y < x)
    BY <1>2, <1>3, <2>1
  <2> QED
    BY <2>1, <2>2
<1> QED
  BY <1>4

(* Who comes before whom is told by the positions. *)
LEMMA PositionBefore ==
  ASSUME NEW l, NEW M \in SUBSET Procs, NEW a \in M, NEW b \in M,
         Position(l, M, a) < Position(l, M, b)
  PROVE  Before(l, a, b)
<1>1. Position(l, M, a) \in Nat /\ Position(l, M, b) \in Nat
  BY AheadFinite
<1>2. a # b
  BY <1>1
<1>3. ~Before(l, b, a)
  BY <1>1, PositionLess
<1> QED
  BY <1>2, <1>3, BeforeOrder

(***************************************************************************)
(* schedulerset.go GetSubMembers: whatever the members, if fanOut is the   *)
(* literal 10 by which positions are multiplied, processes that agree on   *)
(* the members and on a leader among them form a tree: every member but    *)
(* the leader is the sub-member of exactly one, the leader of none, all    *)
(* hang below the leader, and above a relay there are only relays.         *)
(***************************************************************************)
THEOREM SubMembersFormTree ==
  ASSUME FanOut = Stride, NEW M \in SUBSET Procs, NEW l \in M, NEW sub,
         \A p \in M : sub[p] = SubMembersOf(l, M, p)
  PROVE  IsTree(l, M, sub)
<1>1. ASSUME NEW a \in M
      PROVE  Cardinality({p \in M : a \in sub[p]}) = IF a = l THEN 0 ELSE 1
  <2>1. CASE a = l
    <3>1. {p \in M : a \in sub[p]} = {}
      BY <2>1, TreeParent
    <3>2. Cardinality({p \in M : a \in sub[p]}) = 0
      BY <3>1, FS_EmptySet, Zenon
    <3> QED
      BY <2>1, <3>2
  <2>2. CASE a # l
    <3>1. PICK p \in M : \A q \in M : a \in SubMembersOf(l, M, q) <=> q = p
      BY <2>2, TreeParent
    <3>2. {q \in M : a \in sub[q]} = {p}
      BY <3>1
    <3>3. Cardinality({q \in M : a \in sub[q]}) = 1
      BY <3>2, FS_Singleton, Zenon
    <3> QED
      BY <2>2, <3>3
  <2> QED
    BY <2>1, <2>2
<1>2. ASSUME NEW S \in SUBSET (M \ {l}), S # {}
      PROVE  \E a \in S, p \in M \ S : a \in sub[p]
  <2>1. PICK T : T = {Position(l, M, a) : a \in S}
    OBVIOUS
  <2>2. T \in SUBSET Nat /\ T # {}
    BY <1>2, <2>1, AheadFinite
  <2>3. PICK n \in T : \A m \in T : n <= m
    BY <2>2, NatHasLeast
  <2>4. PICK a \in S : n = Position(l, M, a)
    BY <2>1, <2>3
  <2>5. a \in M /\ a # l
    OBVIOUS
  <2>6. PICK p \in M : /\ Position(l, M, p) < Position(l, M, a)
                       /\ \A q \in M : a \in SubMembersOf(l, M, q) <=> q = p
    BY <2>5, TreeParent
  <2>7. p \notin S
    <3>1. p \in S => Position(l, M, p) \in T
      BY <2>1
    <3>2. n \in Nat /\ Position(l, M, p) \in Nat
      BY <2>2, <2>3, AheadFinite
    <3> QED
      BY <2>3, <2>4, <2>6, <3>1, <3>2
  <2> QED
    BY <2>6, <2>7
<1>3. ASSUME NEW p \in M, NEW a \in sub[p]
      PROVE  a \in M /\ (a \in Relays => p = l \/ p \in Relays)
  <2>1. a \in SubMembersOf(l, M, p)
    OBVIOUS
  <2>2. a \in M
    BY <2>1 DEF SubMembersOf
  <2>3. a # l
    BY <2>1, <2>2, TreeParent
  <2>4. Position(l, M, p) < Position(l, M, a)
    BY <2>1, <2>2, <2>3, TreeParent
  <2>5. Before(l, p, a)
    BY <2>2, <2>4, PositionBefore
  <2> QED
    BY <2>2, <2>5 DEF Before
<1> QED
  BY <1>1, <1>2, <1>3 DEF IsTree

-------------------------------------------------------------------------------
(***************************************************************************)
(* The cache of sub-members.                                               *)
(***************************************************************************)
SetTypeOK ==
  /\ slices \in Seq(SUBSET Procs)
  /\ cached \in [Procs -> Nat]
  /\ told \in [Procs -> Nat]
  /\ leases \in Seq(Procs) /\ leases # <<>>
  /\ leader \in [Procs -> Procs \union {NoLeader}]
  /\ dirty \in [Procs -> BOOLEAN]
  /\ subMembers \in [Procs -> SUBSET Procs]
  /\ computing \in [Procs -> Int]
  /\ misordered \in [Procs -> BOOLEAN]

(* p's sub-members are those of a version it has been told of, or a newer. *)
Current(p) ==
  \E v \in 1 .. cached[p] : told[p] <= v /\ subMembers[p] = SubMembersOf(leader[p], slices[v], p)

ViewOK(p) ==
  /\ cached[p] \in 1 .. Len(slices)
  /\ computing[p] \in {Unlocked, Cleared} \union 1 .. cached[p]
  /\ ~misordered[p] => told[p] <= cached[p]
  /\ ~dirty[p] /\ ~misordered[p] =>
       /\ computing[p] > 0 => told[p] <= computing[p]
       /\ computing[p] = Unlocked => Current(p)

SetInv == SetTypeOK /\ \A p \in Procs : ViewOK(p)

LEMMA SubMembersType ==
  ASSUME NEW l, NEW M \in SUBSET Procs, NEW p
  PROVE  SubMembersOf(l, M, p) \in SUBSET Procs
BY DEF SubMembersOf

(* What p knows is not touched, and the versions only grow. *)
LEMMA ViewKept ==
  ASSUME SetInv, NEW p \in Procs, ViewOK(p),
         Len(slices') >= Len(slices), Len(slices') \in Nat,
         \A v \in 1 .. Len(slices) : slices'[v] = slices[v],
         cached'[p] = cached[p], told'[p] = told[p], leader'[p] = leader[p],
         dirty'[p] = dirty[p], subMembers'[p] = subMembers[p], computing'[p] = computing[p],
         misordered'[p] = misordered[p]
  PROVE  ViewOK(p)'
<1>1. Len(slices) \in Nat
  BY DEF SetInv, SetTypeOK
<1>2. cached[p] \in 1 .. Len(slices) /\ cached'[p] \in 1 .. Len(slices')
  BY <1>1 DEF ViewOK
<1>3. Current(p) => Current(p)'
  <2>1. \A v \in 1 .. cached[p] : slices'[v] = slices[v]
    BY <1>1, <1>2
  <2> QED
    BY <2>1 DEF Current
<1> QED
  BY <1>2, <1>3 DEF ViewOK

LEMMA SetInitInv == ViewInit /\ leader \in [Procs -> Procs \union {NoLeader}] => SetInv
<1> SUFFICES ASSUME ViewInit, leader \in [Procs -> Procs \union {NoLeader}] PROVE SetInv
  OBVIOUS
<1>1. slices = <<Members0>> /\ Members0 \in SUBSET Procs
  BY MembersAssumption DEF ViewInit
<1>2. Len(slices) = 1 /\ slices \in Seq(SUBSET Procs)
  BY <1>1
<1>3. leases \in Seq(Procs) /\ leases # <<>>
  <2>1. PICK l \in Members0 : leases = <<l>>
    BY DEF ViewInit
  <2> QED
    BY <1>1, <2>1
<1>4. SetTypeOK
  BY <1>2, <1>3 DEF ViewInit, SetTypeOK, Unlocked
<1>5. \A p \in Procs : ViewOK(p)
  BY <1>2 DEF ViewInit, ViewOK, Unlocked
<1> QED
  BY <1>4, <1>5 DEF SetInv

(* A step of p that leaves the versions alone. *)
LEMMA OwnStep ==
  ASSUME SetInv, SetTypeOK', NEW p \in Procs, slices' = slices,
         \A q \in Procs : q # p => /\ cached'[q] = cached[q] /\ told'[q] = told[q]
                                   /\ leader'[q] = leader[q] /\ dirty'[q] = dirty[q]
                                   /\ subMembers'[q] = subMembers[q]
                                   /\ computing'[q] = computing[q]
                                   /\ misordered'[q] = misordered[q],
         ViewOK(p)'
  PROVE  SetInv'
<1>1. Len(slices) \in Nat
  BY DEF SetInv, SetTypeOK
<1>2. ASSUME NEW q \in Procs, q # p PROVE ViewOK(q)'
  <2>1. ViewOK(q)
    BY DEF SetInv
  <2> QED
    BY <1>1, <1>2, <2>1, ViewKept
<1> QED
  BY <1>2 DEF SetInv

LEMMA SetLeaderInv ==
  ASSUME SetInv, NEW p \in Procs, SetLeader(p)
  PROVE  SetInv'
<1> USE DEF SetInv, SetTypeOK
<1>1. PICK l \in Procs : l = leases[Len(leases)]
  OBVIOUS
<1>2. leader' = [leader EXCEPT ![p] = l] /\ dirty' = [dirty EXCEPT ![p] = TRUE]
  BY <1>1 DEF SetLeader
<1>3. UNCHANGED <<slices, cached, told, leases, subMembers, computing, misordered>>
  BY DEF SetLeader
<1>4. dirty'[p] = TRUE
  BY <1>2
<1>5. ViewOK(p)'
  BY <1>3, <1>4 DEF ViewOK
<1>6. SetTypeOK'
  BY <1>2, <1>3
<1> QED
  BY <1>2, <1>3, <1>5, <1>6, OwnStep

LEMMA UpdateCacheInv ==
  ASSUME SetInv, NEW p \in Procs, UpdateCache(p)
  PROVE  SetInv'
<1> USE DEF SetInv, SetTypeOK
<1>1. cached[p] \in Nat /\ cached[p] < Len(slices) /\ cached' = [cached EXCEPT ![p] = cached[p] + 1]
  BY DEF UpdateCache
<1>2. UNCHANGED <<slices, told, leases, leader, dirty, subMembers, computing, misordered>>
  BY DEF UpdateCache
<1>3. cached'[p] = cached[p] + 1
  BY <1>1
<1>4. ViewOK(p)'
  <2>1. ViewOK(p)
    OBVIOUS
  <2>2. Current(p) => Current(p)'
    BY <1>1, <1>2, <1>3 DEF Current
  <2>3. told[p] \in Nat /\ Len(slices) \in Nat
    OBVIOUS
  <2>4. cached'[p] \in 1 .. Len(slices')
    BY <1>1, <1>2, <1>3, <2>3
  <2>5. computing'[p] \in {Unlocked, Cleared} \union 1 .. cached'[p]
    BY <1>1, <1>2, <1>3, <2>1 DEF ViewOK
  <2>6. told[p] <= cached[p] => told'[p] <= cached'[p]
    BY <1>1, <1>2, <1>3, <2>3
  <2> QED
    BY <1>2, <2>1, <2>2, <2>4, <2>5, <2>6 DEF ViewOK
<1>5. SetTypeOK'
  BY <1>1, <1>2
<1> QED
  BY <1>1, <1>2, <1>4, <1>5, OwnStep

LEMMA MarkDirtyInv ==
  ASSUME SetInv, NEW p \in Procs, MarkDirty(p)
  PROVE  SetInv'
<1> USE DEF SetInv, SetTypeOK
<1>1. told' = [told EXCEPT ![p] = told[p] + 1] /\ dirty' = [dirty EXCEPT ![p] = TRUE]
  BY DEF MarkDirty
<1>2. PICK m \in BOOLEAN : m = (misordered[p] \/ cached[p] < told[p] + 1)
  OBVIOUS
<1>3. misordered' = [misordered EXCEPT ![p] = m]
  BY <1>2 DEF MarkDirty
<1>4. UNCHANGED <<slices, cached, leases, leader, subMembers, computing>>
  BY DEF MarkDirty
<1>5. told'[p] = told[p] + 1 /\ dirty'[p] = TRUE /\ misordered'[p] = m
  BY <1>1, <1>3
<1>6. ViewOK(p)'
  <2>1. ~m => told[p] + 1 <= cached[p]
    <3>1. ~m => ~(cached[p] < told[p] + 1)
      BY <1>2, Zenon
    <3>2. cached[p] \in Nat /\ told[p] \in Nat
      OBVIOUS
    <3> QED
      BY <3>1, <3>2
  <2> QED
    BY <1>4, <1>5, <2>1 DEF ViewOK
<1>7. SetTypeOK'
  BY <1>1, <1>3, <1>4
<1> QED
  BY <1>1, <1>3, <1>4, <1>6, <1>7, OwnStep

LEMMA StartComputeInv ==
  ASSUME SetInv, NEW p \in Procs, StartCompute(p)
  PROVE  SetInv'
<1> USE DEF SetInv, SetTypeOK
<1>1. computing' = [computing EXCEPT ![p] = Cleared] /\ dirty' = [dirty EXCEPT ![p] = FALSE]
  BY DEF StartCompute
<1>2. UNCHANGED <<slices, cached, told, leases, leader, subMembers, misordered>>
  BY DEF StartCompute
<1>3. computing'[p] = Cleared
  BY <1>1
<1>4. ViewOK(p)'
  BY <1>2, <1>3 DEF ViewOK, Cleared, Unlocked
<1>5. SetTypeOK'
  BY <1>1, <1>2 DEF Cleared
<1> QED
  BY <1>1, <1>2, <1>4, <1>5, OwnStep

LEMMA ReadMembersInv ==
  ASSUME SetInv, NEW p \in Procs, ReadMembers(p)
  PROVE  SetInv'
<1> USE DEF SetInv, SetTypeOK
<1>1. computing' = [computing EXCEPT ![p] = cached[p]]
  BY DEF ReadMembers
<1>2. UNCHANGED <<slices, cached, told, leases, leader, dirty, subMembers, misordered>>
  BY DEF ReadMembers
<1>3. computing'[p] = cached[p]
  BY <1>1
<1>4. ViewOK(p)'
  BY <1>2, <1>3 DEF ViewOK, Unlocked
<1>5. SetTypeOK'
  BY <1>1, <1>2
<1> QED
  BY <1>1, <1>2, <1>4, <1>5, OwnStep

LEMMA EndComputeInv ==
  ASSUME SetInv, NEW p \in Procs, EndCompute(p)
  PROVE  SetInv'
<1> USE DEF SetInv, SetTypeOK
<1>1. ViewOK(p) /\ computing[p] > 0
  BY DEF EndCompute
<1>2. PICK v \in 1 .. cached[p] : v = computing[p]
  BY <1>1 DEF ViewOK, Unlocked, Cleared
<1>3. v \in 1 .. Len(slices) /\ cached[p] \in 1 .. Len(slices)
  BY <1>1, <1>2 DEF ViewOK
<1>4. PICK S \in SUBSET Procs : S = SubMembersOf(leader[p], slices[v], p)
  BY <1>3, SubMembersType
<1>5. computing' = [computing EXCEPT ![p] = Unlocked] /\ subMembers' = [subMembers EXCEPT ![p] = S]
  BY <1>2, <1>4 DEF EndCompute, Computed
<1>6. UNCHANGED <<slices, cached, told, leases, leader, dirty, misordered>>
  BY DEF EndCompute
<1>7. computing'[p] = Unlocked /\ subMembers'[p] = S
  BY <1>5
<1>8. told[p] <= v => Current(p)'
  BY <1>2, <1>4, <1>6, <1>7 DEF Current
<1>9. ~dirty[p] /\ ~misordered[p] => told[p] <= v
  BY <1>1, <1>2 DEF ViewOK
<1>10. ViewOK(p)'
  BY <1>1, <1>6, <1>7, <1>8, <1>9 DEF ViewOK, Unlocked
<1>11. SetTypeOK'
  BY <1>5, <1>6 DEF Unlocked
<1> QED
  BY <1>5, <1>6, <1>10, <1>11, OwnStep

(* GetSubMembers as a whole, as Relay's processes call it. *)
LEMMA GetSubMembersInv ==
  ASSUME SetInv, NEW p \in Procs, GetSubMembers(p)
  PROVE  SetInv'
<1> USE DEF SetInv, SetTypeOK
<1>1. ViewOK(p) /\ computing[p] = Unlocked /\ cached[p] \in 1 .. Len(slices)
  BY DEF GetSubMembers, ViewOK
<1>2. PICK S \in SUBSET Procs :
        S = IF dirty[p] THEN SubMembersOf(leader[p], slices[cached[p]], p) ELSE subMembers[p]
  BY <1>1, SubMembersType
<1>3. dirty' = [dirty EXCEPT ![p] = FALSE] /\ subMembers' = [subMembers EXCEPT ![p] = S]
  BY <1>2 DEF GetSubMembers
<1>4. UNCHANGED <<slices, cached, told, leases, leader, computing, misordered>>
  BY DEF GetSubMembers
<1>5. subMembers'[p] = S
  BY <1>3
<1>6. ~misordered[p] => Current(p)'
  <2> SUFFICES ASSUME ~misordered[p] PROVE Current(p)'
    OBVIOUS
  <2>1. CASE dirty[p]
    BY <1>1, <1>2, <1>4, <1>5, <2>1, SMTT(30) DEF Current, ViewOK
  <2>2. CASE ~dirty[p]
    BY <1>1, <1>2, <1>4, <1>5, <2>2 DEF Current, ViewOK
  <2> QED
    BY <2>1, <2>2
<1>7. ViewOK(p)'
  BY <1>1, <1>4, <1>6 DEF ViewOK, Unlocked
<1>8. SetTypeOK'
  BY <1>3, <1>4
<1> QED
  BY <1>3, <1>4, <1>7, <1>8, OwnStep

LEMMA SetStep == SetInv /\ [SetNext]_setVars => SetInv'
<1> SUFFICES ASSUME SetInv, [SetNext]_setVars PROVE SetInv'
  OBVIOUS
<1>0. Len(slices) \in Nat
  BY DEF SetInv, SetTypeOK
<1>1. ASSUME SetTypeOK', Len(slices') >= Len(slices), Len(slices') \in Nat,
             \A v \in 1 .. Len(slices) : slices'[v] = slices[v],
             UNCHANGED <<cached, told, leader, dirty, subMembers, computing, misordered>>
      PROVE  SetInv'
  <2>1. ASSUME NEW q \in Procs PROVE ViewOK(q)'
    <3>1. ViewOK(q)
      BY DEF SetInv
    <3> QED
      BY <1>1, <3>1, ViewKept
  <2> QED
    BY <1>1, <2>1 DEF SetInv
<1>2. CASE UNCHANGED setVars
  <2>1. UNCHANGED <<slices, cached, told, leases, leader, dirty, subMembers, computing, misordered>>
    BY <1>2 DEF setVars
  <2>2. SetTypeOK'
    BY <2>1 DEF SetInv, SetTypeOK
  <2> QED
    BY <1>0, <1>1, <2>1, <2>2
<1>3. ASSUME NEW M \in SUBSET Procs, SliceChanges(M) PROVE SetInv'
  <2>1. /\ slices' = Append(slices, M)
        /\ UNCHANGED <<cached, told, leases, leader, dirty, subMembers, computing, misordered>>
    BY <1>3 DEF SliceChanges
  <2>2. slices \in Seq(SUBSET Procs)
    BY DEF SetInv, SetTypeOK
  <2>3. /\ slices' \in Seq(SUBSET Procs) /\ Len(slices') = Len(slices) + 1
        /\ \A v \in 1 .. Len(slices) : slices'[v] = slices[v]
    BY <2>1, <2>2
  <2>4. SetTypeOK'
    BY <2>1, <2>3 DEF SetInv, SetTypeOK
  <2> QED
    BY <1>0, <1>1, <2>1, <2>3, <2>4
<1>4. ASSUME NEW l \in Procs, NewLease(l) PROVE SetInv'
  <2>1. /\ leases' = Append(leases, l)
        /\ UNCHANGED <<slices, cached, told, leader, dirty, subMembers, computing, misordered>>
    BY <1>4 DEF NewLease
  <2>2. leases' \in Seq(Procs) /\ leases' # <<>>
    BY <2>1 DEF SetInv, SetTypeOK
  <2>3. SetTypeOK'
    BY <2>1, <2>2 DEF SetInv, SetTypeOK
  <2> QED
    BY <1>0, <1>1, <2>1, <2>3
<1>5. \A p \in Followed : p \in Procs
  BY FollowedAssumption
<1> QED
  BY <1>2, <1>3, <1>4, <1>5, UpdateCacheInv, MarkDirtyInv, SetLeaderInv, StartComputeInv,
     ReadMembersInv, EndComputeInv DEF SetNext, Changes

LEMMA ViewsCorrect == SetSpec => []SetInv
<1>1. SetInit => SetInv
  BY SetInitInv DEF SetInit
<1> QED
  BY <1>1, SetStep, PTL DEF SetSpec

LEMMA SettledIsFresh ==
  ASSUME SetInv, NEW p \in Followed, Settled(p)
  PROVE  subMembers[p] = SubMembersOf(leader[p], slices[cached[p]], p)
<1>1. p \in Procs
  BY FollowedAssumption
<1>2. ~dirty[p] /\ computing[p] = Unlocked /\ ~misordered[p] /\ told[p] = cached[p]
  BY DEF Settled
<1>3. PICK v \in 1 .. cached[p] :
        told[p] <= v /\ subMembers[p] = SubMembersOf(leader[p], slices[v], p)
  BY <1>1, <1>2 DEF SetInv, ViewOK, Current
<1>4. v = cached[p]
  BY <1>1, <1>2, <1>3 DEF SetInv, SetTypeOK
<1> QED
  BY <1>3, <1>4

(***************************************************************************)
(* Through every history of EndpointSlices and leases, if fanOut is the    *)
(* literal 10 (schedulerset.go GetSubMembers), whoever agrees forms a tree *)
(* by what is cached, with the relays above the schedulers.                *)
(***************************************************************************)
THEOREM AgreedFormTree == FanOut = Stride => (SetSpec => []AgreedIsTree)
<1> SUFFICES ASSUME FanOut = Stride PROVE SetSpec => []AgreedIsTree
  OBVIOUS
<1>1. SetInv => AgreedIsTree
  <2> SUFFICES ASSUME SetInv, NEW p \in Followed, leader[p] \in slices[cached[p]]
               PROVE  IsTree(leader[p], slices[cached[p]], Links(leader[p], slices[cached[p]]))
    BY DEF AgreedIsTree
  <2>1. p \in Procs
    BY FollowedAssumption
  <2>2. PICK l, M : l = leader[p] /\ M = slices[cached[p]]
    OBVIOUS
  <2>3. M \in SUBSET Procs
    BY <2>1, <2>2 DEF SetInv, SetTypeOK, ViewOK
  <2>4. ASSUME NEW q \in M PROVE Links(l, M)[q] = SubMembersOf(l, M, q)
    <3>1. q \in Procs
      BY <2>3
    <3>2. q \in Followed /\ Settled(q) /\ leader[q] = l /\ slices[cached[q]] = M
            => subMembers[q] = SubMembersOf(l, M, q)
      BY SettledIsFresh
    <3> QED
      BY <3>1, <3>2 DEF Links
  <2>5. IsTree(l, M, Links(l, M))
    BY <2>2, <2>3, <2>4, SubMembersFormTree
  <2> QED
    BY <2>2, <2>5
<1> QED
  BY <1>1, ViewsCorrect, PTL

(***************************************************************************)
(* Although the dirty flag is cleared before the members are read, and     *)
(* handlers run while sub-members are computed, what GetSubMembers has     *)
(* cached is up to date once the process has heard of all changes, unless  *)
(* the informer ran the dirty handler ahead of the cache's.                *)
(***************************************************************************)
THEOREM CacheStaysFresh == SetSpec => []CacheIsFresh
<1>1. SetInv => CacheIsFresh
  BY SettledIsFresh DEF CacheIsFresh
<1> QED
  BY <1>1, ViewsCorrect, PTL

-------------------------------------------------------------------------------
(***************************************************************************)
(* Relay: the types, and what a stream's wire and a task say of each other.*)
(***************************************************************************)
StreamKeys == Procs \X Procs \X Nat
Task ==
  [at : {"unused", "get", "send", "pop", "schedule", "wait", "done"}, proc : Procs \union {0},
   pod : Pods \union {None}, from : StreamKeys \union {None, Orphan}, index : Nat, todo : SUBSET Procs,
   latch : Int, kube : Schedulers \union {None}, one : {"none", "next", "cycle", "done"}]
Stream == [state : {"up", "broken"}, wire : Seq(Tasks), pending : SUBSET Tasks]

RestTypeOK ==
  /\ queue \in [Procs -> Seq(Pods)]
  /\ free \in [Procs -> SUBSET Nat]
  /\ total \in [Procs -> Nat]
  /\ stack \in [Procs -> SUBSET Schedulers]
  /\ nextPod \in [Procs -> [Schedulers -> Pods \union {None}]]
  /\ panicked \in BOOLEAN
  /\ calm \in BOOLEAN

RelayTypeOK ==
  /\ RestTypeOK
  /\ task \in [Tasks -> Task]
  /\ DOMAIN stream \subseteq StreamKeys
  /\ IsFiniteSet(DOMAIN stream)
  /\ \A k \in DOMAIN stream : stream[k] \in Stream

(* How far a call of ProcessOne has come, and what it holds. *)
TaskOK(t) ==
  /\ task[t].at # "unused" => task[t].proc \in Procs /\ task[t].pod \in Pods
  /\ task[t].at # "send" => task[t].todo = {}
  /\ task[t].at \in {"unused", "get"} => task[t].latch = 0
  /\ task[t].at # "schedule" => task[t].one \notin {"next", "cycle"}
  /\ task[t].at = "schedule" => task[t].kube \in Schedulers /\ task[t].one # "none"

(* A stream's messages come from calls that know their sub-members; a      *)
(* broken one has none.                                                    *)
StreamOK(k) ==
  /\ \A i \in 1 .. Len(stream[k].wire) : task[stream[k].wire[i]].at \notin {"unused", "get"}
  /\ stream[k].state = "broken" => stream[k].wire = <<>> /\ stream[k].pending = {}

(* The call that serves a stream holds its first message, and is the only one. *)
Serving(t) == Active(t) /\ task[t].from \notin {None, Orphan}
ServesOK ==
  /\ \A t \in Tasks : Serving(t) =>
       /\ task[t].from \in DOMAIN stream
       /\ stream[task[t].from].state = "up"
       /\ stream[task[t].from].wire # <<>>
  /\ \A t, u \in Tasks : Serving(t) /\ Serving(u) /\ task[t].from = task[u].from => t = u

RelayInv ==
  /\ SetInv
  /\ RelayTypeOK
  /\ \A t \in Tasks : TaskOK(t)
  /\ \A k \in DOMAIN stream : StreamOK(k)
  /\ ServesOK

(* A kube-scheduler is in the stack or with one call, and has a pod to     *)
(* take exactly until its NextPod.                                         *)
Holding(t) == task[t].at = "schedule"
HandInv ==
  /\ ~panicked
  /\ \A p \in Procs : \A s \in stack[p] : nextPod[p][s] = None
  /\ \A t \in Tasks : Holding(t) => task[t].kube \notin stack[task[t].proc]
  /\ \A t, u \in Tasks :
       Holding(t) /\ Holding(u) /\ task[t].proc = task[u].proc /\ task[t].kube = task[u].kube =>
         t = u
  /\ \A t \in Tasks : Holding(t) =>
       (nextPod[task[t].proc][task[t].kube] # None <=> task[t].one = "next")

(* The indices in use are below total and not free, and differ. *)
Indexed(t) == Active(t) /\ task[t].from # None
IndexInv ==
  /\ \A p \in Procs : \A i \in free[p] : i < total[p]
  /\ \A t \in Tasks : Indexed(t) =>
       task[t].index < total[task[t].proc] /\ task[t].index \notin free[task[t].proc]
  /\ StreamIndicesDiffer

(* What a stream has on its wire is what is pending, once each. *)
WireOK(k) ==
  /\ \A i \in 1 .. Len(stream[k].wire) : stream[k].wire[i] \in stream[k].pending
  /\ \A u \in stream[k].pending : \E i \in 1 .. Len(stream[k].wire) : stream[k].wire[i] = u
  /\ \A i, j \in 1 .. Len(stream[k].wire) : stream[k].wire[i] = stream[k].wire[j] => i = j
  /\ stream[k].state = "broken" => ~calm

(* The streams on which t waits for an answer: to sub-members it has sent to. *)
Awaits(t) == {k \in DOMAIN stream : t \in stream[k].pending}
AwaitOK(t) ==
  \A k \in Awaits(t) :
    /\ task[t].at \notin {"unused", "get"}
    /\ \E q \in Procs : k = StreamTo(t, q) /\ q \notin task[t].todo

LatchOK(t) ==
  LET waiting == Cardinality(task[t].todo) + Cardinality(Awaits(t))
  IN  IF calm THEN task[t].latch = waiting ELSE task[t].latch >= waiting

LatchInv ==
  /\ \A k \in DOMAIN stream : WireOK(k)
  /\ \A t \in Tasks : AwaitOK(t)
  /\ WaitPercent > 99 => \A t \in Tasks : LatchOK(t)

-------------------------------------------------------------------------------
(***************************************************************************)
(* What the actions do to the table of tasks.                              *)
(***************************************************************************)
(* Only t's record changes, to r. *)
TaskIs(t, r) ==
  /\ task' \in [Tasks -> Task]
  /\ task'[t] = r
  /\ \A u \in Tasks : u # t => task'[u] = task[u]

(* What a call was made with does not change. *)
SameCall(n, o) == n.proc = o.proc /\ n.pod = o.pod /\ n.from = o.from /\ n.index = o.index

LEMMA TaskUpdate ==
  ASSUME task \in [Tasks -> Task], NEW t \in Tasks, NEW r \in Task, task' = [task EXCEPT ![t] = r]
  PROVE  TaskIs(t, r)
BY DEF TaskIs

LEMMA OrphanFacts == Orphan \notin StreamKeys /\ None \notin StreamKeys /\ None # Orphan
<1>1. Orphan \notin StreamKeys
  BY ProcsAssumption DEF Orphan, StreamKeys
<1>2. Orphan \in Nat \X Nat \X Nat
  BY DEF Orphan
<1>3. StreamKeys \subseteq Nat \X Nat \X Nat
  BY ProcsAssumption DEF StreamKeys
<1> QED
  BY <1>1, <1>2, <1>3, PodsAssumption

(* A call begins. *)
LEMMA BeginTask ==
  ASSUME task \in [Tasks -> Task], NEW t \in Tasks, NEW p \in Procs, NEW x \in Pods,
         NEW k \in StreamKeys \union {None}, NEW i \in Nat,
         task' = [task EXCEPT ![t] = Called(p, x, k, i)]
  PROVE  /\ TaskIs(t, task'[t])
         /\ task'[t].at = "get" /\ task'[t].proc = p /\ task'[t].pod = x
         /\ task'[t].from = k /\ task'[t].index = i
         /\ task'[t].todo = {} /\ task'[t].latch = 0 /\ task'[t].one = "none"
<1>1. PICK r : r = Called(p, x, k, i)
  OBVIOUS
<1>2. r \in Task
  BY <1>1 DEF Task, Called
<1>3. TaskIs(t, r)
  BY <1>1, <1>2, TaskUpdate
<1> QED
  BY <1>1, <1>3 DEF TaskIs, Called

LEMMA RunOneFacts ==
  ASSUME RelayTypeOK, NEW p \in Procs, NEW i \in 0 .. Runners - 1, NEW t \in Tasks, RunOne(p, i, t)
  PROVE  /\ TaskIs(t, task'[t])
         /\ task[t].at = "unused"
         /\ task'[t].at = "get" /\ task'[t].proc = p /\ task'[t].pod \in Pods
         /\ task'[t].from = None
         /\ task'[t].todo = {} /\ task'[t].latch = 0 /\ task'[t].one = "none"
         /\ queue' \in [Procs -> Seq(Pods)]
         /\ UNCHANGED <<setVars, free, total, stream, stack, nextPod, panicked, calm>>
<1> USE DEF RelayTypeOK, RestTypeOK
<1>1. /\ queue[p] # <<>> /\ queue' = [queue EXCEPT ![p] = Tail(queue[p])]
      /\ task[t].at = "unused"
      /\ UNCHANGED <<setVars, free, total, stream, stack, nextPod, panicked, calm>>
  BY DEF RunOne, Free
<1>2. queue[p] \in Seq(Pods)
  OBVIOUS
<1>3. PICK x \in Pods : x = Head(queue[p])
  BY <1>1, <1>2
<1>4. queue' \in [Procs -> Seq(Pods)]
  BY <1>1, <1>2
<1>6. task' = [task EXCEPT ![t] = Called(p, x, None, i)]
  BY <1>3, Zenon DEF RunOne
<1>7. i \in Nat
  BY BoundsAssumption
<1>8. /\ TaskIs(t, task'[t])
      /\ task'[t].at = "get" /\ task'[t].proc = p /\ task'[t].pod = x
      /\ task'[t].from = None /\ task'[t].index = i
      /\ task'[t].todo = {} /\ task'[t].latch = 0 /\ task'[t].one = "none"
  BY <1>6, <1>7, BeginTask
<1> QED
  BY <1>1, <1>4, <1>8

(* Get: an index that is not in use. *)
LEMMA GotFacts ==
  ASSUME RelayTypeOK, NEW p \in Procs
  PROVE  /\ Got(p) \in Nat
         /\ free[p] = {} => Got(p) = total[p]
         /\ free[p] # {} => Got(p) \in free[p]
<1> USE DEF RelayTypeOK, RestTypeOK
<1>1. CASE free[p] = {}
  BY <1>1 DEF Got
<1>2. CASE free[p] # {}
  <2>1. PICK T : T = free[p] /\ T \subseteq Nat /\ T # {}
    BY <1>2
  <2>2. \E i \in T : \A j \in T : i <= j
    BY <2>1, NatHasLeast
  <2>3. (CHOOSE i \in T : \A j \in T : i <= j) \in T
    BY <2>2
  <2>4. Got(p) = CHOOSE i \in T : \A j \in T : i <= j
    BY <1>2, <2>1, Zenon DEF Got
  <2> QED
    BY <1>2, <2>1, <2>3, <2>4
<1> QED
  BY <1>1, <1>2

LEMMA ReceivePodFacts ==
  ASSUME RelayTypeOK, \A k \in DOMAIN stream : StreamOK(k), \A u \in Tasks : TaskOK(u),
         NEW k \in DOMAIN stream, NEW t \in Tasks, ReceivePod(k, t)
  PROVE  LET p == k[2]
         IN  /\ TaskIs(t, task'[t])
             /\ task[t].at = "unused" /\ stream[k].wire # <<>>
             /\ \A u \in Tasks : ~(Active(u) /\ task[u].from = k)
             /\ p \in Procs
             /\ task'[t].at = "get" /\ task'[t].proc = p /\ task'[t].pod \in Pods
             /\ task'[t].from = k /\ task'[t].index = Got(p)
             /\ task'[t].todo = {} /\ task'[t].latch = 0 /\ task'[t].one = "none"
             /\ free' = [free EXCEPT ![p] = free[p] \ {Got(p)}]
             /\ total' = [total EXCEPT ![p] = IF free[p] = {} THEN total[p] + 1 ELSE total[p]]
             /\ UNCHANGED <<setVars, queue, stream, stack, nextPod, panicked, calm>>
<1> USE DEF RelayTypeOK, RestTypeOK
<1>1. PICK p \in Procs : p = k[2]
  BY DEF StreamKeys
<1>2. /\ task[t].at = "unused" /\ stream[k].wire # <<>>
      /\ \A u \in Tasks : ~(Active(u) /\ task[u].from = k)
      /\ UNCHANGED <<setVars, queue, stream, stack, nextPod, panicked, calm>>
  BY DEF ReceivePod, Free
<1>3. /\ free' = [free EXCEPT ![p] = free[p] \ {Got(p)}]
      /\ total' = [total EXCEPT ![p] = IF free[p] = {} THEN total[p] + 1 ELSE total[p]]
  BY <1>1 DEF ReceivePod
<1>4. stream[k].wire \in Seq(Tasks)
  BY DEF Stream
<1>5. PICK u \in Tasks : u = Head(stream[k].wire) /\ u = stream[k].wire[1]
  BY <1>2, <1>4
<1>6. task[u].at # "unused"
  BY <1>2, <1>4, <1>5 DEF StreamOK
<1>7. PICK x \in Pods : x = task[u].pod
  BY <1>6 DEF TaskOK
<1>8. PICK i \in Nat : i = Got(p)
  BY GotFacts
<1>10. task' = [task EXCEPT ![t] = Called(p, x, k, i)]
  BY <1>1, <1>5, <1>7, <1>8, Zenon DEF ReceivePod
<1>11. k \in StreamKeys
  OBVIOUS
<1>12. /\ TaskIs(t, task'[t])
       /\ task'[t].at = "get" /\ task'[t].proc = p /\ task'[t].pod = x
       /\ task'[t].from = k /\ task'[t].index = i
       /\ task'[t].todo = {} /\ task'[t].latch = 0 /\ task'[t].one = "none"
  BY <1>10, <1>11, BeginTask
<1> QED
  BY <1>1, <1>2, <1>3, <1>8, <1>12

(* RelayPod: the sub-members it has still to send to, and the latch. *)
LEMMA RelayPodFacts ==
  ASSUME SetInv, RelayTypeOK, NEW t \in Tasks, TaskOK(t), RelayPod(t)
  PROVE  /\ TaskIs(t, task'[t])
         /\ task[t].at = "get" /\ task'[t].at \in {"pop", "send"}
         /\ task'[t].at = "pop" => task'[t].todo = {}
         /\ task'[t].latch = LatchCount(Cardinality(task'[t].todo))
         /\ SameCall(task'[t], task[t])
         /\ task'[t].kube = task[t].kube /\ task'[t].one = task[t].one
         /\ SetInv'
         /\ UNCHANGED <<queue, free, total, stream, stack, nextPod, panicked, calm>>
<1> USE DEF RelayTypeOK, RestTypeOK
<1>1. PICK o \in Task : o = task[t]
  OBVIOUS
<1>2. o.at = "get" /\ o.proc \in Procs /\ GetSubMembers(o.proc)
  BY <1>1 DEF RelayPod, TaskOK
<1>3. SetInv'
  BY <1>2, GetSubMembersInv
<1>4. PICK M \in SUBSET Procs : M = subMembers'[o.proc]
  BY <1>2, <1>3 DEF SetInv, SetTypeOK
<1>5. PICK a \in {"pop", "send"} : a = IF M = {} THEN "pop" ELSE "send"
  OBVIOUS
<1>6. PICK n \in Int : n = LatchCount(Cardinality(M))
  <2>1. PICK c \in Nat : c = Cardinality(M)
    BY ProcsAssumption, FS_Subset, FS_CardinalityType
  <2>2. c * WaitPercent \in Nat
    BY BoundsAssumption
  <2>3. LatchCount(c) \in Int
    BY <2>2 DEF LatchCount
  <2> QED
    BY <2>1, <2>3
<1> DEFINE r == [o EXCEPT !.at = a, !.todo = M, !.latch = n]
<1>7. task' = [task EXCEPT ![t] = r]
  <2>1. PICK f \in [Tasks -> Task] : f = task
    OBVIOUS
  <2>2. PICK g : g = task'
    OBVIOUS
  <2>3. g = [f EXCEPT ![t].at = a, ![t].todo = M, ![t].latch = n]
    BY <1>1, <1>4, <1>5, <1>6, <2>1, <2>2, Zenon DEF RelayPod
  <2>4. o = f[t]
    BY <1>1, <2>1
  <2>5. g = [f EXCEPT ![t] = r]
    BY <2>3, <2>4
  <2> QED
    BY <2>1, <2>2, <2>5, Zenon
<1>8. /\ r \in Task /\ r.at = a /\ r.todo = M /\ r.latch = n
      /\ SameCall(r, o) /\ r.kube = o.kube /\ r.one = o.one
  BY DEF Task, SameCall
<1> HIDE DEF r
<1>9. TaskIs(t, r)
  BY <1>7, <1>8, TaskUpdate
<1>10. task'[t] = r
  BY <1>9 DEF TaskIs
<1>11. UNCHANGED <<queue, free, total, stream, stack, nextPod, panicked, calm>>
  BY DEF RelayPod
<1> QED
  BY <1>1, <1>2, <1>3, <1>5, <1>6, <1>8, <1>9, <1>10, <1>11

(* The message to q has been sent, or given up. *)
LEMMA SentFacts ==
  ASSUME RelayTypeOK, NEW t \in Tasks, NEW q \in Procs, NEW d \in Nat, Sent(t, q, d)
  PROVE  /\ TaskIs(t, task'[t])
         /\ task'[t].at = IF task[t].todo = {q} THEN "pop" ELSE "send"
         /\ task'[t].todo = task[t].todo \ {q}
         /\ task'[t].latch = task[t].latch - d
         /\ SameCall(task'[t], task[t])
         /\ task'[t].kube = task[t].kube /\ task'[t].one = task[t].one
<1> USE DEF RelayTypeOK, RestTypeOK
<1>1. PICK o \in Task : o = task[t]
  OBVIOUS
<1>2. PICK M \in SUBSET Procs : M = o.todo \ {q}
  BY DEF Task
<1>3. PICK a \in {"pop", "send"} : a = IF o.todo = {q} THEN "pop" ELSE "send"
  OBVIOUS
<1>4. PICK n \in Int : n = o.latch - d
  BY DEF Task
<1> DEFINE r == [o EXCEPT !.at = a, !.todo = M, !.latch = n]
<1>5. task' = [task EXCEPT ![t] = r]
  <2>1. PICK f \in [Tasks -> Task] : f = task
    OBVIOUS
  <2>2. PICK g : g = task'
    OBVIOUS
  <2>3. o = f[t]
    BY <1>1, <2>1
  <2>4. g = [f EXCEPT ![t].todo = @ \ {q}, ![t].latch = @ - d, ![t].at = a]
    BY <1>1, <1>3, <2>1, <2>2, Zenon DEF Sent
  <2>5. g = [f EXCEPT ![t] = r]
    BY <1>2, <1>4, <2>3, <2>4
  <2> QED
    BY <2>1, <2>2, <2>5, Zenon
<1>6. /\ r \in Task /\ r.at = a /\ r.todo = M /\ r.latch = n
      /\ SameCall(r, o) /\ r.kube = o.kube /\ r.one = o.one
  BY DEF Task, SameCall
<1> HIDE DEF r
<1>7. TaskIs(t, r)
  BY <1>5, <1>6, TaskUpdate
<1>8. task'[t] = r
  BY <1>7 DEF TaskIs
<1> QED
  BY <1>1, <1>2, <1>3, <1>4, <1>6, <1>7, <1>8

(* The call goes from one stage to the next. *)
LEMMA StageFacts ==
  ASSUME RelayTypeOK, NEW t \in Tasks, NEW a \in {"wait", "done"}, task' = [task EXCEPT ![t].at = a]
  PROVE  /\ TaskIs(t, task'[t])
         /\ task'[t].at = a
         /\ task'[t].todo = task[t].todo /\ task'[t].latch = task[t].latch
         /\ SameCall(task'[t], task[t])
         /\ task'[t].kube = task[t].kube /\ task'[t].one = task[t].one
<1> USE DEF RelayTypeOK, RestTypeOK
<1>1. PICK o \in Task : o = task[t]
  OBVIOUS
<1> DEFINE r == [o EXCEPT !.at = a]
<1>2. task' = [task EXCEPT ![t] = r]
  BY <1>1
<1>3. /\ r \in Task /\ r.at = a /\ r.todo = o.todo /\ r.latch = o.latch
      /\ SameCall(r, o) /\ r.kube = o.kube /\ r.one = o.one
  BY DEF Task, SameCall
<1> HIDE DEF r
<1>4. TaskIs(t, r)
  BY <1>2, <1>3, TaskUpdate
<1>5. task'[t] = r
  BY <1>4 DEF TaskIs
<1> QED
  BY <1>1, <1>3, <1>4, <1>5

(* The pod cannot be encoded: the call returns. *)
LEMMA RelayFailsFacts ==
  ASSUME SetInv, RelayTypeOK, NEW t \in Tasks, TaskOK(t), RelayFails(t)
  PROVE  /\ TaskIs(t, task'[t])
         /\ task[t].at = "get" /\ task'[t].at = "done" /\ task[t].from = None
         /\ task'[t].todo = task[t].todo /\ task'[t].latch = task[t].latch
         /\ SameCall(task'[t], task[t])
         /\ task'[t].kube = task[t].kube /\ task'[t].one = task[t].one
         /\ SetInv' /\ ~calm' /\ calm' \in BOOLEAN
         /\ UNCHANGED <<queue, enqueued, free, total, stream, stack, nextPod, panicked>>
<1>1. /\ task[t].at = "get" /\ task[t].from = None /\ GetSubMembers(task[t].proc)
      /\ task' = [task EXCEPT ![t].at = "done"] /\ calm' = FALSE
      /\ UNCHANGED <<queue, enqueued, free, total, stream, stack, nextPod, panicked>>
  BY DEF RelayFails
<1>2. SetInv'
  BY <1>1, GetSubMembersInv DEF TaskOK
<1>3. /\ TaskIs(t, task'[t]) /\ task'[t].at = "done"
      /\ task'[t].todo = task[t].todo /\ task'[t].latch = task[t].latch
      /\ SameCall(task'[t], task[t])
      /\ task'[t].kube = task[t].kube /\ task'[t].one = task[t].one
  BY <1>1, StageFacts
<1> QED
  BY <1>1, <1>2, <1>3

(* Its ScheduleOne goes from one stage to the next. *)
LEMMA OneFacts ==
  ASSUME RelayTypeOK, NEW t \in Tasks, NEW a \in {"cycle", "done"}, task' = [task EXCEPT ![t].one = a]
  PROVE  /\ TaskIs(t, task'[t])
         /\ task'[t].one = a
         /\ task'[t].todo = task[t].todo /\ task'[t].latch = task[t].latch
         /\ SameCall(task'[t], task[t])
         /\ task'[t].kube = task[t].kube /\ task'[t].at = task[t].at
<1> USE DEF RelayTypeOK, RestTypeOK
<1>1. PICK o \in Task : o = task[t]
  OBVIOUS
<1> DEFINE r == [o EXCEPT !.one = a]
<1>2. task' = [task EXCEPT ![t] = r]
  BY <1>1
<1>3. /\ r \in Task /\ r.one = a /\ r.todo = o.todo /\ r.latch = o.latch
      /\ SameCall(r, o) /\ r.kube = o.kube /\ r.at = o.at
  BY DEF Task, SameCall
<1> HIDE DEF r
<1>4. TaskIs(t, r)
  BY <1>2, <1>3, TaskUpdate
<1>5. task'[t] = r
  BY <1>4 DEF TaskIs
<1> QED
  BY <1>1, <1>3, <1>4, <1>5

(* A kube-scheduler out of the stack is handed the pod. *)
LEMMA PopSchedulerFacts ==
  ASSUME RelayTypeOK, NEW t \in Tasks, TaskOK(t), PopScheduler(t)
  PROVE  /\ TaskIs(t, task'[t])
         /\ task[t].at = "pop" /\ task'[t].at = "schedule" /\ task'[t].one = "next"
         /\ task'[t].todo = task[t].todo /\ task'[t].latch = task[t].latch
         /\ SameCall(task'[t], task[t])
         /\ LET p == task[t].proc
                s == task'[t].kube
            IN  /\ s \in stack[p]
                /\ stack' = [stack EXCEPT ![p] = stack[p] \ {s}]
                /\ panicked' = (panicked \/ nextPod[p][s] # None)
                /\ nextPod' = [nextPod EXCEPT ![p][s] = task[t].pod]
         /\ UNCHANGED <<setVars, queue, free, total, stream, calm>>
<1> USE DEF RelayTypeOK, RestTypeOK
<1>1. PICK o \in Task : o = task[t]
  OBVIOUS
<1>2. o.at = "pop" /\ UNCHANGED <<setVars, queue, free, total, stream, calm>>
  BY <1>1 DEF PopScheduler
<1>3. PICK s \in stack[o.proc] :
        /\ stack' = [stack EXCEPT ![o.proc] = stack[o.proc] \ {s}]
        /\ panicked' = (panicked \/ nextPod[o.proc][s] # None)
        /\ nextPod' = [nextPod EXCEPT ![o.proc][s] = o.pod]
        /\ task' = [task EXCEPT ![t].at = "schedule", ![t].kube = s, ![t].one = "next"]
  BY <1>1, Zenon DEF PopScheduler
<1>4. s \in Schedulers
  BY <1>1, <1>2 DEF TaskOK
<1> DEFINE r == [o EXCEPT !.at = "schedule", !.kube = s, !.one = "next"]
<1>5. task' = [task EXCEPT ![t] = r]
  <2>1. PICK f \in [Tasks -> Task] : f = task
    OBVIOUS
  <2>2. PICK g : g = task'
    OBVIOUS
  <2>3. o = f[t]
    BY <1>1, <2>1
  <2>4. g = [f EXCEPT ![t].at = "schedule", ![t].kube = s, ![t].one = "next"]
    BY <1>3, <2>1, <2>2, Zenon
  <2>5. g = [f EXCEPT ![t] = r]
    BY <2>3, <2>4
  <2> QED
    BY <2>1, <2>2, <2>5, Zenon
<1>6. /\ r \in Task /\ r.at = "schedule" /\ r.kube = s /\ r.one = "next"
      /\ r.todo = o.todo /\ r.latch = o.latch /\ SameCall(r, o)
  BY <1>4 DEF Task, SameCall
<1> HIDE DEF r
<1>7. TaskIs(t, r)
  BY <1>5, <1>6, TaskUpdate
<1>8. task'[t] = r
  BY <1>7 DEF TaskIs
<1>9. /\ task'[t].kube = s /\ s \in stack[o.proc]
      /\ task'[t].at = "schedule" /\ task'[t].one = "next"
      /\ task'[t].todo = o.todo /\ task'[t].latch = o.latch /\ SameCall(task'[t], o)
      /\ TaskIs(t, task'[t])
  BY <1>3, <1>6, <1>7, <1>8
<1> QED
  BY <1>1, <1>2, <1>3, <1>9, Zenon

-------------------------------------------------------------------------------
(***************************************************************************)
(* What the actions do to the streams.                                     *)
(***************************************************************************)
(* The streams but k stay as they are. *)
Others(k) == \A j \in DOMAIN stream : j # k => j \in DOMAIN stream' /\ stream'[j] = stream[j]

(* The stream k takes t's message, and is opened for it if need be. *)
Takes(k, t) ==
  \E w \in Seq(Tasks), P \in SUBSET Tasks :
    /\ stream'[k].state = "up" /\ stream'[k].wire = Append(w, t)
    /\ stream'[k].pending = P \union {t}
    /\ k \in DOMAIN stream => stream[k].state = "up" /\ stream[k].wire = w /\ stream[k].pending = P
    /\ k \notin DOMAIN stream => w = <<>> /\ P = {}

LEMMA AppendType ==
  ASSUME NEW S, NEW w \in Seq(S), NEW x \in S
  PROVE  Append(w, x) \in Seq(S)
OBVIOUS

LEMMA OpenedType == Opened \in Stream
<1>1. <<>> \in Seq(Tasks)
  OBVIOUS
<1> QED
  BY <1>1 DEF Opened, Stream

LEMMA SendPodFacts ==
  ASSUME RelayTypeOK, NEW t \in Tasks, TaskOK(t), NEW q \in Procs, SendPod(t, q)
  PROVE  LET k == StreamTo(t, q)
         IN  /\ task[t].at = "send" /\ q \in task[t].todo
             /\ k \in StreamKeys
             /\ DOMAIN stream' = DOMAIN stream \union {k}
             /\ stream'[k] \in Stream
             /\ Others(k)
             /\ \/ k \in DOMAIN stream /\ stream[k].state = "broken" /\ stream'[k] = stream[k]
                \/ Takes(k, t)
             /\ Sent(t, q, 0)
             /\ UNCHANGED <<setVars, queue, free, total, stack, nextPod, panicked, calm>>
<1> USE DEF RelayTypeOK, RestTypeOK
<1>1. /\ task[t].at = "send" /\ q \in task[t].todo /\ Sent(t, q, 0)
      /\ UNCHANGED <<setVars, queue, free, total, stack, nextPod, panicked, calm>>
  BY DEF SendPod
<1>2. PICK k \in StreamKeys : k = StreamTo(t, q)
  BY <1>1 DEF StreamTo, TaskOK, Task, StreamKeys
<1>3. PICK cs \in Stream : cs = IF k \in DOMAIN stream THEN stream[k] ELSE Opened
  BY OpenedType
<1>4. PICK ns : ns = IF cs.state = "broken" THEN cs
                     ELSE [cs EXCEPT !.wire = Append(@, t), !.pending = @ \union {t}]
  OBVIOUS
<1>5. stream' = Cached(k, ns)
  BY <1>2, <1>3, <1>4, Zenon DEF SendPod
<1>6. DOMAIN stream' = DOMAIN stream \union {k}
  BY <1>5 DEF Cached
<1>7. stream'[k] = ns /\ Others(k)
  BY <1>5 DEF Cached, Others
<1>8. CASE cs.state = "broken"
  <2>1. ns = cs
    BY <1>4, <1>8
  <2>2. k \in DOMAIN stream /\ cs = stream[k]
    BY <1>3, <1>8 DEF Opened
  <2> QED
    BY <1>1, <1>2, <1>6, <1>7, <1>8, <2>1, <2>2
<1>9. CASE cs.state # "broken"
  <2>1. PICK w \in Seq(Tasks), P \in SUBSET Tasks : w = cs.wire /\ P = cs.pending
    BY DEF Stream
  <2>2. PICK w2 \in Seq(Tasks) : w2 = Append(w, t)
    BY AppendType
  <2>3. PICK P2 \in SUBSET Tasks : P2 = P \union {t}
    OBVIOUS
  <2>4. ns = [cs EXCEPT !.wire = w2, !.pending = P2]
    <3>1. ns = [cs EXCEPT !.wire = Append(@, t), !.pending = @ \union {t}]
      BY <1>4, <1>9, Zenon
    <3> QED
      BY <3>1, <2>1, <2>2, <2>3 DEF Stream
  <2>5. cs.state = "up"
    BY <1>9 DEF Stream
  <2>6. ns \in Stream /\ ns.state = "up" /\ ns.wire = w2 /\ ns.pending = P2
    BY <2>4, <2>5 DEF Stream
  <2>7. k \in DOMAIN stream => stream[k].state = "up" /\ stream[k].wire = w /\ stream[k].pending = P
    BY <1>3, <2>1, <2>5
  <2>8. k \notin DOMAIN stream => w = <<>> /\ P = {}
    BY <1>3, <2>1 DEF Opened
  <2>9. Takes(k, t)
    BY <1>7, <2>2, <2>3, <2>6, <2>7, <2>8 DEF Takes
  <2> QED
    BY <1>1, <1>2, <1>6, <1>7, <2>6, <2>9
<1> QED
  BY <1>8, <1>9

LEMMA SendFailsFacts ==
  ASSUME RelayTypeOK, NEW t \in Tasks, TaskOK(t), NEW q \in Procs, SendFails(t, q)
  PROVE  LET k == StreamTo(t, q)
         IN  /\ task[t].at = "send" /\ q \in task[t].todo
             /\ DOMAIN stream' = DOMAIN stream \ {k}
             /\ Others(k)
             /\ k \in DOMAIN stream => stream[k].state = "broken"
             /\ Sent(t, q, 1)
             /\ calm' = FALSE
             /\ UNCHANGED <<setVars, queue, free, total, stack, nextPod, panicked>>
<1>1. PICK k : k = StreamTo(t, q)
  OBVIOUS
<1>2. stream' = [j \in DOMAIN stream \ {k} |-> stream[j]]
  BY <1>1, Zenon DEF SendFails, Restrict
<1>3. DOMAIN stream' = DOMAIN stream \ {k} /\ Others(k)
  BY <1>2 DEF Others
<1> QED
  BY <1>1, <1>3 DEF SendFails

(* A broken stream is empty, and whoever served it has lost it. *)
LEMMA StreamBreaksFacts ==
  ASSUME RelayTypeOK, NEW k \in DOMAIN stream, StreamBreaks(k)
  PROVE  /\ stream[k].state = "up"
         /\ task' \in [Tasks -> Task]
         /\ \A v \in Tasks :
              /\ task'[v].at = task[v].at /\ task'[v].proc = task[v].proc
              /\ task'[v].pod = task[v].pod /\ task'[v].index = task[v].index
              /\ task'[v].todo = task[v].todo /\ task'[v].latch = task[v].latch
              /\ task'[v].kube = task[v].kube /\ task'[v].one = task[v].one
              /\ task'[v].from = IF task[v].from = k THEN Orphan ELSE task[v].from
         /\ DOMAIN stream' = DOMAIN stream
         /\ Others(k)
         /\ stream'[k] \in Stream
         /\ stream'[k].state = "broken" /\ stream'[k].wire = <<>> /\ stream'[k].pending = {}
         /\ calm' = FALSE
         /\ UNCHANGED <<setVars, queue, free, total, stack, nextPod, panicked>>
<1> USE DEF RelayTypeOK, RestTypeOK
<1>1. PICK o \in Stream : o = Opened
  BY OpenedType
<1>2. PICK b : b = [o EXCEPT !.state = "broken"]
  OBVIOUS
<1>3. stream' = [stream EXCEPT ![k] = b]
  BY <1>1, <1>2, Zenon DEF StreamBreaks
<1>4. stream'[k] = b /\ DOMAIN stream' = DOMAIN stream /\ Others(k)
  BY <1>3 DEF Others
<1>5. /\ b \in Stream
      /\ b.state = "broken" /\ b.wire = <<>> /\ b.pending = {}
  <2>1. b \in Stream /\ b.state = "broken" /\ b.wire = o.wire /\ b.pending = o.pending
    BY <1>2 DEF Stream
  <2>2. o.wire = <<>> /\ o.pending = {}
    BY <1>1 DEF Opened
  <2> QED
    BY <2>1, <2>2
<1>6. task' = [v \in Tasks |-> IF task[v].from = k THEN [task[v] EXCEPT !.from = Orphan] ELSE task[v]]
  BY DEF StreamBreaks
<1>7. ASSUME NEW v \in Tasks
      PROVE  /\ task'[v] \in Task
             /\ task'[v].at = task[v].at /\ task'[v].proc = task[v].proc
             /\ task'[v].pod = task[v].pod /\ task'[v].index = task[v].index
             /\ task'[v].todo = task[v].todo /\ task'[v].latch = task[v].latch
             /\ task'[v].kube = task[v].kube /\ task'[v].one = task[v].one
             /\ task'[v].from = IF task[v].from = k THEN Orphan ELSE task[v].from
  <2>1. PICK w \in Task : w = task[v]
    OBVIOUS
  <2>2. PICK n : n = task'[v]
    OBVIOUS
  <2>3. CASE w.from = k
    <3>1. n = [w EXCEPT !.from = Orphan]
      BY <1>6, <2>1, <2>2, <2>3
    <3>2. /\ n \in Task /\ n.at = w.at /\ n.proc = w.proc /\ n.pod = w.pod /\ n.index = w.index
          /\ n.todo = w.todo /\ n.latch = w.latch /\ n.kube = w.kube /\ n.one = w.one
          /\ n.from = Orphan
      BY <3>1 DEF Task
    <3> QED
      BY <2>1, <2>2, <2>3, <3>2
  <2>4. CASE w.from # k
    BY <1>6, <2>1, <2>4
  <2> QED
    BY <2>3, <2>4
<1>8. task' \in [Tasks -> Task]
  <2>1. \A v \in Tasks : task'[v] \in Task
    BY <1>7
  <2>2. DOMAIN task' = Tasks /\ task' = [v \in Tasks |-> task'[v]]
    BY <1>6
  <2> QED
    BY <2>1, <2>2
<1>9. /\ stream[k].state = "up" /\ calm' = FALSE
      /\ UNCHANGED <<setVars, queue, free, total, stack, nextPod, panicked>>
  BY DEF StreamBreaks
<1> QED
  BY <1>4, <1>5, <1>7, <1>8, <1>9

(* The call t is over, and nothing else changes but perhaps a latch. *)
Returns(t) ==
  /\ task' \in [Tasks -> Task]
  /\ task'[t].at = "done"
  /\ \A v \in Tasks :
       /\ v # t => task'[v].at = task[v].at
       /\ SameCall(task'[v], task[v])
       /\ task'[v].todo = task[v].todo
       /\ task'[v].kube = task[v].kube /\ task'[v].one = task[v].one
  /\ free' = IF task[t].from = None THEN free
             ELSE [free EXCEPT ![task[t].proc] = free[task[t].proc] \union {task[t].index}]
  /\ UNCHANGED <<setVars, queue, total, stack, nextPod, panicked>>

(* Nobody hears of it. *)
ReturnsAlone(t) ==
  /\ task[t].from \in {None, Orphan}
  /\ UNCHANGED stream
  /\ \A v \in Tasks : task'[v].latch = task[v].latch

(* The call that sent the first message on the stream k hears of it. *)
ReturnsTo(t, k, u) ==
  /\ k = task[t].from /\ u = Head(stream[k].wire)
  /\ stream[k].state = "up" /\ stream[k].wire # <<>>
  /\ DOMAIN stream' = DOMAIN stream
  /\ Others(k)
  /\ stream'[k] \in Stream
  /\ stream'[k].state = "up" /\ stream'[k].wire = Tail(stream[k].wire)
  /\ stream'[k].pending = stream[k].pending \ {u}
  /\ \A v \in Tasks : task'[v].latch = IF v = u THEN task[v].latch - 1 ELSE task[v].latch

LEMMA TailType ==
  ASSUME NEW S, NEW w \in Seq(S), w # <<>>
  PROVE  Tail(w) \in Seq(S) /\ Head(w) \in S
OBVIOUS

LEMMA ReturnFacts ==
  ASSUME RelayTypeOK, ServesOK, NEW t \in Tasks, task[t].at = "wait", Return(t)
  PROVE  /\ Returns(t)
         /\ \/ ReturnsAlone(t)
            \/ \E k \in DOMAIN stream, u \in Tasks : ReturnsTo(t, k, u)
<1> USE DEF RelayTypeOK, RestTypeOK
<1>1. /\ UNCHANGED <<setVars, queue, total, stack, nextPod, panicked>>
      /\ free' = IF task[t].from = None THEN free
                 ELSE [free EXCEPT ![task[t].proc] = free[task[t].proc] \union {task[t].index}]
  BY DEF Return, Freed
<1>2. CASE task[t].from \in {None, Orphan}
  <2>1. task' = [task EXCEPT ![t].at = "done"] /\ UNCHANGED stream
    BY <1>2 DEF Return, Freed
  <2>2. /\ TaskIs(t, task'[t])
        /\ task'[t].at = "done"
        /\ task'[t].todo = task[t].todo /\ task'[t].latch = task[t].latch
        /\ SameCall(task'[t], task[t])
        /\ task'[t].kube = task[t].kube /\ task'[t].one = task[t].one
    BY <2>1, StageFacts
  <2>3. Returns(t)
    <3>1. ASSUME NEW v \in Tasks
          PROVE  /\ v # t => task'[v].at = task[v].at
                 /\ SameCall(task'[v], task[v])
                 /\ task'[v].todo = task[v].todo
                 /\ task'[v].kube = task[v].kube /\ task'[v].one = task[v].one
      BY <2>2 DEF TaskIs, SameCall
    <3> QED
      BY <1>1, <2>2, <3>1 DEF Returns, TaskIs
  <2>4. ReturnsAlone(t)
    BY <1>2, <2>1, <2>2 DEF ReturnsAlone, TaskIs
  <2> QED
    BY <2>3, <2>4
<1>3. CASE task[t].from \notin {None, Orphan}
  <2>1. PICK k : k = task[t].from
    OBVIOUS
  <2>2. k \in DOMAIN stream /\ stream[k].state = "up" /\ stream[k].wire # <<>>
    BY <1>3, <2>1 DEF ServesOK, Serving, Active
  <2>3. PICK s \in Stream : s = stream[k]
    BY <2>2
  <2>4. PICK w \in Seq(Tasks), P \in SUBSET Tasks : w = s.wire /\ P = s.pending
    BY DEF Stream
  <2>5. w # <<>>
    BY <2>2, <2>3, <2>4
  <2>6. PICK u \in Tasks : u = Head(w)
    BY <2>5, TailType
  <2>7. PICK w2 \in Seq(Tasks) : w2 = Tail(w)
    BY <2>5, TailType
  <2>8. PICK P2 \in SUBSET Tasks : P2 = P \ {u}
    OBVIOUS
  <2>9. /\ task' = [task EXCEPT ![t].at = "done", ![u].latch = @ - 1]
        /\ stream' = [stream EXCEPT ![k].wire = Tail(@), ![k].pending = @ \ {u}]
    BY <1>3, <2>1, <2>3, <2>4, <2>6, Zenon DEF Return, Freed
  <2>10. Returns(t) /\ \A v \in Tasks : task'[v].latch = IF v = u THEN task[v].latch - 1
                                                         ELSE task[v].latch
    <3>1. PICK f \in [Tasks -> Task] : f = task
      OBVIOUS
    <3>2. PICK g : g = task'
      OBVIOUS
    <3>3. PICK h : h = [f EXCEPT ![t].at = "done"]
      OBVIOUS
    <3>4. g = [h EXCEPT ![u].latch = @ - 1]
      <4>1. g = [f EXCEPT ![t].at = "done", ![u].latch = @ - 1]
        BY <2>9, <3>1, <3>2, Zenon
      <4> QED
        BY <3>3, <4>1
    <3>5. /\ h \in [Tasks -> Task]
          /\ h[t].at = "done"
          /\ \A v \in Tasks :
               /\ v # t => h[v].at = f[v].at
               /\ h[v].proc = f[v].proc /\ h[v].pod = f[v].pod /\ h[v].from = f[v].from
               /\ h[v].index = f[v].index
               /\ h[v].todo = f[v].todo /\ h[v].latch = f[v].latch
               /\ h[v].kube = f[v].kube /\ h[v].one = f[v].one
      BY <3>3, ZenonT(40) DEF Task
    <3>6. PICK n \in Int : n = h[u].latch - 1
      BY <3>5 DEF Task
    <3>7. g = [h EXCEPT ![u].latch = n]
      BY <3>4, <3>6, Zenon
    <3>8. /\ g \in [Tasks -> Task]
          /\ \A v \in Tasks :
               /\ g[v].at = h[v].at
               /\ g[v].proc = h[v].proc /\ g[v].pod = h[v].pod /\ g[v].from = h[v].from
               /\ g[v].index = h[v].index
               /\ g[v].todo = h[v].todo /\ g[v].latch = IF v = u THEN n ELSE h[v].latch
               /\ g[v].kube = h[v].kube /\ g[v].one = h[v].one
      <4>0. h \in [Tasks -> Task]
        BY <3>5
      <4>1. PICK o \in Task : o = h[u]
        BY <4>0
      <4>2. PICK r : r = [o EXCEPT !.latch = n]
        OBVIOUS
      <4>3. g = [h EXCEPT ![u] = r]
        BY <3>7, <4>0, <4>1, <4>2
      <4>4. /\ r \in Task /\ r.at = o.at /\ r.proc = o.proc /\ r.pod = o.pod /\ r.from = o.from
            /\ r.index = o.index /\ r.todo = o.todo /\ r.latch = n
            /\ r.kube = o.kube /\ r.one = o.one
        BY <4>2 DEF Task
      <4>5. g \in [Tasks -> Task] /\ g[u] = r /\ \A v \in Tasks : v # u => g[v] = h[v]
        BY <4>0, <4>3, <4>4
      <4> QED
        BY <4>1, <4>4, <4>5
    <3>9. ASSUME NEW v \in Tasks
          PROVE  /\ v # t => task'[v].at = task[v].at
                 /\ SameCall(task'[v], task[v])
                 /\ task'[v].todo = task[v].todo
                 /\ task'[v].kube = task[v].kube /\ task'[v].one = task[v].one
                 /\ task'[v].latch = IF v = u THEN task[v].latch - 1 ELSE task[v].latch
      BY <3>1, <3>2, <3>5, <3>6, <3>8 DEF SameCall
    <3>10. task' \in [Tasks -> Task] /\ task'[t].at = "done"
      BY <3>2, <3>5, <3>8
    <3>11. Returns(t)
      BY <1>1, <3>9, <3>10 DEF Returns
    <3> QED
      BY <3>9, <3>11
  <2>11. /\ DOMAIN stream' = DOMAIN stream /\ Others(k)
         /\ stream'[k] \in Stream
         /\ stream'[k].state = "up" /\ stream'[k].wire = w2 /\ stream'[k].pending = P2
    <3>1. PICK f : f = stream
      OBVIOUS
    <3>2. PICK g : g = stream'
      OBVIOUS
    <3>3. PICK r : r = [s EXCEPT !.wire = w2, !.pending = P2]
      OBVIOUS
    <3>4. g = [f EXCEPT ![k] = r]
      <4>1. g = [f EXCEPT ![k].wire = Tail(@), ![k].pending = @ \ {u}]
        BY <2>9, <3>1, <3>2, Zenon
      <4>2. s = f[k] /\ k \in DOMAIN f
        BY <2>2, <2>3, <3>1
      <4> QED
        BY <2>4, <2>7, <2>8, <3>3, <4>1, <4>2 DEF Stream
    <3>5. r \in Stream /\ r.state = s.state /\ r.wire = w2 /\ r.pending = P2
      BY <3>3 DEF Stream
    <3>6. stream' = [stream EXCEPT ![k] = r]
      BY <3>1, <3>2, <3>4, Zenon
    <3> QED
      BY <2>2, <2>3, <3>5, <3>6 DEF Others
  <2>12. ReturnsTo(t, k, u)
    BY <2>1, <2>2, <2>3, <2>4, <2>6, <2>7, <2>8, <2>10, <2>11 DEF ReturnsTo
  <2> QED
    BY <2>2, <2>10, <2>12
<1> QED
  BY <1>2, <1>3

-------------------------------------------------------------------------------
(***************************************************************************)
(* The first layer: types, stages and who serves which stream.             *)
(***************************************************************************)
LEMMA SetKept == SetInv /\ UNCHANGED setVars => SetInv'
BY SetStep

(* A step of one call that leaves the streams alone and takes none over. *)
LEMMA QuietStep ==
  ASSUME RelayInv, SetInv', RestTypeOK', UNCHANGED stream, NEW t \in Tasks, TaskIs(t, task'[t]),
         TaskOK(t)', task'[t].at # "unused", task'[t].at # "get" \/ task[t].at = "unused",
         task'[t].from = None \/ (task'[t].from = task[t].from /\ Active(t))
  PROVE  RelayInv'
<1> USE DEF RelayInv
<1>1. /\ task' \in [Tasks -> Task]
      /\ \A u \in Tasks : u # t => task'[u] = task[u]
  BY DEF TaskIs
<1>2. RelayTypeOK'
  BY <1>1 DEF RelayTypeOK
<1>3. \A v \in Tasks : TaskOK(v)'
  <2>1. \A v \in Tasks : v # t => (TaskOK(v)' <=> TaskOK(v))
    BY <1>1 DEF TaskOK
  <2> QED
    BY <2>1
<1>4. \A v \in Tasks : task[v].at \notin {"unused", "get"} => task'[v].at \notin {"unused", "get"}
  BY <1>1
<1>5. ASSUME NEW k \in DOMAIN stream' PROVE StreamOK(k)'
  <2>1. StreamOK(k) /\ stream[k] \in Stream
    BY DEF RelayTypeOK
  <2>2. \A i \in 1 .. Len(stream[k].wire) : stream[k].wire[i] \in Tasks
    BY <2>1 DEF Stream
  <2> QED
    BY <1>4, <2>1, <2>2 DEF StreamOK
<1>6. \A v \in Tasks : Serving(v)' => Serving(v) /\ task'[v].from = task[v].from
  BY <1>1 DEF Serving, Active
<1>7. ServesOK'
  <2> SUFFICES ASSUME NEW u \in Tasks, Serving(u)'
               PROVE  /\ task'[u].from \in DOMAIN stream
                      /\ stream[task'[u].from].state = "up"
                      /\ stream[task'[u].from].wire # <<>>
                      /\ \A v \in Tasks : Serving(v)' /\ task'[u].from = task'[v].from => u = v
    BY DEF ServesOK
  <2> QED
    BY <1>6 DEF ServesOK
<1> QED
  BY <1>2, <1>3, <1>5, <1>7

LEMMA RunOneInv ==
  ASSUME RelayInv, NEW p \in Procs, NEW i \in 0 .. Runners - 1, NEW t \in Tasks, RunOne(p, i, t)
  PROVE  RelayInv'
<1>1. /\ TaskIs(t, task'[t])
      /\ task[t].at = "unused"
      /\ task'[t].at = "get" /\ task'[t].proc = p /\ task'[t].pod \in Pods
      /\ task'[t].from = None
      /\ task'[t].todo = {} /\ task'[t].latch = 0 /\ task'[t].one = "none"
      /\ queue' \in [Procs -> Seq(Pods)]
      /\ UNCHANGED <<setVars, free, total, stream, stack, nextPod, panicked, calm>>
  BY RunOneFacts DEF RelayInv
<1>2. SetInv'
  BY <1>1, SetKept DEF RelayInv
<1>3. RestTypeOK'
  BY <1>1 DEF RelayInv, RelayTypeOK, RestTypeOK
<1>4. TaskOK(t)'
  BY <1>1 DEF TaskOK
<1>5. /\ TaskIs(t, task'[t]) /\ task'[t].at # "unused" /\ UNCHANGED stream
      /\ task'[t].at # "get" \/ task[t].at = "unused"
  BY <1>1
<1>6. task'[t].from = None \/ (task'[t].from = task[t].from /\ Active(t))
  BY <1>1
<1> QED
  BY <1>2, <1>3, <1>4, <1>5, <1>6, QuietStep, Zenon

LEMMA RelayPodInv ==
  ASSUME RelayInv, NEW t \in Tasks, RelayPod(t)
  PROVE  RelayInv'
<1>1. /\ TaskIs(t, task'[t])
      /\ task[t].at = "get" /\ task'[t].at \in {"pop", "send"}
      /\ task'[t].at = "pop" => task'[t].todo = {}
      /\ SameCall(task'[t], task[t])
      /\ task'[t].kube = task[t].kube /\ task'[t].one = task[t].one
      /\ SetInv'
      /\ UNCHANGED <<queue, free, total, stream, stack, nextPod, panicked, calm>>
  BY RelayPodFacts DEF RelayInv
<1>2. RestTypeOK'
  BY <1>1 DEF RelayInv, RelayTypeOK, RestTypeOK
<1>3. TaskOK(t)
  BY DEF RelayInv
<1>4. TaskOK(t)'
  BY <1>1, <1>3 DEF TaskOK, SameCall
<1> QED
  BY <1>1, <1>2, <1>4, QuietStep DEF SameCall, Active

LEMMA RelayFailsInv ==
  ASSUME RelayInv, NEW t \in Tasks, RelayFails(t)
  PROVE  RelayInv'
<1>1. TaskOK(t) /\ RelayTypeOK /\ SetInv
  BY DEF RelayInv
<1>2. /\ TaskIs(t, task'[t])
      /\ task[t].at = "get" /\ task'[t].at = "done"
      /\ task'[t].todo = task[t].todo
      /\ SameCall(task'[t], task[t])
      /\ task'[t].kube = task[t].kube /\ task'[t].one = task[t].one
      /\ SetInv' /\ calm' \in BOOLEAN
      /\ UNCHANGED <<queue, free, total, stream, stack, nextPod, panicked>>
  BY <1>1, RelayFailsFacts
<1>3. RestTypeOK'
  BY <1>1, <1>2 DEF RelayTypeOK, RestTypeOK
<1>4. TaskOK(t)'
  BY <1>1, <1>2 DEF TaskOK, SameCall
<1> QED
  BY <1>2, <1>3, <1>4, QuietStep DEF SameCall, Active

LEMMA SkipSchedulingInv ==
  ASSUME RelayInv, NEW t \in Tasks, SkipScheduling(t)
  PROVE  RelayInv'
<1>1. /\ task[t].at = "pop" /\ task' = [task EXCEPT ![t].at = "wait"]
      /\ UNCHANGED <<setVars, queue, free, total, stream, stack, nextPod, panicked, calm>>
  BY DEF SkipScheduling
<1>2. /\ TaskIs(t, task'[t]) /\ task'[t].at = "wait"
      /\ task'[t].todo = task[t].todo
      /\ SameCall(task'[t], task[t])
      /\ task'[t].kube = task[t].kube /\ task'[t].one = task[t].one
  BY <1>1, StageFacts DEF RelayInv
<1>3. SetInv'
  BY <1>1, SetKept DEF RelayInv
<1>4. RestTypeOK'
  BY <1>1 DEF RelayInv, RelayTypeOK, RestTypeOK
<1>5. TaskOK(t)
  BY DEF RelayInv
<1>6. TaskOK(t)'
  BY <1>1, <1>2, <1>5 DEF TaskOK, SameCall
<1> QED
  BY <1>1, <1>2, <1>3, <1>4, <1>6, QuietStep DEF SameCall, Active

LEMMA PopSchedulerInv ==
  ASSUME RelayInv, NEW t \in Tasks, PopScheduler(t)
  PROVE  RelayInv'
<1>1. TaskOK(t) /\ RelayTypeOK
  BY DEF RelayInv
<1>2. /\ TaskIs(t, task'[t])
      /\ task[t].at = "pop" /\ task'[t].at = "schedule" /\ task'[t].one = "next"
      /\ task'[t].todo = task[t].todo
      /\ SameCall(task'[t], task[t])
      /\ UNCHANGED <<setVars, queue, free, total, stream, calm>>
  BY <1>1, PopSchedulerFacts
<1>3. PICK p \in Procs, s \in Schedulers :
        /\ p = task[t].proc /\ s = task'[t].kube
        /\ stack' = [stack EXCEPT ![p] = stack[p] \ {s}]
        /\ panicked' = (panicked \/ nextPod[p][s] # None)
        /\ nextPod' = [nextPod EXCEPT ![p][s] = task[t].pod]
  <2>1. task[t].proc \in Procs
    BY <1>1, <1>2 DEF TaskOK
  <2>2. task'[t].kube \in Schedulers
    BY <1>1, <2>1, PopSchedulerFacts DEF RelayTypeOK, RestTypeOK
  <2> QED
    BY <1>1, <2>1, <2>2, PopSchedulerFacts, Zenon
<1>4. PICK x \in Pods : x = task[t].pod
  BY <1>1, <1>2 DEF TaskOK
<1>5. stack' \in [Procs -> SUBSET Schedulers]
  BY <1>1, <1>3 DEF RelayTypeOK, RestTypeOK
<1>6. nextPod' \in [Procs -> [Schedulers -> Pods \union {None}]]
  BY <1>1, <1>3, <1>4 DEF RelayTypeOK, RestTypeOK
<1>7. panicked' \in BOOLEAN
  BY <1>3
<1>8. RestTypeOK'
  BY <1>1, <1>2, <1>5, <1>6, <1>7 DEF RelayTypeOK, RestTypeOK
<1>9. SetInv'
  BY <1>2, SetKept DEF RelayInv
<1>10. TaskOK(t)'
  BY <1>1, <1>2, <1>3 DEF TaskOK, SameCall
<1> QED
  BY <1>2, <1>8, <1>9, <1>10, QuietStep DEF SameCall, Active

LEMMA NextPodInv ==
  ASSUME RelayInv, NEW t \in Tasks, NextPod(t)
  PROVE  RelayInv'
<1>1. TaskOK(t) /\ RelayTypeOK
  BY DEF RelayInv
<1>2. /\ task[t].one = "next" /\ task' = [task EXCEPT ![t].one = "cycle"]
      /\ panicked' = (panicked \/ nextPod[task[t].proc][task[t].kube] = None)
      /\ nextPod' = [nextPod EXCEPT ![task[t].proc][task[t].kube] = None]
      /\ UNCHANGED <<setVars, queue, free, total, stream, stack, calm>>
  BY DEF NextPod
<1>3. /\ TaskIs(t, task'[t]) /\ task'[t].one = "cycle"
      /\ task'[t].todo = task[t].todo
      /\ SameCall(task'[t], task[t])
      /\ task'[t].kube = task[t].kube /\ task'[t].at = task[t].at
  BY <1>1, <1>2, OneFacts
<1>4. task[t].at = "schedule"
  BY <1>1, <1>2 DEF TaskOK
<1>5. PICK p \in Procs, s \in Schedulers : p = task[t].proc /\ s = task[t].kube
  BY <1>1, <1>4 DEF TaskOK
<1>6. nextPod' \in [Procs -> [Schedulers -> Pods \union {None}]]
  BY <1>1, <1>2, <1>5 DEF RelayTypeOK, RestTypeOK
<1>7. panicked' \in BOOLEAN
  BY <1>2
<1>8. RestTypeOK'
  BY <1>1, <1>2, <1>6, <1>7 DEF RelayTypeOK, RestTypeOK
<1>9. SetInv'
  BY <1>2, SetKept DEF RelayInv
<1>10. TaskOK(t)'
  BY <1>1, <1>3, <1>4 DEF TaskOK, SameCall
<1> QED
  BY <1>3, <1>4, <1>2, <1>8, <1>9, <1>10, QuietStep DEF SameCall, Active

LEMMA SchedulerDoneInv ==
  ASSUME RelayInv, NEW t \in Tasks, SchedulerDone(t)
  PROVE  RelayInv'
<1>1. TaskOK(t) /\ RelayTypeOK
  BY DEF RelayInv
<1>2. /\ task[t].one = "cycle" /\ task' = [task EXCEPT ![t].one = "done"]
      /\ UNCHANGED <<setVars, queue, free, total, stream, stack, nextPod, panicked, calm>>
  BY DEF SchedulerDone
<1>3. /\ TaskIs(t, task'[t]) /\ task'[t].one = "done"
      /\ task'[t].todo = task[t].todo
      /\ SameCall(task'[t], task[t])
      /\ task'[t].kube = task[t].kube /\ task'[t].at = task[t].at
  BY <1>1, <1>2, OneFacts
<1>4. task[t].at = "schedule"
  BY <1>1, <1>2 DEF TaskOK
<1>5. RestTypeOK'
  BY <1>1, <1>2 DEF RelayTypeOK, RestTypeOK
<1>6. SetInv'
  BY <1>2, SetKept DEF RelayInv
<1>7. TaskOK(t)'
  BY <1>1, <1>3, <1>4 DEF TaskOK, SameCall
<1> QED
  BY <1>2, <1>3, <1>4, <1>5, <1>6, <1>7, QuietStep DEF SameCall, Active

LEMMA PushSchedulerInv ==
  ASSUME RelayInv, NEW t \in Tasks, PushScheduler(t)
  PROVE  RelayInv'
<1>1. TaskOK(t) /\ RelayTypeOK
  BY DEF RelayInv
<1>2. /\ task[t].at = "schedule" /\ task[t].one = "done" /\ task' = [task EXCEPT ![t].at = "wait"]
      /\ stack' = [stack EXCEPT ![task[t].proc] = stack[task[t].proc] \union {task[t].kube}]
      /\ UNCHANGED <<setVars, queue, free, total, stream, nextPod, panicked, calm>>
  BY DEF PushScheduler
<1>3. /\ TaskIs(t, task'[t]) /\ task'[t].at = "wait"
      /\ task'[t].todo = task[t].todo
      /\ SameCall(task'[t], task[t])
      /\ task'[t].kube = task[t].kube /\ task'[t].one = task[t].one
  BY <1>1, <1>2, StageFacts
<1>4. stack' \in [Procs -> SUBSET Schedulers]
  BY <1>1, <1>2 DEF TaskOK, RelayTypeOK, RestTypeOK
<1>5. RestTypeOK'
  BY <1>1, <1>2, <1>4 DEF RelayTypeOK, RestTypeOK
<1>6. SetInv'
  BY <1>2, SetKept DEF RelayInv
<1>7. TaskOK(t)'
  BY <1>1, <1>2, <1>3 DEF TaskOK, SameCall
<1> QED
  BY <1>2, <1>3, <1>5, <1>6, <1>7, QuietStep DEF SameCall, Active

LEMMA ReceivePodInv ==
  ASSUME RelayInv, NEW k \in DOMAIN stream, NEW t \in Tasks, ReceivePod(k, t)
  PROVE  RelayInv'
<1> USE DEF RelayInv
<1>0. PICK p \in Procs : p = k[2]
  BY DEF RelayTypeOK, StreamKeys
<1>1. /\ TaskIs(t, task'[t])
      /\ task[t].at = "unused" /\ stream[k].wire # <<>>
      /\ \A u \in Tasks : ~(Active(u) /\ task[u].from = k)
      /\ task'[t].at = "get" /\ task'[t].proc = p /\ task'[t].pod \in Pods
      /\ task'[t].from = k
      /\ task'[t].todo = {} /\ task'[t].latch = 0 /\ task'[t].one = "none"
      /\ free' = [free EXCEPT ![p] = free[p] \ {Got(p)}]
      /\ total' = [total EXCEPT ![p] = IF free[p] = {} THEN total[p] + 1 ELSE total[p]]
      /\ UNCHANGED <<setVars, queue, stream, stack, nextPod, panicked, calm>>
  BY <1>0, ReceivePodFacts
<1>2. /\ task' \in [Tasks -> Task]
      /\ \A u \in Tasks : u # t => task'[u] = task[u]
  BY <1>1 DEF TaskIs
<1>3. RestTypeOK'
  <2>1. free' \in [Procs -> SUBSET Nat]
    BY <1>1 DEF RelayTypeOK, RestTypeOK
  <2>2. total' \in [Procs -> Nat]
    BY <1>1 DEF RelayTypeOK, RestTypeOK
  <2> QED
    BY <1>1, <2>1, <2>2 DEF RelayTypeOK, RestTypeOK
<1>4. RelayTypeOK' /\ SetInv'
  BY <1>1, <1>2, <1>3, SetKept DEF RelayTypeOK
<1>5. \A v \in Tasks : TaskOK(v)'
  <2>1. \A v \in Tasks : v # t => (TaskOK(v)' <=> TaskOK(v))
    BY <1>2 DEF TaskOK
  <2>2. TaskOK(t)'
    BY <1>1 DEF TaskOK
  <2> QED
    BY <2>1, <2>2
<1>6. \A v \in Tasks : task[v].at \notin {"unused", "get"} => task'[v].at \notin {"unused", "get"}
  BY <1>1, <1>2
<1>7. ASSUME NEW j \in DOMAIN stream' PROVE StreamOK(j)'
  <2>1. j \in DOMAIN stream /\ StreamOK(j) /\ stream[j] \in Stream
    BY <1>1 DEF RelayTypeOK
  <2>2. \A i \in 1 .. Len(stream[j].wire) : stream[j].wire[i] \in Tasks
    BY <2>1 DEF Stream
  <2> QED
    BY <1>1, <1>6, <2>1, <2>2 DEF StreamOK
<1>8. stream[k].state = "up"
  <2>1. StreamOK(k) /\ stream[k] \in Stream
    BY DEF RelayTypeOK
  <2> QED
    BY <1>1, <2>1 DEF StreamOK, Stream
<1>9. \A v \in Tasks : v # t /\ Serving(v)' => Serving(v) /\ task'[v].from = task[v].from
  BY <1>2 DEF Serving, Active
<1>10. ServesOK'
  <2> SUFFICES ASSUME NEW u \in Tasks, Serving(u)'
               PROVE  /\ task'[u].from \in DOMAIN stream
                      /\ stream[task'[u].from].state = "up"
                      /\ stream[task'[u].from].wire # <<>>
                      /\ \A v \in Tasks : Serving(v)' /\ task'[u].from = task'[v].from => u = v
    BY <1>1 DEF ServesOK
  <2>1. \A v \in Tasks : Serving(v) => task[v].from # k
    BY <1>1 DEF Serving
  <2>2. CASE u = t
    BY <1>1, <1>8, <1>9, <2>1, <2>2
  <2>3. CASE u # t
    BY <1>1, <1>9, <2>1, <2>3 DEF ServesOK
  <2> QED
    BY <2>2, <2>3
<1> QED
  BY <1>4, <1>5, <1>7, <1>10

LEMMA AppendFacts ==
  ASSUME NEW S, NEW w \in Seq(S), NEW x \in S, NEW v, v = Append(w, x)
  PROVE  /\ Len(v) = Len(w) + 1 /\ Len(w) \in Nat /\ v[Len(w) + 1] = x
         /\ \A i \in 1 .. Len(w) : v[i] = w[i] /\ w[i] \in S
         /\ v # <<>>
OBVIOUS

(* Whoever is served by a stream, serves it still if the stream is up and  *)
(* not empty.                                                              *)
LEMMA ServesKept ==
  ASSUME ServesOK,
         \A v \in Tasks : Serving(v)' => Serving(v) /\ task'[v].from = task[v].from,
         \A v \in Tasks : Serving(v)' =>
           /\ task[v].from \in DOMAIN stream'
           /\ stream'[task[v].from].state = "up"
           /\ stream'[task[v].from].wire # <<>>
  PROVE  ServesOK'
<1> SUFFICES ASSUME NEW u \in Tasks, Serving(u)'
             PROVE  /\ task'[u].from \in DOMAIN stream'
                    /\ stream'[task'[u].from].state = "up"
                    /\ stream'[task'[u].from].wire # <<>>
                    /\ \A v \in Tasks : Serving(v)' /\ task'[u].from = task'[v].from => u = v
  BY DEF ServesOK
<1> QED
  BY DEF ServesOK

LEMMA SendPodInv ==
  ASSUME RelayInv, NEW t \in Tasks, NEW q \in Procs, SendPod(t, q)
  PROVE  RelayInv'
<1> USE DEF RelayInv
<1>1. PICK k \in StreamKeys :
        /\ k = StreamTo(t, q)
        /\ task[t].at = "send" /\ q \in task[t].todo
        /\ DOMAIN stream' = DOMAIN stream \union {k}
        /\ stream'[k] \in Stream
        /\ Others(k)
        /\ \/ k \in DOMAIN stream /\ stream[k].state = "broken" /\ stream'[k] = stream[k]
           \/ Takes(k, t)
        /\ Sent(t, q, 0)
        /\ UNCHANGED <<setVars, queue, free, total, stack, nextPod, panicked, calm>>
  BY SendPodFacts, Zenon
<1>2. /\ TaskIs(t, task'[t])
      /\ task'[t].at = IF task[t].todo = {q} THEN "pop" ELSE "send"
      /\ task'[t].todo = task[t].todo \ {q}
      /\ SameCall(task'[t], task[t])
      /\ task'[t].kube = task[t].kube /\ task'[t].one = task[t].one
  BY <1>1, SentFacts
<1>3. /\ task' \in [Tasks -> Task]
      /\ \A u \in Tasks : u # t => task'[u] = task[u]
  BY <1>2 DEF TaskIs
<1>4. RelayTypeOK' /\ SetInv'
  <2>1. RestTypeOK'
    BY <1>1 DEF RelayTypeOK, RestTypeOK
  <2>2. IsFiniteSet(DOMAIN stream')
    <3>1. IsFiniteSet(DOMAIN stream)
      BY DEF RelayTypeOK
    <3>2. IsFiniteSet(DOMAIN stream \union {k})
      BY <3>1, FS_AddElement
    <3> QED
      BY <1>1, <3>2
  <2>3. \A j \in DOMAIN stream' : j \in StreamKeys /\ stream'[j] \in Stream
    BY <1>1 DEF RelayTypeOK, Others
  <2> QED
    BY <1>1, <1>3, <2>1, <2>2, <2>3, SetKept DEF RelayTypeOK
<1>5. \A v \in Tasks : TaskOK(v)'
  <2>1. \A v \in Tasks : v # t => (TaskOK(v)' <=> TaskOK(v))
    BY <1>3 DEF TaskOK
  <2>2. TaskOK(t)
    OBVIOUS
  <2>3. TaskOK(t)'
    BY <1>1, <1>2, <2>2 DEF TaskOK, SameCall
  <2> QED
    BY <2>1, <2>3
<1>6. \A v \in Tasks : task[v].at \notin {"unused", "get"} => task'[v].at \notin {"unused", "get"}
  BY <1>1, <1>2, <1>3
<1>7. ASSUME NEW j \in DOMAIN stream, StreamOK(j), stream'[j] = stream[j] PROVE StreamOK(j)'
  <2>1. stream[j] \in Stream
    BY DEF RelayTypeOK
  <2>2. \A i \in 1 .. Len(stream[j].wire) : stream[j].wire[i] \in Tasks
    BY <2>1 DEF Stream
  <2> QED
    BY <1>6, <1>7, <2>2 DEF StreamOK
<1>8. ASSUME Takes(k, t) PROVE StreamOK(k)'
  <2>1. PICK w \in Seq(Tasks) :
          /\ stream'[k].state = "up" /\ stream'[k].wire = Append(w, t)
          /\ k \in DOMAIN stream => stream[k].wire = w
          /\ k \notin DOMAIN stream => w = <<>>
    BY <1>8 DEF Takes
  <2>2. \A i \in 1 .. Len(w) : task'[w[i]].at \notin {"unused", "get"}
    <3>1. CASE k \in DOMAIN stream
      <4>1. \A i \in 1 .. Len(w) : task[w[i]].at \notin {"unused", "get"} /\ w[i] \in Tasks
        BY <2>1, <3>1 DEF StreamOK
      <4> QED
        BY <1>6, <4>1
    <3>2. CASE k \notin DOMAIN stream
      BY <2>1, <3>2
    <3> QED
      BY <3>1, <3>2
  <2>3. PICK v : v = Append(w, t)
    OBVIOUS
  <2>4. /\ Len(v) = Len(w) + 1 /\ Len(w) \in Nat /\ v[Len(w) + 1] = t
        /\ \A i \in 1 .. Len(w) : v[i] = w[i]
    BY <2>3, AppendFacts
  <2>5. \A i \in 1 .. Len(v) : task'[v[i]].at \notin {"unused", "get"}
    BY <1>1, <1>6, <2>2, <2>4
  <2>6. stream'[k].wire = v /\ stream'[k].state # "broken"
    BY <2>1, <2>3
  <2> QED
    BY <2>5, <2>6 DEF StreamOK
<1>9. \A j \in DOMAIN stream' : StreamOK(j)'
  BY <1>1, <1>7, <1>8 DEF Others
<1>10. \A v \in Tasks : Serving(v)' => Serving(v) /\ task'[v].from = task[v].from
  BY <1>1, <1>2, <1>3 DEF Serving, Active, SameCall
<1>11. ServesOK'
  <2>1. ASSUME NEW v \in Tasks, Serving(v)
        PROVE  /\ task[v].from \in DOMAIN stream'
               /\ stream'[task[v].from].state = "up"
               /\ stream'[task[v].from].wire # <<>>
    <3>1. PICK j \in DOMAIN stream :
            j = task[v].from /\ stream[j].state = "up" /\ stream[j].wire # <<>>
      BY <2>1 DEF ServesOK
    <3>2. CASE j # k
      BY <1>1, <3>1, <3>2 DEF Others
    <3>3. CASE j = k
      <4>1. PICK w \in Seq(Tasks) : stream'[k].state = "up" /\ stream'[k].wire = Append(w, t)
        BY <1>1, <3>1, <3>3 DEF Takes
      <4>2. PICK w2 : w2 = Append(w, t)
        OBVIOUS
      <4>3. w2 # <<>>
        BY <4>2, AppendFacts
      <4> QED
        BY <1>1, <3>1, <3>3, <4>1, <4>2, <4>3
    <3> QED
      BY <3>2, <3>3
  <2> QED
    BY <1>10, <2>1, ServesKept
<1> QED
  BY <1>4, <1>5, <1>9, <1>11

LEMMA SendFailsInv ==
  ASSUME RelayInv, NEW t \in Tasks, NEW q \in Procs, SendFails(t, q)
  PROVE  RelayInv'
<1> USE DEF RelayInv
<1>1. PICK k :
        /\ k = StreamTo(t, q)
        /\ task[t].at = "send" /\ q \in task[t].todo
        /\ DOMAIN stream' = DOMAIN stream \ {k}
        /\ Others(k)
        /\ k \in DOMAIN stream => stream[k].state = "broken"
        /\ Sent(t, q, 1)
        /\ calm' = FALSE
        /\ UNCHANGED <<setVars, queue, free, total, stack, nextPod, panicked>>
  BY SendFailsFacts, Zenon
<1>2. /\ TaskIs(t, task'[t])
      /\ task'[t].at = IF task[t].todo = {q} THEN "pop" ELSE "send"
      /\ task'[t].todo = task[t].todo \ {q}
      /\ SameCall(task'[t], task[t])
      /\ task'[t].kube = task[t].kube /\ task'[t].one = task[t].one
  BY <1>1, SentFacts
<1>3. /\ task' \in [Tasks -> Task]
      /\ \A u \in Tasks : u # t => task'[u] = task[u]
  BY <1>2 DEF TaskIs
<1>4. RelayTypeOK' /\ SetInv'
  <2>1. RestTypeOK'
    BY <1>1 DEF RelayTypeOK, RestTypeOK
  <2>2. IsFiniteSet(DOMAIN stream')
    <3>1. IsFiniteSet(DOMAIN stream) /\ DOMAIN stream' \in SUBSET DOMAIN stream
      BY <1>1 DEF RelayTypeOK
    <3> QED
      BY <3>1, FS_Subset
  <2>3. \A j \in DOMAIN stream' : j \in StreamKeys /\ stream'[j] \in Stream
    BY <1>1 DEF RelayTypeOK, Others
  <2> QED
    BY <1>1, <1>3, <2>1, <2>2, <2>3, SetKept DEF RelayTypeOK
<1>5. \A v \in Tasks : TaskOK(v)'
  <2>1. \A v \in Tasks : v # t => (TaskOK(v)' <=> TaskOK(v))
    BY <1>3 DEF TaskOK
  <2>2. TaskOK(t)
    OBVIOUS
  <2>3. TaskOK(t)'
    BY <1>1, <1>2, <2>2 DEF TaskOK, SameCall
  <2> QED
    BY <2>1, <2>3
<1>6. \A v \in Tasks : task[v].at \notin {"unused", "get"} => task'[v].at \notin {"unused", "get"}
  BY <1>1, <1>2, <1>3
<1>7. ASSUME NEW j \in DOMAIN stream' PROVE StreamOK(j)'
  <2>1. j \in DOMAIN stream /\ stream'[j] = stream[j] /\ StreamOK(j) /\ stream[j] \in Stream
    BY <1>1 DEF RelayTypeOK, Others
  <2>2. \A i \in 1 .. Len(stream[j].wire) : stream[j].wire[i] \in Tasks
    BY <2>1 DEF Stream
  <2> QED
    BY <1>6, <2>1, <2>2 DEF StreamOK
<1>8. \A v \in Tasks : Serving(v)' => Serving(v) /\ task'[v].from = task[v].from
  BY <1>1, <1>2, <1>3 DEF Serving, Active, SameCall
<1>9. ServesOK'
  <2>1. ASSUME NEW v \in Tasks, Serving(v)
        PROVE  /\ task[v].from \in DOMAIN stream'
               /\ stream'[task[v].from].state = "up"
               /\ stream'[task[v].from].wire # <<>>
    <3>1. PICK j \in DOMAIN stream :
            j = task[v].from /\ stream[j].state = "up" /\ stream[j].wire # <<>>
      BY <2>1 DEF ServesOK
    <3>2. j # k
      BY <1>1, <3>1
    <3> QED
      BY <1>1, <3>1, <3>2 DEF Others
  <2> QED
    BY <1>8, <2>1, ServesKept
<1> QED
  BY <1>4, <1>5, <1>7, <1>9

LEMMA StreamBreaksInv ==
  ASSUME RelayInv, NEW k \in DOMAIN stream, StreamBreaks(k)
  PROVE  RelayInv'
<1> USE DEF RelayInv
<1>1. /\ task' \in [Tasks -> Task]
      /\ DOMAIN stream' = DOMAIN stream
      /\ Others(k)
      /\ stream'[k] \in Stream
      /\ stream'[k].state = "broken" /\ stream'[k].wire = <<>> /\ stream'[k].pending = {}
      /\ calm' = FALSE
      /\ UNCHANGED <<setVars, queue, free, total, stack, nextPod, panicked>>
  BY StreamBreaksFacts
<1>2. ASSUME NEW v \in Tasks
      PROVE  /\ task'[v].at = task[v].at /\ task'[v].proc = task[v].proc
             /\ task'[v].pod = task[v].pod
             /\ task'[v].todo = task[v].todo /\ task'[v].latch = task[v].latch
             /\ task'[v].kube = task[v].kube /\ task'[v].one = task[v].one
             /\ task'[v].from = IF task[v].from = k THEN Orphan ELSE task[v].from
  BY StreamBreaksFacts
<1>3. RelayTypeOK' /\ SetInv'
  <2>1. RestTypeOK'
    BY <1>1 DEF RelayTypeOK, RestTypeOK
  <2>2. \A j \in DOMAIN stream' : stream'[j] \in Stream
    BY <1>1 DEF RelayTypeOK, Others
  <2> QED
    BY <1>1, <2>1, <2>2, SetKept DEF RelayTypeOK
<1>4. ASSUME NEW v \in Tasks PROVE TaskOK(v)'
  <2>1. TaskOK(v)
    OBVIOUS
  <2> QED
    BY <1>2, <2>1 DEF TaskOK
<1>5. ASSUME NEW j \in DOMAIN stream' PROVE StreamOK(j)'
  <2>1. CASE j = k
    <3>1. Len(stream'[k].wire) = 0
      BY <1>1
    <3> QED
      BY <1>1, <2>1, <3>1 DEF StreamOK
  <2>2. CASE j # k
    <3>1. j \in DOMAIN stream /\ stream'[j] = stream[j] /\ StreamOK(j) /\ stream[j] \in Stream
      BY <1>1, <2>2 DEF RelayTypeOK, Others
    <3>2. \A i \in 1 .. Len(stream[j].wire) : stream[j].wire[i] \in Tasks
      BY <3>1 DEF Stream
    <3> QED
      BY <1>2, <3>1, <3>2 DEF StreamOK
  <2> QED
    BY <2>1, <2>2
<1>6. \A v \in Tasks : Serving(v)' => Serving(v) /\ task'[v].from = task[v].from /\ task[v].from # k
  BY <1>2 DEF Serving, Active
<1>7. ServesOK'
  <2>1. ASSUME NEW v \in Tasks, Serving(v)'
        PROVE  /\ task[v].from \in DOMAIN stream'
               /\ stream'[task[v].from].state = "up"
               /\ stream'[task[v].from].wire # <<>>
    BY <1>1, <1>6, <2>1 DEF ServesOK, Others
  <2> QED
    BY <1>6, <2>1, ServesKept
<1> QED
  BY <1>3, <1>4, <1>5, <1>7

LEMMA TailFacts ==
  ASSUME NEW S, NEW w \in Seq(S), w # <<>>, NEW v, v = Tail(w)
  PROVE  /\ v \in Seq(S) /\ Len(v) \in Nat /\ Len(v) + 1 = Len(w)
         /\ \A i \in 1 .. Len(v) : v[i] = w[i + 1] /\ i + 1 \in 1 .. Len(w)
         /\ Head(w) = w[1] /\ 1 \in 1 .. Len(w) /\ Head(w) \in S
OBVIOUS

LEMMA ReturnInv ==
  ASSUME RelayInv, NEW t \in Tasks, task[t].at = "wait", Return(t), calm' \in BOOLEAN
  PROVE  RelayInv'
<1> USE DEF RelayInv
<1>1. /\ Returns(t)
      /\ \/ ReturnsAlone(t)
         \/ \E k \in DOMAIN stream, u \in Tasks : ReturnsTo(t, k, u)
  BY ReturnFacts
<1>2. /\ task' \in [Tasks -> Task] /\ task'[t].at = "done"
      /\ UNCHANGED <<setVars, queue, total, stack, nextPod, panicked>>
  BY <1>1 DEF Returns
<1>3. ASSUME NEW v \in Tasks
      PROVE  /\ v # t => task'[v].at = task[v].at
             /\ SameCall(task'[v], task[v])
             /\ task'[v].todo = task[v].todo
             /\ task'[v].kube = task[v].kube /\ task'[v].one = task[v].one
  BY <1>1 DEF Returns
<1>4. TaskOK(t)
  OBVIOUS
<1>5. RestTypeOK' /\ SetInv'
  <2>1. task[t].proc \in Procs /\ task[t].index \in Nat
    BY <1>4 DEF TaskOK, RelayTypeOK, Task
  <2>2. free' \in [Procs -> SUBSET Nat]
    <3>1. \/ free' = free
          \/ free' = [free EXCEPT ![task[t].proc] = free[task[t].proc] \union {task[t].index}]
      BY <1>1 DEF Returns
    <3>2. PICK p \in Procs, i \in Nat : p = task[t].proc /\ i = task[t].index
      BY <2>1
    <3>3. free' = free \/ free' = [free EXCEPT ![p] = free[p] \union {i}]
      BY <3>1, <3>2, Zenon
    <3>4. free \in [Procs -> SUBSET Nat]
      BY DEF RelayTypeOK, RestTypeOK
    <3> QED
      BY <3>3, <3>4
  <2> QED
    BY <1>2, <2>2, SetKept DEF RelayTypeOK, RestTypeOK
<1>6. \A v \in Tasks : task[v].at \notin {"unused", "get"} => task'[v].at \notin {"unused", "get"}
  BY <1>2, <1>3
<1>7. ASSUME NEW j \in DOMAIN stream, stream'[j] = stream[j] PROVE StreamOK(j)'
  <2>1. StreamOK(j) /\ stream[j] \in Stream
    BY DEF RelayTypeOK
  <2>2. \A i \in 1 .. Len(stream[j].wire) : stream[j].wire[i] \in Tasks
    BY <2>1 DEF Stream
  <2> QED
    BY <1>6, <1>7, <2>1, <2>2 DEF StreamOK
<1>8. \A v \in Tasks : Serving(v)' => Serving(v) /\ task'[v].from = task[v].from /\ v # t
  BY <1>2, <1>3 DEF Serving, Active, SameCall
<1>9. ASSUME NEW v \in Tasks, task[v].at \in {"unused", "get"} => task'[v].latch = task[v].latch
      PROVE  TaskOK(v)'
  <2>1. TaskOK(v)
    OBVIOUS
  <2>2. CASE v # t
    BY <1>3, <1>9, <2>1, <2>2 DEF TaskOK, SameCall
  <2>3. CASE v = t
    BY <1>2, <1>3, <2>1, <2>3 DEF TaskOK, SameCall
  <2> QED
    BY <2>2, <2>3
<1>10. CASE ReturnsAlone(t)
  <2>1. UNCHANGED stream /\ \A v \in Tasks : task'[v].latch = task[v].latch
    BY <1>10 DEF ReturnsAlone
  <2>2. RelayTypeOK'
    BY <1>2, <1>5, <2>1 DEF RelayTypeOK
  <2>3. \A v \in Tasks : TaskOK(v)'
    BY <1>9, <2>1
  <2>4. \A j \in DOMAIN stream' : StreamOK(j)'
    BY <1>7, <2>1
  <2>5. ServesOK'
    BY <1>8, <2>1, ServesKept DEF ServesOK
  <2> QED
    BY <1>5, <2>2, <2>3, <2>4, <2>5
<1>11. ASSUME NEW k \in DOMAIN stream, NEW u \in Tasks, ReturnsTo(t, k, u) PROVE RelayInv'
  <2>1. /\ k = task[t].from /\ u = Head(stream[k].wire)
        /\ stream[k].state = "up" /\ stream[k].wire # <<>>
        /\ DOMAIN stream' = DOMAIN stream
        /\ Others(k)
        /\ stream'[k] \in Stream
        /\ stream'[k].state = "up" /\ stream'[k].wire = Tail(stream[k].wire)
        /\ \A v \in Tasks : v # u => task'[v].latch = task[v].latch
    BY <1>11 DEF ReturnsTo
  <2>2. PICK w \in Seq(Tasks) : w = stream[k].wire /\ w # <<>>
    BY <2>1 DEF RelayTypeOK, Stream
  <2>3. PICK w2 : w2 = Tail(w)
    OBVIOUS
  <2>4. /\ Len(w2) \in Nat
        /\ \A i \in 1 .. Len(w2) : w2[i] = w[i + 1] /\ i + 1 \in 1 .. Len(w)
        /\ Head(w) = w[1] /\ 1 \in 1 .. Len(w)
    BY <2>2, <2>3, TailFacts
  <2>5. \A i \in 1 .. Len(w) : task[w[i]].at \notin {"unused", "get"} /\ w[i] \in Tasks
    BY <2>2 DEF StreamOK
  <2>6. RelayTypeOK'
    <3>1. \A j \in DOMAIN stream' : stream'[j] \in Stream
      BY <2>1 DEF RelayTypeOK, Others
    <3> QED
      BY <1>2, <1>5, <2>1, <3>1 DEF RelayTypeOK
  <2>7. \A v \in Tasks : TaskOK(v)'
    <3>1. u = w[1]
      BY <2>1, <2>2, <2>4
    <3>2. task[u].at \notin {"unused", "get"}
      BY <2>4, <2>5, <3>1
    <3> QED
      BY <1>9, <2>1, <3>2
  <2>8. StreamOK(k)'
    <3>1. \A i \in 1 .. Len(w2) : task'[w2[i]].at \notin {"unused", "get"}
      BY <1>6, <2>4, <2>5
    <3>2. stream'[k].wire = w2 /\ stream'[k].state # "broken"
      BY <2>1, <2>2, <2>3
    <3> QED
      BY <3>1, <3>2 DEF StreamOK
  <2>9. \A j \in DOMAIN stream' : StreamOK(j)'
    BY <1>7, <2>1, <2>8 DEF Others
  <2>10. ServesOK'
    <3>1. Serving(t)
      <4>1. k \in StreamKeys
        BY DEF RelayTypeOK
      <4> QED
        BY <2>1, <4>1, OrphanFacts DEF Serving, Active
    <3>2. ASSUME NEW v \in Tasks, Serving(v)'
          PROVE  /\ task[v].from \in DOMAIN stream'
                 /\ stream'[task[v].from].state = "up"
                 /\ stream'[task[v].from].wire # <<>>
      <4>1. Serving(v) /\ task[v].from # k
        BY <1>8, <2>1, <3>1, <3>2 DEF ServesOK
      <4> QED
        BY <2>1, <4>1 DEF ServesOK, Others
    <3> QED
      BY <1>8, <3>2, ServesKept
  <2> QED
    BY <1>5, <2>6, <2>7, <2>9, <2>10
<1> QED
  BY <1>1, <1>10, <1>11

LEMMA RelayInitInv == Init => RelayInv
<1> SUFFICES ASSUME Init PROVE RelayInv
  OBVIOUS
<1>1. SetInv
  <2>1. leader \in [Procs -> Procs \union {NoLeader}]
    BY MembersAssumption, ViewsAssumption DEF Init
  <2> QED
    BY <2>1, SetInitInv DEF Init
<1>2. Unused \in Task
  BY DEF Unused, Task
<1>3. task \in [Tasks -> Task] /\ \A t \in Tasks : task[t] = Unused
  BY <1>2 DEF Init
<1>4. stream = <<>> /\ DOMAIN stream = {}
  BY DEF Init
<1>5. RestTypeOK
  <2>1. calm \in BOOLEAN
    <3>1. calm = \E l \in Members0 : \A p \in Procs : leader[p] = l
      BY DEF Init, Agreed
    <3> QED
      BY <3>1
  <2>2. queue \in [Procs -> Seq(Pods)]
    BY DEF Init
  <2>3. /\ free \in [Procs -> SUBSET Nat] /\ total \in [Procs -> Nat]
        /\ stack \in [Procs -> SUBSET Schedulers]
        /\ nextPod \in [Procs -> [Schedulers -> Pods \union {None}]]
        /\ panicked \in BOOLEAN
    BY DEF Init
  <2> QED
    BY <2>1, <2>2, <2>3 DEF RestTypeOK
<1>6. RelayTypeOK
  BY <1>3, <1>4, <1>5, FS_EmptySet DEF RelayTypeOK
<1>7. \A t \in Tasks : TaskOK(t) /\ ~Serving(t)
  BY <1>3 DEF TaskOK, Serving, Active, Unused
<1> QED
  BY <1>1, <1>4, <1>6, <1>7 DEF RelayInv, ServesOK

LEMMA RelayStep == RelayInv /\ [Next]_vars => RelayInv'
<1> SUFFICES ASSUME RelayInv, [Next]_vars PROVE RelayInv'
  OBVIOUS
<1>1. ASSUME UNCHANGED <<setVars, task, free, total, stream, stack, nextPod, panicked, calm>>,
             queue' \in [Procs -> Seq(Pods)]
      PROVE  RelayInv'
  <2>1. RestTypeOK'
    BY <1>1 DEF RelayInv, RelayTypeOK, RestTypeOK
  <2>2. RelayTypeOK' /\ SetInv'
    BY <1>1, <2>1, SetKept DEF RelayInv, RelayTypeOK
  <2>3. \A t \in Tasks : TaskOK(t)'
    BY <1>1 DEF RelayInv, TaskOK
  <2>4. \A k \in DOMAIN stream' : StreamOK(k)'
    BY <1>1 DEF RelayInv, StreamOK
  <2>5. ServesOK'
    BY <1>1 DEF RelayInv, ServesOK, Serving, Active
  <2> QED
    BY <2>2, <2>3, <2>4, <2>5 DEF RelayInv
<1>2. CASE UNCHANGED vars
  BY <1>1, <1>2 DEF vars, taskVars, RelayInv, RelayTypeOK, RestTypeOK
<1>3. ASSUME NEW p \in Procs, NEW x \in Pods, Enqueue(p, x) PROVE RelayInv'
  <2>1. /\ queue' = [queue EXCEPT ![p] = Append(queue[p], x)]
        /\ UNCHANGED <<setVars, task, free, total, stream, stack, nextPod, panicked, calm>>
    BY <1>3 DEF Enqueue
  <2>2. queue' \in [Procs -> Seq(Pods)]
    BY <2>1 DEF RelayInv, RelayTypeOK, RestTypeOK
  <2> QED
    BY <1>1, <2>1, <2>2
<1>4. ASSUME NEW t \in Tasks, WaitDone(t) PROVE RelayInv'
  BY <1>4, ReturnInv DEF WaitDone, RelayInv, RelayTypeOK, RestTypeOK
<1>5. ASSUME NEW t \in Tasks, WaitTimeout(t) PROVE RelayInv'
  BY <1>5, ReturnInv DEF WaitTimeout
<1> QED
  BY <1>2, <1>3, <1>4, <1>5, RunOneInv, ReceivePodInv, RelayPodInv, SendPodInv, SendFailsInv,
     SkipSchedulingInv, PopSchedulerInv, PushSchedulerInv, NextPodInv, SchedulerDoneInv,
     StreamBreaksInv, RelayFailsInv DEF Next, TaskStep, SendStep, ScheduleStep

(***************************************************************************)
(* Types, the stages of ProcessOne, and: a call that came over a stream    *)
(* that is up serves it alone and finds its message first on the wire,     *)
(* which is the one its answer is counted for.                             *)
(***************************************************************************)
THEOREM CallsServeStreams == Spec => []RelayInv
BY RelayInitInv, RelayStep, PTL DEF Spec

-------------------------------------------------------------------------------
(***************************************************************************)
(* The second layer: who has which kube-scheduler.                         *)
(***************************************************************************)
(* t has the kube-scheduler it had, which has taken its pod or not as before. *)
HoldsAsBefore(t) ==
  Holding(t)' =>
    /\ Holding(t) /\ task'[t].proc = task[t].proc /\ task'[t].kube = task[t].kube
    /\ task'[t].one = task[t].one

LEMMA HandKept ==
  ASSUME HandInv, UNCHANGED <<stack, nextPod, panicked>>, \A t \in Tasks : HoldsAsBefore(t)
  PROVE  HandInv'
<1>1. ~panicked' /\ \A p \in Procs : \A s \in stack'[p] : nextPod'[p][s] = None
  BY DEF HandInv
<1>2. \A t \in Tasks : Holding(t)' => task'[t].kube \notin stack'[task'[t].proc]
  BY DEF HandInv, HoldsAsBefore
<1>3. ASSUME NEW t \in Tasks, NEW u \in Tasks, Holding(t)', Holding(u)',
             task'[t].proc = task'[u].proc, task'[t].kube = task'[u].kube
      PROVE  t = u
  BY <1>3 DEF HandInv, HoldsAsBefore
<1>4. \A t \in Tasks : Holding(t)' =>
        (nextPod'[task'[t].proc][task'[t].kube] # None <=> task'[t].one = "next")
  BY DEF HandInv, HoldsAsBefore
<1> QED
  BY <1>1, <1>2, <1>3, <1>4 DEF HandInv

(* A step of t alone that gives it no kube-scheduler. *)
LEMMA HandKeptByOne ==
  ASSUME HandInv, UNCHANGED <<stack, nextPod, panicked>>, NEW t \in Tasks, TaskIs(t, task'[t]),
         task'[t].at # "schedule"
  PROVE  HandInv'
<1>1. \A u \in Tasks : HoldsAsBefore(u)
  BY DEF TaskIs, HoldsAsBefore, Holding
<1> QED
  BY <1>1, HandKept

LEMMA PopSchedulerHands ==
  ASSUME RelayInv, HandInv, NEW t \in Tasks, PopScheduler(t)
  PROVE  HandInv'
<1>1. TaskOK(t) /\ RelayTypeOK
  BY DEF RelayInv
<1>2. /\ TaskIs(t, task'[t])
      /\ task[t].at = "pop" /\ task'[t].at = "schedule" /\ task'[t].one = "next"
      /\ SameCall(task'[t], task[t])
  BY <1>1, PopSchedulerFacts
<1>3. PICK p \in Procs, s \in Schedulers :
        /\ p = task[t].proc /\ s = task'[t].kube /\ s \in stack[p]
        /\ stack' = [stack EXCEPT ![p] = stack[p] \ {s}]
        /\ panicked' = (panicked \/ nextPod[p][s] # None)
        /\ nextPod' = [nextPod EXCEPT ![p][s] = task[t].pod]
  <2>1. task[t].proc \in Procs
    BY <1>1, <1>2 DEF TaskOK
  <2>2. task'[t].kube \in Schedulers
    BY <1>1, <2>1, PopSchedulerFacts DEF RelayTypeOK, RestTypeOK
  <2> QED
    BY <1>1, <2>1, <2>2, PopSchedulerFacts, Zenon
<1>4. PICK x \in Pods : x = task[t].pod
  BY <1>1, <1>2 DEF TaskOK
<1>5. x # None
  BY PodsAssumption
<1>6. /\ \A r \in Procs : stack'[r] = IF r = p THEN stack[p] \ {s} ELSE stack[r]
      /\ \A r \in Procs, z \in Schedulers :
           nextPod'[r][z] = IF r = p /\ z = s THEN x ELSE nextPod[r][z]
      /\ \A r \in Procs : stack[r] \subseteq Schedulers
  BY <1>1, <1>3, <1>4 DEF RelayTypeOK, RestTypeOK
<1>7. \A u \in Tasks : u # t => task'[u] = task[u]
  BY <1>2 DEF TaskIs
<1>8. task'[t].proc = p /\ task'[t].kube = s
  BY <1>2, <1>3 DEF SameCall
<1>9. ASSUME NEW u \in Tasks, Holding(u)
      PROVE  /\ task[u].proc \in Procs /\ task[u].kube \in Schedulers
             /\ task[u].kube \notin stack[task[u].proc]
             /\ ~(task[u].proc = p /\ task[u].kube = s)
  <2>1. TaskOK(u)
    BY DEF RelayInv
  <2>2. task[u].kube \notin stack[task[u].proc]
    BY <1>9 DEF HandInv
  <2> QED
    BY <1>3, <1>9, <2>1, <2>2 DEF TaskOK, Holding
<1>10. ~panicked'
  BY <1>3 DEF HandInv
<1>11. \A r \in Procs : \A z \in stack'[r] : nextPod'[r][z] = None
  <2> TAKE r \in Procs
  <2> TAKE z \in stack'[r]
  <2>1. z \in stack[r] /\ z \in Schedulers /\ ~(r = p /\ z = s)
    BY <1>6
  <2> QED
    BY <1>6, <2>1 DEF HandInv
<1>12. \A u \in Tasks : Holding(u)' => task'[u].kube \notin stack'[task'[u].proc]
  BY <1>6, <1>7, <1>8, <1>9 DEF Holding
<1>13. ASSUME NEW u \in Tasks, NEW v \in Tasks, Holding(u)', Holding(v)',
              task'[u].proc = task'[v].proc, task'[u].kube = task'[v].kube
       PROVE  u = v
  BY <1>7, <1>8, <1>9, <1>13 DEF HandInv, Holding
<1>14. ASSUME NEW u \in Tasks, Holding(u)'
       PROVE  nextPod'[task'[u].proc][task'[u].kube] # None <=> task'[u].one = "next"
  <2>1. CASE u = t
    BY <1>2, <1>5, <1>6, <1>8, <2>1
  <2>2. CASE u # t
    BY <1>6, <1>7, <1>9, <1>14, <2>2 DEF HandInv, Holding
  <2> QED
    BY <2>1, <2>2
<1> QED
  BY <1>10, <1>11, <1>12, <1>13, <1>14 DEF HandInv

LEMMA NextPodHands ==
  ASSUME RelayInv, HandInv, NEW t \in Tasks, NextPod(t)
  PROVE  HandInv'
<1>1. TaskOK(t) /\ RelayTypeOK
  BY DEF RelayInv
<1>2. /\ task[t].one = "next" /\ task' = [task EXCEPT ![t].one = "cycle"]
      /\ panicked' = (panicked \/ nextPod[task[t].proc][task[t].kube] = None)
      /\ nextPod' = [nextPod EXCEPT ![task[t].proc][task[t].kube] = None]
      /\ stack' = stack
  BY DEF NextPod
<1>3. /\ TaskIs(t, task'[t]) /\ task'[t].one = "cycle"
      /\ SameCall(task'[t], task[t])
      /\ task'[t].kube = task[t].kube /\ task'[t].at = task[t].at
  BY <1>1, <1>2, OneFacts
<1>4. Holding(t)
  BY <1>1, <1>2 DEF TaskOK, Holding
<1>5. PICK p \in Procs, s \in Schedulers : p = task[t].proc /\ s = task[t].kube
  BY <1>1, <1>4 DEF TaskOK, Holding
<1>6. /\ \A r \in Procs, z \in Schedulers :
           nextPod'[r][z] = IF r = p /\ z = s THEN None ELSE nextPod[r][z]
      /\ \A r \in Procs : stack[r] \subseteq Schedulers
  BY <1>1, <1>2, <1>5 DEF RelayTypeOK, RestTypeOK
<1>7. \A u \in Tasks : u # t => task'[u] = task[u]
  BY <1>3 DEF TaskIs
<1>8. task'[t].proc = p /\ task'[t].kube = s
  BY <1>3, <1>5 DEF SameCall
<1>9. nextPod[p][s] # None
  BY <1>2, <1>4, <1>5 DEF HandInv
<1>10. ~panicked'
  BY <1>2, <1>5, <1>9 DEF HandInv
<1>11. \A r \in Procs : \A z \in stack'[r] : nextPod'[r][z] = None
  BY <1>2, <1>6 DEF HandInv
<1>12. \A u \in Tasks : (Holding(u)' <=> Holding(u)) /\ task'[u].proc = task[u].proc
                          /\ task'[u].kube = task[u].kube
  BY <1>3, <1>7 DEF Holding, SameCall
<1>13. \A u \in Tasks : Holding(u)' => task'[u].kube \notin stack'[task'[u].proc]
  BY <1>2, <1>12 DEF HandInv
<1>14. ASSUME NEW u \in Tasks, NEW v \in Tasks, Holding(u)', Holding(v)',
              task'[u].proc = task'[v].proc, task'[u].kube = task'[v].kube
       PROVE  u = v
  BY <1>12, <1>14 DEF HandInv
<1>15. ASSUME NEW u \in Tasks, Holding(u)'
       PROVE  nextPod'[task'[u].proc][task'[u].kube] # None <=> task'[u].one = "next"
  <2>1. CASE u = t
    BY <1>3, <1>6, <1>8, <2>1
  <2>2. CASE u # t
    <3>1. Holding(u) /\ TaskOK(u)
      BY <1>12, <1>15 DEF RelayInv
    <3>2. ~(task[u].proc = p /\ task[u].kube = s)
      BY <1>4, <1>5, <2>2, <3>1 DEF HandInv
    <3>3. task[u].proc \in Procs /\ task[u].kube \in Schedulers
      BY <3>1 DEF TaskOK, Holding
    <3> QED
      BY <1>6, <1>7, <2>2, <3>1, <3>2, <3>3 DEF HandInv
  <2> QED
    BY <2>1, <2>2
<1> QED
  BY <1>10, <1>11, <1>13, <1>14, <1>15 DEF HandInv

LEMMA PushSchedulerHands ==
  ASSUME RelayInv, HandInv, NEW t \in Tasks, PushScheduler(t)
  PROVE  HandInv'
<1>1. TaskOK(t) /\ RelayTypeOK
  BY DEF RelayInv
<1>2. /\ task[t].at = "schedule" /\ task[t].one = "done" /\ task' = [task EXCEPT ![t].at = "wait"]
      /\ stack' = [stack EXCEPT ![task[t].proc] = stack[task[t].proc] \union {task[t].kube}]
      /\ UNCHANGED <<nextPod, panicked>>
  BY DEF PushScheduler
<1>3. TaskIs(t, task'[t]) /\ task'[t].at = "wait"
  BY <1>1, <1>2, StageFacts
<1>4. Holding(t)
  BY <1>2 DEF Holding
<1>5. PICK p \in Procs, s \in Schedulers : p = task[t].proc /\ s = task[t].kube
  BY <1>1, <1>2 DEF TaskOK
<1>6. \A r \in Procs : stack'[r] = IF r = p THEN stack[p] \union {s} ELSE stack[r]
  BY <1>1, <1>2, <1>5 DEF RelayTypeOK, RestTypeOK
<1>7. \A u \in Tasks : Holding(u)' => u # t /\ task'[u] = task[u] /\ Holding(u)
  BY <1>3 DEF TaskIs, Holding
<1>8. nextPod[p][s] = None
  BY <1>2, <1>4, <1>5 DEF HandInv
<1>9. ~panicked' /\ \A r \in Procs : \A z \in stack'[r] : nextPod'[r][z] = None
  BY <1>2, <1>6, <1>8 DEF HandInv
<1>10. ASSUME NEW u \in Tasks, Holding(u)' PROVE task'[u].kube \notin stack'[task'[u].proc]
  <2>1. u # t /\ task'[u] = task[u] /\ Holding(u) /\ TaskOK(u)
    BY <1>7, <1>10 DEF RelayInv
  <2>2. ~(task[u].proc = p /\ task[u].kube = s)
    BY <1>4, <1>5, <2>1 DEF HandInv
  <2>3. task[u].proc \in Procs
    BY <2>1 DEF TaskOK, Holding
  <2> QED
    BY <1>6, <2>1, <2>2, <2>3 DEF HandInv
<1>11. ASSUME NEW u \in Tasks, NEW v \in Tasks, Holding(u)', Holding(v)',
              task'[u].proc = task'[v].proc, task'[u].kube = task'[v].kube
       PROVE  u = v
  BY <1>7, <1>11 DEF HandInv
<1>12. \A u \in Tasks : Holding(u)' =>
         (nextPod'[task'[u].proc][task'[u].kube] # None <=> task'[u].one = "next")
  BY <1>2, <1>7 DEF HandInv
<1> QED
  BY <1>9, <1>10, <1>11, <1>12 DEF HandInv

LEMMA HandStep == RelayInv /\ HandInv /\ [Next]_vars => HandInv'
<1> SUFFICES ASSUME RelayInv, HandInv, [Next]_vars PROVE HandInv'
  OBVIOUS
<1> USE DEF RelayInv
<1>1. ASSUME UNCHANGED <<task, stack, nextPod, panicked>> PROVE HandInv'
  <2>1. \A t \in Tasks : HoldsAsBefore(t)
    BY <1>1 DEF HoldsAsBefore, Holding
  <2> QED
    BY <1>1, <2>1, HandKept
<1>2. CASE UNCHANGED vars
  BY <1>1, <1>2 DEF vars, taskVars
<1>3. ASSUME NEW p \in Procs, NEW x \in Pods, Enqueue(p, x) PROVE HandInv'
  BY <1>1, <1>3 DEF Enqueue
<1>4. ASSUME NEW p \in Procs, NEW i \in 0 .. Runners - 1, NEW t \in Tasks, RunOne(p, i, t)
      PROVE  HandInv'
  <2>1. /\ TaskIs(t, task'[t]) /\ task'[t].at = "get"
        /\ UNCHANGED <<stack, nextPod, panicked>>
    BY <1>4, RunOneFacts
  <2> QED
    BY <2>1, HandKeptByOne
<1>5. ASSUME NEW k \in DOMAIN stream, NEW t \in Tasks, ReceivePod(k, t) PROVE HandInv'
  <2>1. /\ TaskIs(t, task'[t]) /\ task'[t].at = "get"
        /\ UNCHANGED <<stack, nextPod, panicked>>
    BY <1>5, ReceivePodFacts
  <2> QED
    BY <2>1, HandKeptByOne
<1>6. ASSUME NEW t \in Tasks, RelayPod(t) PROVE HandInv'
  <2>1. /\ TaskIs(t, task'[t]) /\ task'[t].at \in {"pop", "send"}
        /\ UNCHANGED <<stack, nextPod, panicked>>
    BY <1>6, RelayPodFacts
  <2> QED
    BY <2>1, HandKeptByOne
<1>7. ASSUME NEW t \in Tasks, NEW q \in Procs, NEW d \in Nat, Sent(t, q, d),
             UNCHANGED <<stack, nextPod, panicked>>
      PROVE  HandInv'
  <2>1. /\ TaskIs(t, task'[t]) /\ task'[t].at = IF task[t].todo = {q} THEN "pop" ELSE "send"
    BY <1>7, SentFacts
  <2> QED
    BY <1>7, <2>1, HandKeptByOne
<1>8. ASSUME NEW t \in Tasks, NEW q \in Procs, SendPod(t, q) PROVE HandInv'
  <2>1. Sent(t, q, 0) /\ UNCHANGED <<stack, nextPod, panicked>>
    BY <1>8 DEF SendPod
  <2> QED
    BY <1>7, <2>1
<1>9. ASSUME NEW t \in Tasks, NEW q \in Procs, SendFails(t, q) PROVE HandInv'
  <2>1. Sent(t, q, 1) /\ UNCHANGED <<stack, nextPod, panicked>>
    BY <1>9 DEF SendFails
  <2> QED
    BY <1>7, <2>1
<1>10. ASSUME NEW t \in Tasks, SkipScheduling(t) PROVE HandInv'
  <2>1. /\ task' = [task EXCEPT ![t].at = "wait"]
        /\ UNCHANGED <<stack, nextPod, panicked>>
    BY <1>10 DEF SkipScheduling
  <2>2. TaskIs(t, task'[t]) /\ task'[t].at = "wait"
    BY <2>1, StageFacts
  <2> QED
    BY <2>1, <2>2, HandKeptByOne
<1>11. ASSUME NEW t \in Tasks, SchedulerDone(t) PROVE HandInv'
  <2>1. /\ task[t].one = "cycle" /\ task' = [task EXCEPT ![t].one = "done"]
        /\ UNCHANGED <<stack, nextPod, panicked>>
    BY <1>11 DEF SchedulerDone
  <2>2. /\ TaskIs(t, task'[t]) /\ task'[t].one = "done"
        /\ SameCall(task'[t], task[t])
        /\ task'[t].kube = task[t].kube /\ task'[t].at = task[t].at
    BY <2>1, OneFacts
  <2>3. \A u \in Tasks : /\ Holding(u)' <=> Holding(u)
                         /\ task'[u].proc = task[u].proc /\ task'[u].kube = task[u].kube
                         /\ task'[u].one = "next" <=> task[u].one = "next"
    BY <2>1, <2>2 DEF TaskIs, Holding, SameCall
  <2>4. ~panicked' /\ \A p \in Procs : \A s \in stack'[p] : nextPod'[p][s] = None
    BY <2>1 DEF HandInv
  <2>5. \A u \in Tasks : Holding(u)' => task'[u].kube \notin stack'[task'[u].proc]
    BY <2>1, <2>3 DEF HandInv
  <2>6. ASSUME NEW u \in Tasks, NEW v \in Tasks, Holding(u)', Holding(v)',
               task'[u].proc = task'[v].proc, task'[u].kube = task'[v].kube
        PROVE  u = v
    BY <2>3, <2>6 DEF HandInv
  <2>7. \A u \in Tasks : Holding(u)' =>
          (nextPod'[task'[u].proc][task'[u].kube] # None <=> task'[u].one = "next")
    BY <2>1, <2>3 DEF HandInv
  <2> QED
    BY <2>4, <2>5, <2>6, <2>7 DEF HandInv
<1>12. ASSUME NEW t \in Tasks, task[t].at = "wait", Return(t) PROVE HandInv'
  <2>1. Returns(t)
    BY <1>12, ReturnFacts
  <2>2. \A u \in Tasks : HoldsAsBefore(u)
    BY <2>1 DEF Returns, HoldsAsBefore, Holding, SameCall
  <2> QED
    BY <2>1, <2>2, HandKept DEF Returns
<1>13. ASSUME NEW t \in Tasks, WaitDone(t) \/ WaitTimeout(t) PROVE HandInv'
  BY <1>12, <1>13 DEF WaitDone, WaitTimeout
<1>14. ASSUME NEW k \in DOMAIN stream, StreamBreaks(k) PROVE HandInv'
  <2>1. UNCHANGED <<stack, nextPod, panicked>>
    BY <1>14 DEF StreamBreaks
  <2>2. \A v \in Tasks :
          /\ task'[v].at = task[v].at /\ task'[v].proc = task[v].proc
          /\ task'[v].kube = task[v].kube /\ task'[v].one = task[v].one
    BY <1>14, StreamBreaksFacts
  <2>3. \A u \in Tasks : HoldsAsBefore(u)
    BY <2>2 DEF HoldsAsBefore, Holding
  <2> QED
    BY <2>1, <2>3, HandKept
<1>15. ASSUME NEW t \in Tasks, RelayFails(t) PROVE HandInv'
  <2>1. /\ TaskIs(t, task'[t]) /\ task'[t].at = "done"
        /\ UNCHANGED <<stack, nextPod, panicked>>
    BY <1>15, RelayFailsFacts
  <2> QED
    BY <2>1, HandKeptByOne
<1> HIDE DEF RelayInv
<1> QED
  BY <1>2, <1>3, <1>4, <1>5, <1>6, <1>8, <1>9, <1>10, <1>11, <1>13, <1>14, <1>15,
     PopSchedulerHands, NextPodHands, PushSchedulerHands DEF Next, TaskStep, SendStep, ScheduleStep

(***************************************************************************)
(* A kube-scheduler is in its process's stack or with one call of          *)
(* ProcessOne, and has a pod to take from the moment it is popped until    *)
(* NextPod takes it: neither ProcessOne nor NextPod ever panics, whatever  *)
(* the calls, the streams and the timeouts do.                             *)
(***************************************************************************)
THEOREM HandoverNeverPanics == Spec => []HandoverIsSafe
<1>1. Init => HandInv
  <2> SUFFICES ASSUME Init PROVE HandInv
    OBVIOUS
  <2>1. \A t \in Tasks : ~Holding(t)
    BY DEF Init, Holding, Unused
  <2>2. ~panicked /\ \A p \in Procs : \A s \in stack[p] : nextPod[p][s] = None
    BY DEF Init
  <2> QED
    BY <2>1, <2>2 DEF HandInv
<1>2. HandInv => HandoverIsSafe
  BY DEF HandInv, HandoverIsSafe
<1> QED
  BY <1>1, <1>2, HandStep, CallsServeStreams, PTL DEF Spec

-------------------------------------------------------------------------------
(***************************************************************************)
(* The third layer: who has which index.                                   *)
(***************************************************************************)
(* t has no index but the one it had. *)
IndexAsBefore(t) ==
  Indexed(t)' => Indexed(t) /\ task'[t].proc = task[t].proc /\ task'[t].index = task[t].index

LEMMA DifferByIndex ==
  StreamIndicesDiffer <=>
    \A t, u \in Tasks : t # u /\ Indexed(t) /\ Indexed(u) /\ task[t].proc = task[u].proc =>
                          task[t].index # task[u].index
BY DEF StreamIndicesDiffer, Indexed

LEMMA DifferByIndexNext ==
  ASSUME \A t, u \in Tasks :
           t # u /\ Indexed(t)' /\ Indexed(u)' /\ task'[t].proc = task'[u].proc =>
             task'[t].index # task'[u].index
  PROVE  StreamIndicesDiffer'
BY DEF StreamIndicesDiffer, Indexed

LEMMA IndexKept ==
  ASSUME IndexInv, UNCHANGED <<free, total>>, \A t \in Tasks : IndexAsBefore(t)
  PROVE  IndexInv'
<1>1. \A p \in Procs : \A i \in free'[p] : i < total'[p]
  BY DEF IndexInv
<1>2. \A t \in Tasks : Indexed(t)' =>
        task'[t].index < total'[task'[t].proc] /\ task'[t].index \notin free'[task'[t].proc]
  BY DEF IndexInv, IndexAsBefore
<1>3. StreamIndicesDiffer'
  <2>1. \A t, u \in Tasks :
          t # u /\ Indexed(t)' /\ Indexed(u)' /\ task'[t].proc = task'[u].proc =>
            task'[t].index # task'[u].index
    BY DifferByIndex DEF IndexInv, IndexAsBefore
  <2> QED
    BY <2>1, DifferByIndexNext
<1> QED
  BY <1>1, <1>2, <1>3 DEF IndexInv

(* A step of t alone, which goes on with the call it was made for. *)
LEMMA IndexKeptByOne ==
  ASSUME IndexInv, UNCHANGED <<free, total>>, NEW t \in Tasks, TaskIs(t, task'[t]),
         task'[t].from = None \/ (SameCall(task'[t], task[t]) /\ Active(t))
  PROVE  IndexInv'
<1>1. \A u \in Tasks : IndexAsBefore(u)
  BY DEF TaskIs, IndexAsBefore, Indexed, Active, SameCall
<1> QED
  BY <1>1, IndexKept

LEMMA ReceivePodIndex ==
  ASSUME RelayInv, IndexInv, NEW k \in DOMAIN stream, NEW t \in Tasks, ReceivePod(k, t)
  PROVE  IndexInv'
<1>1. RelayTypeOK /\ k \in StreamKeys
  BY DEF RelayInv, RelayTypeOK
<1>2. PICK p \in Procs : p = k[2]
  BY <1>1 DEF StreamKeys
<1>3. PICK i \in Nat : i = Got(p)
  BY <1>1, GotFacts
<1>4. /\ TaskIs(t, task'[t])
      /\ task[t].at = "unused"
      /\ task'[t].proc = p /\ task'[t].index = i
      /\ free' = [free EXCEPT ![p] = free[p] \ {i}]
      /\ total' = [total EXCEPT ![p] = IF free[p] = {} THEN total[p] + 1 ELSE total[p]]
  BY <1>2, <1>3, ReceivePodFacts DEF RelayInv
<1>5. (free[p] = {} => i = total[p]) /\ (free[p] # {} => i \in free[p])
  BY <1>1, <1>3, GotFacts
<1>6. /\ \A r \in Procs : free'[r] = IF r = p THEN free[p] \ {i} ELSE free[r]
      /\ \A r \in Procs : free[r] \subseteq Nat /\ total[r] \in Nat /\ total'[r] \in Nat
      /\ \A r \in Procs : r # p => total'[r] = total[r]
      /\ total'[p] = IF free[p] = {} THEN total[p] + 1 ELSE total[p]
  BY <1>1, <1>4 DEF RelayTypeOK, RestTypeOK
<1>7. \A u \in Tasks : u # t => task'[u] = task[u]
  BY <1>4 DEF TaskIs
<1>8. \A r \in Procs : total[r] <= total'[r]
  BY <1>6
<1>9. i < total'[p] /\ i \notin free'[p]
  <2>1. CASE free[p] = {}
    BY <1>5, <1>6, <2>1
  <2>2. CASE free[p] # {}
    BY <1>5, <1>6, <2>2 DEF IndexInv
  <2> QED
    BY <2>1, <2>2
<1>10. \A r \in Procs : \A j \in free'[r] : j < total'[r]
  <2> TAKE r \in Procs
  <2> TAKE j \in free'[r]
  <2>1. j \in free[r] /\ j \in Nat
    BY <1>6
  <2>2. j < total[r]
    BY <2>1 DEF IndexInv
  <2> QED
    BY <1>6, <1>8, <2>1, <2>2
<1>11. ASSUME NEW u \in Tasks, u # t, Indexed(u)'
       PROVE  /\ Indexed(u) /\ task'[u] = task[u]
              /\ task[u].proc \in Procs /\ task[u].index \in Nat
              /\ task[u].index < total[task[u].proc] /\ task[u].index \notin free[task[u].proc]
  <2>1. Indexed(u) /\ task'[u] = task[u] /\ TaskOK(u) /\ task[u] \in Task
    BY <1>1, <1>7, <1>11 DEF Indexed, Active, RelayInv, RelayTypeOK
  <2> QED
    BY <2>1 DEF TaskOK, Indexed, Active, Task, IndexInv
<1>12. ASSUME NEW u \in Tasks, Indexed(u)'
       PROVE  task'[u].index < total'[task'[u].proc] /\ task'[u].index \notin free'[task'[u].proc]
  <2>1. CASE u = t
    BY <1>4, <1>9, <2>1
  <2>2. CASE u # t
    <3>1. task[u].index < total'[task[u].proc]
      BY <1>6, <1>8, <1>11, <1>12, <2>2
    <3>2. task[u].index \notin free'[task[u].proc]
      BY <1>6, <1>11, <1>12, <2>2
    <3> QED
      BY <1>7, <2>2, <3>1, <3>2
  <2> QED
    BY <2>1, <2>2
<1>13. ASSUME NEW u \in Tasks, u # t, Indexed(u)', task[u].proc = p PROVE task[u].index # i
  <2>1. task[u].index \in Nat /\ task[u].index < total[p] /\ task[u].index \notin free[p]
    BY <1>11, <1>13
  <2> QED
    BY <1>5, <1>6, <2>1
<1>14. StreamIndicesDiffer'
  <2>1. ASSUME NEW u \in Tasks, NEW v \in Tasks, u # v, Indexed(u)', Indexed(v)',
               task'[u].proc = task'[v].proc
        PROVE  task'[u].index # task'[v].index
    <3>1. CASE u = t
      BY <1>4, <1>7, <1>13, <2>1, <3>1
    <3>2. CASE v = t
      BY <1>4, <1>7, <1>13, <2>1, <3>2
    <3>3. CASE u # t /\ v # t
      BY <1>11, <2>1, <3>3, DifferByIndex DEF IndexInv
    <3> QED
      BY <3>1, <3>2, <3>3
  <2> QED
    BY <2>1, DifferByIndexNext
<1> QED
  BY <1>10, <1>12, <1>14 DEF IndexInv

LEMMA ReturnIndex ==
  ASSUME RelayInv, IndexInv, NEW t \in Tasks, task[t].at = "wait", Return(t)
  PROVE  IndexInv'
<1>1. RelayTypeOK /\ ServesOK /\ TaskOK(t)
  BY DEF RelayInv
<1>2. Returns(t)
  BY <1>1, ReturnFacts
<1>3. \A v \in Tasks : Indexed(v)' => v # t /\ IndexAsBefore(v)
  BY <1>2 DEF Returns, Indexed, Active, IndexAsBefore, SameCall
<1>4. CASE task[t].from = None
  <2>1. UNCHANGED <<free, total>>
    BY <1>2, <1>4 DEF Returns
  <2>2. \A v \in Tasks : IndexAsBefore(v)
    BY <1>3 DEF IndexAsBefore
  <2> QED
    BY <2>1, <2>2, IndexKept
<1>5. CASE task[t].from # None
  <2>1. PICK p \in Procs, i \in Nat : p = task[t].proc /\ i = task[t].index
    BY <1>1 DEF TaskOK, RelayTypeOK, Task
  <2>2. free' = [free EXCEPT ![p] = free[p] \union {i}] /\ total' = total
    BY <1>2, <1>5, <2>1 DEF Returns
  <2>3. \A r \in Procs : free'[r] = IF r = p THEN free[p] \union {i} ELSE free[r]
    BY <1>1, <2>2 DEF RelayTypeOK, RestTypeOK
  <2>4. Indexed(t)
    BY <1>5 DEF Indexed, Active
  <2>5. i < total[p]
    BY <2>1, <2>4 DEF IndexInv
  <2>6. \A r \in Procs : \A j \in free'[r] : j < total'[r]
    BY <2>2, <2>3, <2>5 DEF IndexInv
  <2>7. ASSUME NEW u \in Tasks, Indexed(u)'
        PROVE  task'[u].index < total'[task'[u].proc] /\ task'[u].index \notin free'[task'[u].proc]
    <3>1. /\ u # t /\ Indexed(u) /\ TaskOK(u)
          /\ task'[u].proc = task[u].proc /\ task'[u].index = task[u].index
      BY <1>3, <2>7 DEF IndexAsBefore, RelayInv
    <3>2. task[u].proc \in Procs
      BY <3>1 DEF TaskOK, Indexed, Active
    <3>3. task[u].index < total[task[u].proc] /\ task[u].index \notin free[task[u].proc]
      BY <3>1 DEF IndexInv
    <3>4. ~(task[u].proc = p /\ task[u].index = i)
      BY <2>1, <2>4, <3>1, DifferByIndex DEF IndexInv
    <3> QED
      BY <2>2, <2>3, <3>1, <3>2, <3>3, <3>4
  <2>8. StreamIndicesDiffer'
    <3>1. \A u, v \in Tasks :
            u # v /\ Indexed(u)' /\ Indexed(v)' /\ task'[u].proc = task'[v].proc =>
              task'[u].index # task'[v].index
      BY <1>3, DifferByIndex DEF IndexInv, IndexAsBefore
    <3> QED
      BY <3>1, DifferByIndexNext
  <2> QED
    BY <2>6, <2>7, <2>8 DEF IndexInv
<1> QED
  BY <1>4, <1>5

LEMMA IndexStep == RelayInv /\ IndexInv /\ [Next]_vars => IndexInv'
<1> SUFFICES ASSUME RelayInv, IndexInv, [Next]_vars PROVE IndexInv'
  OBVIOUS
<1> USE DEF RelayInv
<1>1. ASSUME UNCHANGED <<task, free, total>> PROVE IndexInv'
  <2>1. \A t \in Tasks : IndexAsBefore(t)
    BY <1>1 DEF IndexAsBefore, Indexed, Active
  <2> QED
    BY <1>1, <2>1, IndexKept
<1>2. CASE UNCHANGED vars
  BY <1>1, <1>2 DEF vars, taskVars
<1>3. ASSUME NEW p \in Procs, NEW x \in Pods, Enqueue(p, x) PROVE IndexInv'
  BY <1>1, <1>3 DEF Enqueue
<1>4. ASSUME NEW p \in Procs, NEW i \in 0 .. Runners - 1, NEW t \in Tasks, RunOne(p, i, t)
      PROVE  IndexInv'
  <2>1. TaskIs(t, task'[t]) /\ task'[t].from = None /\ UNCHANGED <<free, total>>
    BY <1>4, RunOneFacts
  <2> QED
    BY <2>1, IndexKeptByOne
<1>5. ASSUME NEW t \in Tasks, RelayPod(t) PROVE IndexInv'
  <2>1. /\ TaskIs(t, task'[t]) /\ task[t].at = "get" /\ SameCall(task'[t], task[t])
        /\ UNCHANGED <<free, total>>
    BY <1>5, RelayPodFacts
  <2> QED
    BY <2>1, IndexKeptByOne DEF Active
<1>6. ASSUME NEW t \in Tasks, NEW q \in Procs, NEW d \in Nat, task[t].at = "send", Sent(t, q, d),
             UNCHANGED <<free, total>>
      PROVE  IndexInv'
  <2>1. TaskIs(t, task'[t]) /\ SameCall(task'[t], task[t])
    BY <1>6, SentFacts
  <2> QED
    BY <1>6, <2>1, IndexKeptByOne DEF Active
<1>7. ASSUME NEW t \in Tasks, NEW q \in Procs, SendPod(t, q) PROVE IndexInv'
  <2>1. task[t].at = "send" /\ Sent(t, q, 0) /\ UNCHANGED <<free, total>>
    BY <1>7 DEF SendPod
  <2> QED
    BY <1>6, <2>1
<1>8. ASSUME NEW t \in Tasks, NEW q \in Procs, SendFails(t, q) PROVE IndexInv'
  <2>1. task[t].at = "send" /\ Sent(t, q, 1) /\ UNCHANGED <<free, total>>
    BY <1>8 DEF SendFails
  <2> QED
    BY <1>6, <2>1
<1>9. ASSUME NEW t \in Tasks, SkipScheduling(t) \/ PushScheduler(t) PROVE IndexInv'
  <2>1. /\ task[t].at \in {"pop", "schedule"} /\ task' = [task EXCEPT ![t].at = "wait"]
        /\ UNCHANGED <<free, total>>
    BY <1>9 DEF SkipScheduling, PushScheduler
  <2>2. TaskIs(t, task'[t]) /\ SameCall(task'[t], task[t])
    BY <2>1, StageFacts
  <2> QED
    BY <2>1, <2>2, IndexKeptByOne DEF Active
<1>10. ASSUME NEW t \in Tasks, PopScheduler(t) PROVE IndexInv'
  <2>1. /\ TaskIs(t, task'[t]) /\ task[t].at = "pop" /\ SameCall(task'[t], task[t])
        /\ UNCHANGED <<free, total>>
    BY <1>10, PopSchedulerFacts
  <2> QED
    BY <2>1, IndexKeptByOne DEF Active
<1>11. ASSUME NEW t \in Tasks, ScheduleStep(t) PROVE IndexInv'
  <2>1. /\ task[t].one \in {"next", "cycle"}
        /\ \E a \in {"cycle", "done"} : task' = [task EXCEPT ![t].one = a]
        /\ UNCHANGED <<free, total>>
    BY <1>11 DEF ScheduleStep, NextPod, SchedulerDone
  <2>2. TaskIs(t, task'[t]) /\ SameCall(task'[t], task[t])
    BY <2>1, OneFacts
  <2>3. TaskOK(t)
    OBVIOUS
  <2>4. task[t].at = "schedule"
    BY <2>1, <2>3 DEF TaskOK
  <2> QED
    BY <2>1, <2>2, <2>4, IndexKeptByOne DEF Active
<1>12. ASSUME NEW t \in Tasks, WaitDone(t) \/ WaitTimeout(t) PROVE IndexInv'
  <2>1. task[t].at = "wait" /\ Return(t)
    BY <1>12 DEF WaitDone, WaitTimeout
  <2> QED
    BY <2>1, ReturnIndex
<1>13. ASSUME NEW k \in DOMAIN stream, StreamBreaks(k) PROVE IndexInv'
  <2>1. UNCHANGED <<free, total>>
    BY <1>13 DEF StreamBreaks
  <2>2. \A v \in Tasks :
          /\ task'[v].at = task[v].at /\ task'[v].proc = task[v].proc
          /\ task'[v].index = task[v].index
          /\ task'[v].from = IF task[v].from = k THEN Orphan ELSE task[v].from
    BY <1>13, StreamBreaksFacts
  <2>3. k # None
    BY OrphanFacts DEF RelayTypeOK
  <2>4. \A u \in Tasks : IndexAsBefore(u)
    BY <2>2, <2>3 DEF IndexAsBefore, Indexed, Active
  <2> QED
    BY <2>1, <2>4, IndexKept
<1>14. ASSUME NEW t \in Tasks, RelayFails(t) PROVE IndexInv'
  <2>1. /\ TaskIs(t, task'[t]) /\ task[t].at = "get" /\ SameCall(task'[t], task[t])
        /\ UNCHANGED <<free, total>>
    BY <1>14, RelayFailsFacts
  <2> QED
    BY <2>1, IndexKeptByOne DEF Active
<1> HIDE DEF RelayInv
<1> QED
  BY <1>2, <1>3, <1>4, <1>5, <1>7, <1>8, <1>9, <1>10, <1>11, <1>12, <1>13, <1>14,
     ReceivePodIndex DEF Next, TaskStep, SendStep

(***************************************************************************)
(* An index that UnmarshalPodRaw takes from concurrentCounter is below     *)
(* total and not free until ProcessOne returns and gives it back: the      *)
(* streams of two calls in progress in a process are never the same.       *)
(***************************************************************************)
THEOREM IndicesDiffer == Spec => []StreamIndicesDiffer
<1>1. Init => IndexInv
  <2> SUFFICES ASSUME Init PROVE IndexInv
    OBVIOUS
  <2>1. \A t \in Tasks : ~Indexed(t)
    BY DEF Init, Indexed, Active, Unused
  <2>2. \A p \in Procs : \A i \in free[p] : i < total[p]
    BY DEF Init
  <2> QED
    BY <2>1, <2>2, DifferByIndex DEF IndexInv
<1>2. IndexInv => StreamIndicesDiffer
  BY DEF IndexInv
<1> QED
  BY <1>1, <1>2, IndexStep, CallsServeStreams, PTL DEF Spec

-------------------------------------------------------------------------------
(***************************************************************************)
(* The fourth layer: what the latch counts.                                *)
(***************************************************************************)
LEMMA AwaitsFinite ==
  ASSUME RelayTypeOK, NEW t \in Tasks
  PROVE  /\ IsFiniteSet(Awaits(t)) /\ Cardinality(Awaits(t)) \in Nat
         /\ IsFiniteSet(task[t].todo) /\ Cardinality(task[t].todo) \in Nat
         /\ task[t].latch \in Int
<1>1. Awaits(t) \in SUBSET DOMAIN stream /\ IsFiniteSet(DOMAIN stream)
  BY DEF Awaits, RelayTypeOK
<1>2. IsFiniteSet(Awaits(t))
  BY <1>1, FS_Subset
<1>3. task[t].todo \in SUBSET Procs /\ task[t].latch \in Int
  BY DEF RelayTypeOK, Task
<1>4. IsFiniteSet(task[t].todo)
  BY <1>3, ProcsAssumption, FS_Subset
<1> QED
  BY <1>2, <1>3, <1>4, FS_CardinalityType

(* A call waits for the same streams, has sent to the same, and counts the same. *)
LatchAsBefore(t) ==
  /\ Awaits(t)' = Awaits(t)
  /\ task'[t].todo = task[t].todo /\ task'[t].latch = task[t].latch
  /\ task[t].at \notin {"unused", "get"} =>
       /\ task'[t].at \notin {"unused", "get"}
       /\ task'[t].proc = task[t].proc /\ task'[t].index = task[t].index

LEMMA SameLatch ==
  ASSUME RelayTypeOK, NEW t \in Tasks, calm' => calm, LatchAsBefore(t), AwaitOK(t)
  PROVE  AwaitOK(t)' /\ (LatchOK(t) => LatchOK(t)')
<1>1. AwaitOK(t)'
  <2> SUFFICES ASSUME NEW k \in Awaits(t)
               PROVE  /\ task'[t].at \notin {"unused", "get"}
                      /\ \E q \in Procs : /\ k = <<task'[t].proc, q, task'[t].index>>
                                          /\ q \notin task'[t].todo
    BY DEF AwaitOK, StreamTo, LatchAsBefore
  <2>1. task[t].at \notin {"unused", "get"}
    BY DEF AwaitOK
  <2>2. PICK q \in Procs : k = <<task[t].proc, q, task[t].index>> /\ q \notin task[t].todo
    BY DEF AwaitOK, StreamTo
  <2> QED
    BY <2>1, <2>2 DEF LatchAsBefore
<1>2. ASSUME LatchOK(t) PROVE LatchOK(t)'
  <2>1. PICK a \in Nat, b \in Nat, l \in Int :
          a = Cardinality(task[t].todo) /\ b = Cardinality(Awaits(t)) /\ l = task[t].latch
    BY AwaitsFinite
  <2>2. /\ a = Cardinality(task'[t].todo) /\ b = Cardinality(Awaits(t)') /\ l = task'[t].latch
    BY <2>1 DEF LatchAsBefore
  <2>3. IF calm THEN l = a + b ELSE l >= a + b
    BY <1>2, <2>1 DEF LatchOK
  <2>4. IF calm' THEN l = a + b ELSE l >= a + b
    BY <2>3
  <2> QED
    BY <2>2, <2>4 DEF LatchOK
<1> QED
  BY <1>1, <1>2

LEMMA LatchKept ==
  ASSUME RelayTypeOK, LatchInv, UNCHANGED stream, calm' => calm,
         \A t \in Tasks : LatchAsBefore(t)
  PROVE  LatchInv'
<1>1. ASSUME NEW k \in DOMAIN stream' PROVE WireOK(k)'
  <2>1. WireOK(k)
    BY DEF LatchInv
  <2> QED
    BY <2>1 DEF WireOK
<1>2. ASSUME NEW t \in Tasks PROVE AwaitOK(t)' /\ (LatchOK(t) => LatchOK(t)')
  <2>1. AwaitOK(t) /\ LatchAsBefore(t)
    BY DEF LatchInv
  <2> QED
    BY <2>1, SameLatch
<1> QED
  BY <1>1, <1>2 DEF LatchInv

(* A call that has not asked for its sub-members waits for none. *)
LEMMA NoneAwaited ==
  ASSUME NEW t \in Tasks, AwaitOK(t), task[t].at \in {"unused", "get"}
  PROVE  Awaits(t) = {}
BY DEF AwaitOK

(* A step of t alone that sends nothing. *)
LEMMA LatchKeptByOne ==
  ASSUME RelayTypeOK, LatchInv, UNCHANGED stream, calm' => calm, NEW t \in Tasks,
         TaskIs(t, task'[t]),
         task'[t].todo = task[t].todo, task'[t].latch = task[t].latch,
         task[t].at \notin {"unused", "get"} =>
           SameCall(task'[t], task[t]) /\ task'[t].at \notin {"unused", "get"}
  PROVE  LatchInv'
<1>1. ASSUME NEW u \in Tasks PROVE LatchAsBefore(u)
  BY DEF TaskIs, LatchAsBefore, Awaits, SameCall
<1> QED
  BY <1>1, LatchKept

LEMMA RelayPodLatch ==
  ASSUME RelayInv, LatchInv, NEW t \in Tasks, RelayPod(t)
  PROVE  LatchInv'
<1>1. RelayTypeOK /\ SetInv /\ TaskOK(t)
  BY DEF RelayInv
<1>2. /\ TaskIs(t, task'[t])
      /\ task[t].at = "get"
      /\ task'[t].latch = LatchCount(Cardinality(task'[t].todo))
      /\ UNCHANGED <<stream, calm>>
  BY <1>1, RelayPodFacts
<1>3. task'[t] \in Task /\ \A u \in Tasks : u # t => task'[u] = task[u]
  BY <1>2 DEF TaskIs
<1>4. \A u \in Tasks : u # t => LatchAsBefore(u)
  BY <1>2, <1>3 DEF LatchAsBefore, Awaits
<1>5. ASSUME NEW u \in Tasks, u # t PROVE AwaitOK(u)' /\ (LatchOK(u) => LatchOK(u)')
  BY <1>1, <1>2, <1>4, <1>5, SameLatch DEF LatchInv
<1>6. Awaits(t)' = {}
  <2>1. Awaits(t) = {}
    BY <1>2, NoneAwaited DEF LatchInv
  <2> QED
    BY <1>2, <2>1 DEF Awaits
<1>7. AwaitOK(t)'
  BY <1>6 DEF AwaitOK
<1>8. ASSUME WaitPercent > 99 PROVE LatchOK(t)'
  <2>1. task'[t].todo \in SUBSET Procs
    BY <1>3 DEF Task
  <2>2. PICK c \in Nat : c = Cardinality(task'[t].todo)
    BY <2>1, ProcsAssumption, FS_Subset, FS_CardinalityType
  <2>3. task'[t].latch = c
    BY <1>2, <1>8, <2>2, BoundsAssumption DEF LatchCount
  <2>4. Cardinality(Awaits(t)') = 0
    BY <1>6, FS_EmptySet, Zenon
  <2>5. c = c + 0 /\ c >= c + 0
    OBVIOUS
  <2> QED
    BY <2>2, <2>3, <2>4, <2>5 DEF LatchOK
<1>9. \A k \in DOMAIN stream' : WireOK(k)'
  BY <1>2 DEF LatchInv, WireOK
<1> QED
  BY <1>5, <1>7, <1>8, <1>9 DEF LatchInv

(* The streams other than k keep their wires. *)
LEMMA OtherWires ==
  ASSUME NEW k, Others(k), NEW j \in DOMAIN stream, j # k, WireOK(j), calm' => calm
  PROVE  WireOK(j)'
<1>1. stream'[j] = stream[j]
  BY DEF Others
<1> QED
  BY <1>1 DEF WireOK

(* One sub-member less to send to. *)
LEMMA OneLess ==
  ASSUME RelayTypeOK, NEW t \in Tasks, NEW q \in task[t].todo
  PROVE  Cardinality(task[t].todo \ {q}) = Cardinality(task[t].todo) - 1
<1>1. PICK M : M = task[t].todo
  OBVIOUS
<1>2. IsFiniteSet(M)
  BY <1>1, AwaitsFinite
<1> QED
  BY <1>1, <1>2, FS_RemoveElement

(* What t knows of the streams it waits on, once it has sent to q. *)
LEMMA AwaitAfterSent ==
  ASSUME RelayTypeOK, NEW t \in Tasks, AwaitOK(t), NEW q \in Procs,
         SameCall(task'[t], task[t]), task'[t].at \in {"pop", "send"},
         task'[t].todo = task[t].todo \ {q},
         \A k \in Awaits(t)' : k \in Awaits(t) \/ k = StreamTo(t, q)
  PROVE  AwaitOK(t)'
<1> SUFFICES ASSUME NEW k \in Awaits(t)'
             PROVE  \E r \in Procs : /\ k = <<task'[t].proc, r, task'[t].index>>
                                     /\ r \notin task'[t].todo
  BY DEF AwaitOK, StreamTo
<1>1. task'[t].proc = task[t].proc /\ task'[t].index = task[t].index
  BY DEF SameCall
<1>2. CASE k = StreamTo(t, q)
  BY <1>1, <1>2 DEF StreamTo
<1>3. CASE k \in Awaits(t)
  <2>1. PICK r \in Procs : k = <<task[t].proc, r, task[t].index>> /\ r \notin task[t].todo
    BY <1>3 DEF AwaitOK, StreamTo
  <2> QED
    BY <1>1, <2>1
<1> QED
  BY <1>2, <1>3

(* t has not sent to q yet, so it awaits nothing on the stream to q. *)
LEMMA NotYetAwaited ==
  ASSUME NEW t \in Tasks, AwaitOK(t), NEW q \in task[t].todo
  PROVE  StreamTo(t, q) \notin Awaits(t)
<1> SUFFICES ASSUME StreamTo(t, q) \in Awaits(t) PROVE FALSE
  OBVIOUS
<1>1. PICK r \in Procs : StreamTo(t, q) = StreamTo(t, r) /\ r \notin task[t].todo
  BY DEF AwaitOK
<1>2. q = r
  BY <1>1 DEF StreamTo
<1> QED
  BY <1>1, <1>2

LEMMA SendPodLatch ==
  ASSUME RelayInv, LatchInv, NEW t \in Tasks, NEW q \in Procs, SendPod(t, q)
  PROVE  LatchInv'
<1>1. RelayTypeOK /\ TaskOK(t)
  BY DEF RelayInv
<1>2. PICK k \in StreamKeys :
        /\ k = StreamTo(t, q)
        /\ task[t].at = "send" /\ q \in task[t].todo
        /\ DOMAIN stream' = DOMAIN stream \union {k}
        /\ Others(k)
        /\ \/ k \in DOMAIN stream /\ stream[k].state = "broken" /\ stream'[k] = stream[k]
           \/ Takes(k, t)
        /\ Sent(t, q, 0)
        /\ UNCHANGED calm
  BY <1>1, SendPodFacts, Zenon
<1>3. /\ TaskIs(t, task'[t])
      /\ task'[t].at = IF task[t].todo = {q} THEN "pop" ELSE "send"
      /\ task'[t].todo = task[t].todo \ {q}
      /\ task'[t].latch = task[t].latch - 0
      /\ SameCall(task'[t], task[t])
  BY <1>1, <1>2, SentFacts
<1>4. \A u \in Tasks : u # t => task'[u] = task[u]
  BY <1>3 DEF TaskIs
<1>5. PICK a \in Nat, b \in Nat, l \in Int :
        a = Cardinality(task[t].todo) /\ b = Cardinality(Awaits(t)) /\ l = task[t].latch
  BY <1>1, AwaitsFinite
<1>6. Cardinality(task'[t].todo) = a - 1 /\ task'[t].latch = l
  <2>1. Cardinality(task'[t].todo) = a - 1
    BY <1>1, <1>2, <1>3, <1>5, OneLess
  <2> QED
    BY <1>3, <1>5, <2>1
<1>7. ASSUME LatchOK(t) PROVE IF calm THEN l = a + b ELSE l >= a + b
  BY <1>5, <1>7 DEF LatchOK
<1>8. AwaitOK(t) /\ k \notin Awaits(t)
  BY <1>2, NotYetAwaited DEF LatchInv
<1>9. ASSUME NEW u \in Tasks, u # t, Awaits(u)' = Awaits(u)
      PROVE  AwaitOK(u)' /\ (LatchOK(u) => LatchOK(u)')
  <2>1. LatchAsBefore(u) /\ AwaitOK(u)
    BY <1>4, <1>9 DEF LatchAsBefore, LatchInv
  <2> QED
    BY <1>1, <1>2, <2>1, SameLatch
<1>10. \A j \in DOMAIN stream : j # k => WireOK(j)'
  BY <1>2, OtherWires DEF LatchInv
<1>11. CASE k \in DOMAIN stream /\ stream[k].state = "broken" /\ stream'[k] = stream[k]
  <2>1. DOMAIN stream' = DOMAIN stream /\ \A j \in DOMAIN stream : stream'[j] = stream[j]
    BY <1>2, <1>11 DEF Others
  <2>2. ASSUME NEW u \in Tasks PROVE Awaits(u)' = Awaits(u)
    BY <2>1 DEF Awaits
  <2>3. WireOK(k)' /\ ~calm /\ ~calm'
    BY <1>2, <1>11, SMTT(30) DEF WireOK, LatchInv
  <2>4. AwaitOK(t)'
    BY <1>1, <1>3, <1>8, <2>2, AwaitAfterSent
  <2>5. ASSUME LatchOK(t) PROVE LatchOK(t)'
    <3>1. l >= a - 1 + b
      BY <1>7, <2>3, <2>5
    <3> QED
      BY <1>5, <1>6, <2>2, <2>3, <3>1 DEF LatchOK
  <2> QED
    BY <1>9, <1>10, <2>1, <2>2, <2>3, <2>4, <2>5 DEF LatchInv
<1>12. CASE Takes(k, t)
  <2>1. PICK w \in Seq(Tasks), P \in SUBSET Tasks :
          /\ stream'[k].state = "up" /\ stream'[k].wire = Append(w, t)
          /\ stream'[k].pending = P \union {t}
          /\ k \in DOMAIN stream => stream[k].wire = w /\ stream[k].pending = P
          /\ k \notin DOMAIN stream => w = <<>> /\ P = {}
    BY <1>12 DEF Takes
  <2>2. t \notin P
    BY <1>8, <2>1 DEF Awaits
  <2>3. /\ \A i \in 1 .. Len(w) : w[i] \in P
        /\ \A u \in P : \E i \in 1 .. Len(w) : w[i] = u
        /\ \A i, j \in 1 .. Len(w) : w[i] = w[j] => i = j
    <3>1. CASE k \in DOMAIN stream
      <4>1. WireOK(k)
        BY <3>1 DEF LatchInv
      <4>2. stream[k].wire = w /\ stream[k].pending = P
        BY <2>1, <3>1
      <4> QED
        BY <4>1, <4>2, Zenon DEF WireOK
    <3>2. CASE k \notin DOMAIN stream
      BY <2>1, <3>2
    <3> QED
      BY <3>1, <3>2
  <2>4. PICK v : v = Append(w, t)
    OBVIOUS
  <2>5. /\ Len(v) = Len(w) + 1 /\ Len(w) \in Nat /\ v[Len(w) + 1] = t
        /\ \A i \in 1 .. Len(w) : v[i] = w[i]
    BY <2>4, AppendFacts
  <2>6. \A i \in 1 .. Len(v) : v[i] \in P \union {t}
    BY <2>3, <2>5
  <2>7. \A u \in P \union {t} : \E i \in 1 .. Len(v) : v[i] = u
    <3>1. Len(w) + 1 \in 1 .. Len(v) /\ \A i \in 1 .. Len(w) : i \in 1 .. Len(v)
      BY <2>5
    <3>2. \E i \in 1 .. Len(v) : v[i] = t
      BY <2>5, <3>1
    <3>3. ASSUME NEW u \in P PROVE \E i \in 1 .. Len(v) : v[i] = u
      BY <2>3, <2>5, <3>1
    <3> QED
      BY <3>2, <3>3
  <2>8. \A i, j \in 1 .. Len(v) : v[i] = v[j] => i = j
    <3>1. \A i \in 1 .. Len(v) : i \in 1 .. Len(w) \/ i = Len(w) + 1
      BY <2>5
    <3>2. \A i \in 1 .. Len(w) : v[i] # t
      BY <2>2, <2>3, <2>5
    <3>3. ASSUME NEW i \in 1 .. Len(v), NEW j \in 1 .. Len(v), v[i] = v[j] PROVE i = j
      <4>1. CASE i \in 1 .. Len(w) /\ j \in 1 .. Len(w)
        BY <2>3, <2>5, <3>3, <4>1
      <4>2. CASE i = Len(w) + 1
        BY <2>5, <3>1, <3>2, <3>3, <4>2
      <4>3. CASE j = Len(w) + 1
        BY <2>5, <3>1, <3>2, <3>3, <4>3
      <4> QED
        BY <3>1, <4>1, <4>2, <4>3
    <3> QED
      BY <3>3
  <2>9. WireOK(k)'
    <3>1. stream'[k].wire = v /\ stream'[k].pending = P \union {t} /\ stream'[k].state # "broken"
      BY <2>1, <2>4
    <3> QED
      BY <2>6, <2>7, <2>8, <3>1 DEF WireOK
  <2>10. \A j \in DOMAIN stream' : WireOK(j)'
    BY <1>2, <1>10, <2>9
  <2>11. ASSUME NEW u \in Tasks, u # t PROVE Awaits(u)' = Awaits(u)
    <3>1. \A j : j \in Awaits(u)' <=> j \in Awaits(u)
      <4>1. \A j : j # k => (j \in Awaits(u)' <=> j \in Awaits(u))
        BY <1>2 DEF Awaits, Others
      <4>2. k \in Awaits(u)' <=> u \in P
        BY <1>2, <2>1, <2>11 DEF Awaits
      <4>3. k \in Awaits(u) <=> u \in P
        BY <2>1 DEF Awaits
      <4> QED
        BY <4>1, <4>2, <4>3
    <3> QED
      BY <3>1
  <2>12. Awaits(t)' = Awaits(t) \union {k}
    <3>1. \A j : j \in Awaits(t)' <=> j \in Awaits(t) \union {k}
      <4>1. \A j : j # k => (j \in Awaits(t)' <=> j \in Awaits(t))
        BY <1>2 DEF Awaits, Others
      <4>2. k \in Awaits(t)'
        BY <1>2, <2>1 DEF Awaits
      <4> QED
        BY <4>1, <4>2
    <3> QED
      BY <3>1
  <2>13. Cardinality(Awaits(t)') = b + 1
    <3>1. PICK A : A = Awaits(t)
      OBVIOUS
    <3>2. IsFiniteSet(A) /\ k \notin A
      BY <1>1, <1>8, <3>1, AwaitsFinite
    <3>3. Cardinality(A \union {k}) = Cardinality(A) + 1
      BY <3>2, FS_AddElement
    <3> QED
      BY <1>5, <2>12, <3>1, <3>3
  <2>14. AwaitOK(t)'
    BY <1>1, <1>2, <1>3, <1>8, <2>12, AwaitAfterSent
  <2>15. ASSUME LatchOK(t) PROVE LatchOK(t)'
    <3>1. a - 1 + (b + 1) = a + b
      OBVIOUS
    <3>2. IF calm' THEN l = a - 1 + (b + 1) ELSE l >= a - 1 + (b + 1)
      BY <1>2, <1>7, <2>15, <3>1
    <3> QED
      BY <1>6, <2>13, <3>2 DEF LatchOK
  <2> QED
    BY <1>9, <2>10, <2>11, <2>14, <2>15 DEF LatchInv
<1> QED
  BY <1>2, <1>11, <1>12

LEMMA SendFailsLatch ==
  ASSUME RelayInv, LatchInv, NEW t \in Tasks, NEW q \in Procs, SendFails(t, q)
  PROVE  LatchInv'
<1>1. RelayTypeOK /\ TaskOK(t)
  BY DEF RelayInv
<1>2. PICK k :
        /\ k = StreamTo(t, q)
        /\ task[t].at = "send" /\ q \in task[t].todo
        /\ DOMAIN stream' = DOMAIN stream \ {k}
        /\ Others(k)
        /\ k \in DOMAIN stream => stream[k].state = "broken"
        /\ Sent(t, q, 1)
        /\ calm' = FALSE
  BY <1>1, SendFailsFacts, Zenon
<1>3. /\ TaskIs(t, task'[t])
      /\ task'[t].at = IF task[t].todo = {q} THEN "pop" ELSE "send"
      /\ task'[t].todo = task[t].todo \ {q}
      /\ task'[t].latch = task[t].latch - 1
      /\ SameCall(task'[t], task[t])
  BY <1>1, <1>2, SentFacts
<1>4. \A u \in Tasks : u # t => task'[u] = task[u]
  BY <1>3 DEF TaskIs
<1>5. PICK a \in Nat, b \in Nat, l \in Int :
        a = Cardinality(task[t].todo) /\ b = Cardinality(Awaits(t)) /\ l = task[t].latch
  BY <1>1, AwaitsFinite
<1>6. Cardinality(task'[t].todo) = a - 1 /\ task'[t].latch = l - 1
  <2>1. Cardinality(task'[t].todo) = a - 1
    BY <1>1, <1>2, <1>3, <1>5, OneLess
  <2> QED
    BY <1>3, <1>5, <2>1
<1>7. ASSUME NEW u \in Tasks PROVE Awaits(u)' = Awaits(u)
  <2>1. k \in DOMAIN stream => stream[k].pending = {}
    BY <1>2 DEF RelayInv, StreamOK
  <2>2. \A j : j \in Awaits(u)' <=> j \in Awaits(u)
    BY <1>2, <2>1 DEF Awaits, Others
  <2> QED
    BY <2>2
<1>8. \A j \in DOMAIN stream' : WireOK(j)'
  BY <1>2, OtherWires DEF LatchInv
<1>9. ASSUME NEW u \in Tasks, u # t PROVE AwaitOK(u)' /\ (LatchOK(u) => LatchOK(u)')
  <2>1. LatchAsBefore(u) /\ AwaitOK(u)
    BY <1>4, <1>7, <1>9 DEF LatchAsBefore, LatchInv
  <2> QED
    BY <1>1, <1>2, <2>1, SameLatch
<1>10. AwaitOK(t)'
  <2>1. AwaitOK(t)
    BY DEF LatchInv
  <2> QED
    BY <1>1, <1>3, <1>7, <2>1, AwaitAfterSent
<1>11. ASSUME LatchOK(t) PROVE LatchOK(t)'
  <2>1. l >= a + b
    BY <1>5, <1>11 DEF LatchOK
  <2>2. l - 1 >= a - 1 + b
    BY <2>1
  <2>3. Cardinality(Awaits(t)') = b
    BY <1>5, <1>7
  <2> QED
    BY <1>2, <1>6, <2>2, <2>3 DEF LatchOK
<1> QED
  BY <1>8, <1>9, <1>10, <1>11 DEF LatchInv

LEMMA StreamBreaksLatch ==
  ASSUME RelayInv, LatchInv, NEW k \in DOMAIN stream, StreamBreaks(k)
  PROVE  LatchInv'
<1>1. RelayTypeOK
  BY DEF RelayInv
<1>2. /\ DOMAIN stream' = DOMAIN stream
      /\ Others(k)
      /\ stream'[k].state = "broken" /\ stream'[k].wire = <<>> /\ stream'[k].pending = {}
      /\ calm' = FALSE
  BY <1>1, StreamBreaksFacts
<1>3. ASSUME NEW v \in Tasks
      PROVE  /\ task'[v].at = task[v].at /\ task'[v].proc = task[v].proc
             /\ task'[v].index = task[v].index
             /\ task'[v].todo = task[v].todo /\ task'[v].latch = task[v].latch
  BY <1>1, StreamBreaksFacts
<1>4. WireOK(k)'
  <2>1. Len(stream'[k].wire) = 0
    BY <1>2
  <2> QED
    BY <1>2, <2>1 DEF WireOK
<1>5. \A j \in DOMAIN stream' : WireOK(j)'
  BY <1>2, <1>4, OtherWires DEF LatchInv
<1>6. ASSUME NEW u \in Tasks PROVE Awaits(u)' \subseteq Awaits(u)
  BY <1>2 DEF Awaits, Others
<1>7. ASSUME NEW u \in Tasks PROVE AwaitOK(u)'
  <2> SUFFICES ASSUME NEW j \in Awaits(u)'
               PROVE  /\ task'[u].at \notin {"unused", "get"}
                      /\ \E q \in Procs : /\ j = <<task'[u].proc, q, task'[u].index>>
                                          /\ q \notin task'[u].todo
    BY DEF AwaitOK, StreamTo
  <2>1. j \in Awaits(u)
    BY <1>6
  <2>2. /\ task[u].at \notin {"unused", "get"}
        /\ \E q \in Procs : j = <<task[u].proc, q, task[u].index>> /\ q \notin task[u].todo
    BY <2>1 DEF LatchInv, AwaitOK, StreamTo
  <2> QED
    BY <1>3, <2>2
<1>8. ASSUME NEW u \in Tasks, LatchOK(u) PROVE LatchOK(u)'
  <2>1. PICK a \in Nat, b \in Nat, l \in Int :
          a = Cardinality(task[u].todo) /\ b = Cardinality(Awaits(u)) /\ l = task[u].latch
    BY <1>1, AwaitsFinite
  <2>2. l >= a + b
    BY <1>8, <2>1 DEF LatchOK
  <2>3. Cardinality(Awaits(u)') \in Nat /\ Cardinality(Awaits(u)') <= b
    <3>1. PICK A, B : A = Awaits(u) /\ B = Awaits(u)'
      OBVIOUS
    <3>2. IsFiniteSet(A) /\ B \in SUBSET A
      BY <1>1, <1>6, <3>1, AwaitsFinite
    <3>3. IsFiniteSet(B) /\ Cardinality(B) <= Cardinality(A)
      BY <3>2, FS_Subset
    <3>4. Cardinality(B) \in Nat
      BY <3>3, FS_CardinalityType
    <3> QED
      BY <2>1, <3>1, <3>3, <3>4
  <2>4. l >= a + Cardinality(Awaits(u)')
    BY <2>2, <2>3
  <2>5. Cardinality(task'[u].todo) = a /\ task'[u].latch = l
    BY <1>3, <2>1
  <2> QED
    BY <1>2, <2>4, <2>5 DEF LatchOK
<1> QED
  BY <1>5, <1>7, <1>8 DEF LatchInv

LEMMA ReturnLatch ==
  ASSUME RelayInv, LatchInv, NEW t \in Tasks, task[t].at = "wait", Return(t), calm' => calm
  PROVE  LatchInv'
<1>1. RelayTypeOK /\ ServesOK
  BY DEF RelayInv
<1>2. /\ Returns(t)
      /\ \/ ReturnsAlone(t)
         \/ \E k \in DOMAIN stream, u \in Tasks : ReturnsTo(t, k, u)
  BY <1>1, ReturnFacts
<1>3. ASSUME NEW v \in Tasks
      PROVE  /\ task'[v].todo = task[v].todo
             /\ task[v].at \notin {"unused", "get"} => task'[v].at \notin {"unused", "get"}
             /\ task'[v].proc = task[v].proc /\ task'[v].index = task[v].index
  BY <1>2 DEF Returns, SameCall
<1>4. CASE ReturnsAlone(t)
  <2>1. UNCHANGED stream /\ \A v \in Tasks : task'[v].latch = task[v].latch
    BY <1>4 DEF ReturnsAlone
  <2>2. \A v \in Tasks : LatchAsBefore(v)
    BY <1>3, <2>1 DEF LatchAsBefore, Awaits
  <2> QED
    BY <1>1, <2>1, <2>2, LatchKept
<1>5. ASSUME NEW k \in DOMAIN stream, NEW u \in Tasks, ReturnsTo(t, k, u) PROVE LatchInv'
  <2>1. /\ u = Head(stream[k].wire)
        /\ stream[k].wire # <<>>
        /\ DOMAIN stream' = DOMAIN stream
        /\ Others(k)
        /\ stream'[k].state = "up" /\ stream'[k].wire = Tail(stream[k].wire)
        /\ stream'[k].pending = stream[k].pending \ {u}
        /\ \A v \in Tasks : v # u => task'[v].latch = task[v].latch
        /\ task'[u].latch = task[u].latch - 1
    BY <1>5 DEF ReturnsTo
  <2>2. PICK w \in Seq(Tasks), P \in SUBSET Tasks :
          w = stream[k].wire /\ w # <<>> /\ P = stream[k].pending
    BY <1>1, <2>1 DEF RelayTypeOK, Stream
  <2>3. /\ \A i \in 1 .. Len(w) : w[i] \in P
        /\ \A v \in P : \E i \in 1 .. Len(w) : w[i] = v
        /\ \A i, j \in 1 .. Len(w) : w[i] = w[j] => i = j
    BY <2>2 DEF LatchInv, WireOK
  <2>4. PICK w2 : w2 = Tail(w)
    OBVIOUS
  <2>5. /\ Len(w2) \in Nat /\ Len(w2) + 1 = Len(w)
        /\ \A i \in 1 .. Len(w2) : w2[i] = w[i + 1] /\ i + 1 \in 1 .. Len(w)
        /\ u = w[1] /\ 1 \in 1 .. Len(w)
    BY <2>1, <2>2, <2>4, TailFacts
  <2>6. u \in P
    BY <2>3, <2>5
  <2>7. \A i \in 1 .. Len(w2) : w2[i] \in P \ {u}
    <3> TAKE i \in 1 .. Len(w2)
    <3>1. w2[i] = w[i + 1] /\ i + 1 \in 1 .. Len(w) /\ i + 1 # 1
      BY <2>5
    <3> QED
      BY <2>3, <2>5, <3>1
  <2>8. \A v \in P \ {u} : \E i \in 1 .. Len(w2) : w2[i] = v
    <3> TAKE v \in P \ {u}
    <3>1. PICK j \in 1 .. Len(w) : w[j] = v
      BY <2>3
    <3>2. j # 1
      BY <2>5, <3>1
    <3>3. PICK i \in 1 .. Len(w2) : j = i + 1
      <4>1. j - 1 \in 1 .. Len(w2) /\ j = (j - 1) + 1
        BY <2>5, <3>2
      <4> QED
        BY <4>1
    <3> QED
      BY <2>5, <3>1, <3>3
  <2>9. \A i, j \in 1 .. Len(w2) : w2[i] = w2[j] => i = j
    <3>1. ASSUME NEW i \in 1 .. Len(w2), NEW j \in 1 .. Len(w2), w2[i] = w2[j] PROVE i = j
      <4>1. /\ w[i + 1] = w[j + 1] /\ i + 1 \in 1 .. Len(w) /\ j + 1 \in 1 .. Len(w)
        BY <2>5, <3>1
      <4>2. i + 1 = j + 1
        BY <2>3, <4>1
      <4> QED
        BY <4>2
    <3> QED
      BY <3>1
  <2>10. WireOK(k)'
    <3>1. stream'[k].wire = w2 /\ stream'[k].pending = P \ {u} /\ stream'[k].state # "broken"
      BY <2>1, <2>2, <2>4
    <3> QED
      BY <2>7, <2>8, <2>9, <3>1 DEF WireOK
  <2>11. \A j \in DOMAIN stream' : WireOK(j)'
    BY <2>1, <2>10, OtherWires DEF LatchInv
  <2>12. ASSUME NEW v \in Tasks, v # u PROVE AwaitOK(v)' /\ (LatchOK(v) => LatchOK(v)')
    <3>1. Awaits(v)' = Awaits(v)
      <4>1. \A j : j # k => (j \in Awaits(v)' <=> j \in Awaits(v))
        BY <2>1 DEF Awaits, Others
      <4>2. k \in Awaits(v)' <=> k \in Awaits(v)
        BY <2>1, <2>12 DEF Awaits
      <4>3. \A j : j \in Awaits(v)' <=> j \in Awaits(v)
        BY <4>1, <4>2
      <4> QED
        BY <4>3
    <3>2. LatchAsBefore(v) /\ AwaitOK(v)
      BY <1>3, <2>1, <2>12, <3>1 DEF LatchAsBefore, LatchInv
    <3> QED
      BY <1>1, <3>2, SameLatch
  <2>13. Awaits(u)' = Awaits(u) \ {k} /\ k \in Awaits(u)
    <3>1. \A j : j # k => (j \in Awaits(u)' <=> j \in Awaits(u))
      BY <2>1 DEF Awaits, Others
    <3>2. k \notin Awaits(u)' /\ k \in Awaits(u)
      BY <2>1, <2>2, <2>6 DEF Awaits
    <3>3. \A j : j \in Awaits(u)' <=> j \in Awaits(u) \ {k}
      BY <3>1, <3>2
    <3> QED
      BY <3>2, <3>3
  <2>14. AwaitOK(u)'
    <3> SUFFICES ASSUME NEW j \in Awaits(u)'
                 PROVE  /\ task'[u].at \notin {"unused", "get"}
                        /\ \E q \in Procs : /\ j = <<task'[u].proc, q, task'[u].index>>
                                            /\ q \notin task'[u].todo
      BY DEF AwaitOK, StreamTo
    <3>1. j \in Awaits(u)
      BY <2>13
    <3>2. /\ task[u].at \notin {"unused", "get"}
          /\ \E q \in Procs : j = <<task[u].proc, q, task[u].index>> /\ q \notin task[u].todo
      BY <3>1 DEF LatchInv, AwaitOK, StreamTo
    <3> QED
      BY <1>3, <3>2
  <2>15. ASSUME LatchOK(u) PROVE LatchOK(u)'
    <3>1. PICK a \in Nat, b \in Nat, l \in Int :
            a = Cardinality(task[u].todo) /\ b = Cardinality(Awaits(u)) /\ l = task[u].latch
      BY <1>1, AwaitsFinite
    <3>2. IF calm THEN l = a + b ELSE l >= a + b
      BY <2>15, <3>1 DEF LatchOK
    <3>3. Cardinality(Awaits(u)') = b - 1
      <4>1. PICK A : A = Awaits(u)
        OBVIOUS
      <4>2. IsFiniteSet(A) /\ k \in A
        BY <1>1, <2>13, <4>1, AwaitsFinite
      <4>3. Cardinality(A \ {k}) = Cardinality(A) - 1
        BY <4>2, FS_RemoveElement
      <4> QED
        BY <2>13, <3>1, <4>1, <4>3
    <3>4. Cardinality(task'[u].todo) = a /\ task'[u].latch = l - 1
      BY <1>3, <2>1, <3>1
    <3>5. IF calm' THEN l - 1 = a + (b - 1) ELSE l - 1 >= a + (b - 1)
      <4>1. CASE calm
        <5>1. l - 1 = a + (b - 1) /\ l - 1 >= a + (b - 1)
          BY <3>2, <4>1
        <5> QED
          BY <5>1
      <4>2. CASE ~calm
        <5>1. l - 1 >= a + (b - 1) /\ ~calm'
          BY <3>2, <4>2
        <5> QED
          BY <5>1
      <4> QED
        BY <4>1, <4>2
    <3> QED
      BY <3>3, <3>4, <3>5 DEF LatchOK
  <2> QED
    BY <2>11, <2>12, <2>14, <2>15 DEF LatchInv
<1> QED
  BY <1>2, <1>4, <1>5

LEMMA LatchStep == RelayInv /\ LatchInv /\ [Next]_vars => LatchInv'
<1> SUFFICES ASSUME RelayInv, LatchInv, [Next]_vars PROVE LatchInv'
  OBVIOUS
<1> USE DEF RelayInv
<1>1. ASSUME UNCHANGED <<task, stream, calm>> PROVE LatchInv'
  <2>1. \A t \in Tasks : LatchAsBefore(t)
    BY <1>1 DEF LatchAsBefore, Awaits
  <2> QED
    BY <1>1, <2>1, LatchKept
<1>2. CASE UNCHANGED vars
  BY <1>1, <1>2 DEF vars, taskVars
<1>3. ASSUME NEW p \in Procs, NEW x \in Pods, Enqueue(p, x) PROVE LatchInv'
  BY <1>1, <1>3 DEF Enqueue
<1>4. ASSUME NEW t \in Tasks, TaskIs(t, task'[t]), task[t].at = "unused",
             task'[t].todo = {}, task'[t].latch = 0, UNCHANGED <<stream, calm>>
      PROVE  LatchInv'
  <2>1. TaskOK(t)
    OBVIOUS
  <2>2. task[t].todo = {} /\ task[t].latch = 0
    BY <1>4, <2>1 DEF TaskOK
  <2> QED
    BY <1>4, <2>2, LatchKeptByOne
<1>5. ASSUME NEW p \in Procs, NEW i \in 0 .. Runners - 1, NEW t \in Tasks, RunOne(p, i, t)
      PROVE  LatchInv'
  <2>1. /\ TaskIs(t, task'[t]) /\ task[t].at = "unused"
        /\ task'[t].todo = {} /\ task'[t].latch = 0 /\ UNCHANGED <<stream, calm>>
    BY <1>5, RunOneFacts
  <2> QED
    BY <1>4, <2>1
<1>6. ASSUME NEW k \in DOMAIN stream, NEW t \in Tasks, ReceivePod(k, t) PROVE LatchInv'
  <2>1. /\ TaskIs(t, task'[t]) /\ task[t].at = "unused"
        /\ task'[t].todo = {} /\ task'[t].latch = 0 /\ UNCHANGED <<stream, calm>>
    BY <1>6, ReceivePodFacts
  <2> QED
    BY <1>4, <2>1
<1>7. ASSUME NEW t \in Tasks, SkipScheduling(t) \/ PushScheduler(t) PROVE LatchInv'
  <2>1. task' = [task EXCEPT ![t].at = "wait"] /\ UNCHANGED <<stream, calm>>
    BY <1>7 DEF SkipScheduling, PushScheduler
  <2>2. /\ TaskIs(t, task'[t]) /\ task'[t].at = "wait" /\ SameCall(task'[t], task[t])
        /\ task'[t].todo = task[t].todo /\ task'[t].latch = task[t].latch
    BY <2>1, StageFacts
  <2> QED
    BY <2>1, <2>2, LatchKeptByOne
<1>8. ASSUME NEW t \in Tasks, PopScheduler(t) PROVE LatchInv'
  <2>1. /\ TaskIs(t, task'[t]) /\ task'[t].at = "schedule" /\ SameCall(task'[t], task[t])
        /\ task'[t].todo = task[t].todo /\ task'[t].latch = task[t].latch
        /\ UNCHANGED <<stream, calm>>
    BY <1>8, PopSchedulerFacts
  <2> QED
    BY <2>1, LatchKeptByOne
<1>9. ASSUME NEW t \in Tasks, ScheduleStep(t) PROVE LatchInv'
  <2>1. /\ \E a \in {"cycle", "done"} : task' = [task EXCEPT ![t].one = a]
        /\ UNCHANGED <<stream, calm>>
    BY <1>9 DEF ScheduleStep, NextPod, SchedulerDone
  <2>2. /\ TaskIs(t, task'[t]) /\ task'[t].at = task[t].at /\ SameCall(task'[t], task[t])
        /\ task'[t].todo = task[t].todo /\ task'[t].latch = task[t].latch
    BY <2>1, OneFacts
  <2> QED
    BY <2>1, <2>2, LatchKeptByOne
<1>10. ASSUME NEW t \in Tasks, WaitDone(t) \/ WaitTimeout(t) PROVE LatchInv'
  <2>1. task[t].at = "wait" /\ Return(t) /\ (calm' => calm)
    BY <1>10 DEF WaitDone, WaitTimeout
  <2> QED
    BY <2>1, ReturnLatch
<1>11. ASSUME NEW t \in Tasks, RelayFails(t) PROVE LatchInv'
  <2>1. /\ TaskIs(t, task'[t]) /\ task[t].at = "get" /\ ~calm' /\ UNCHANGED stream
        /\ task'[t].todo = task[t].todo /\ task'[t].latch = task[t].latch
    BY <1>11, RelayFailsFacts
  <2> QED
    BY <2>1, LatchKeptByOne
<1> HIDE DEF RelayInv
<1> QED
  BY <1>2, <1>3, <1>5, <1>6, <1>7, <1>8, <1>9, <1>10, <1>11,
     RelayPodLatch, SendPodLatch, SendFailsLatch, StreamBreaksLatch DEF Next, TaskStep, SendStep

LEMMA LatchesCorrect == Spec => []LatchInv
<1>1. Init => LatchInv
  <2> SUFFICES ASSUME Init PROVE LatchInv
    OBVIOUS
  <2>1. DOMAIN stream = {}
    BY DEF Init
  <2>2. \A t \in Tasks : task[t].todo = {} /\ task[t].latch = 0 /\ Awaits(t) = {}
    BY <2>1 DEF Init, Unused, Awaits
  <2>3. \A t \in Tasks : Cardinality(task[t].todo) = 0 /\ Cardinality(Awaits(t)) = 0
    BY <2>2, FS_EmptySet, Zenon
  <2>4. \A t \in Tasks : AwaitOK(t)
    BY <2>2 DEF AwaitOK
  <2>5. \A t \in Tasks : LatchOK(t)
    BY <2>2, <2>3 DEF LatchOK
  <2> QED
    BY <2>1, <2>4, <2>5 DEF LatchInv
<1> QED
  BY <1>1, LatchStep, CallsServeStreams, PTL DEF Spec

(***************************************************************************)
(* The WaitGroup of RelayPod counts the sub-members that have yet to be    *)
(* sent to or to answer, through failed sends, broken streams, answers     *)
(* that come late and calls that stopped waiting: a Done too many, which   *)
(* would panic, is impossible.                                             *)
(***************************************************************************)
THEOREM LatchIsExact == Spec => []LatchCounts
<1>1. LatchInv => LatchCounts
  BY DEF LatchInv, LatchOK, LatchCounts, Awaits
<1> QED
  BY <1>1, LatchesCorrect, PTL

-------------------------------------------------------------------------------
(***************************************************************************)
(* The fifth layer: what the processes know of each other stays as it is,  *)
(* and a pod is in one queue, once, or with calls.                         *)
(***************************************************************************)
Sub(p) == SubMembersOf(leader[p], Members0, p)

ViewsFixed ==
  /\ leader \in [Procs -> Members0 \union {NoLeader}]
  /\ slices = <<Members0>>
  /\ \A p \in Procs : cached[p] = 1 /\ (dirty[p] \/ subMembers[p] = Sub(p))

Used(t) == task[t].at # "unused"

QueueOK ==
  /\ \A p \in Procs : \A i \in 1 .. Len(queue[p]) : queue[p][i] \in enqueued /\ leader[p] = p
  /\ \A p, q \in Procs : \A i \in 1 .. Len(queue[p]), j \in 1 .. Len(queue[q]) :
       queue[p][i] = queue[q][j] => p = q /\ i = j
  /\ \A t \in Tasks : Used(t) =>
       /\ task[t].pod \in enqueued
       /\ \A p \in Procs : \A i \in 1 .. Len(queue[p]) : queue[p][i] # task[t].pod

(* A call for a pod from the queue is the leader's. *)
RootOK ==
  \A t \in Tasks :
    /\ ~Used(t) => task[t].pod = None
    /\ Used(t) /\ task[t].from = None => leader[task[t].proc] = task[t].proc

PlaceInv == ViewsFixed /\ QueueOK /\ RootOK

(* GetSubMembers computes what it would compute at any time. *)
LEMMA GetSubMembersViews ==
  ASSUME SetInv, ViewsFixed, NEW p \in Procs, GetSubMembers(p)
  PROVE  ViewsFixed' /\ subMembers'[p] = Sub(p) /\ leader' = leader
<1>1. UNCHANGED <<leader, slices, cached>>
  BY DEF GetSubMembers
<1>2. PICK S : S = SubMembersOf(leader[p], Members0, p)
  OBVIOUS
<1>3. slices[cached[p]] = Members0
  BY DEF ViewsFixed
<1>4. CASE dirty[p]
  <2>1. subMembers' = [subMembers EXCEPT ![p] = S]
    BY <1>2, <1>3, <1>4 DEF GetSubMembers
  <2>2. dirty' = [dirty EXCEPT ![p] = FALSE]
    BY DEF GetSubMembers
  <2> QED
    BY <1>1, <1>2, <2>1, <2>2 DEF ViewsFixed, Sub, SetInv, SetTypeOK
<1>5. CASE ~dirty[p]
  <2>1. subMembers' = subMembers /\ dirty' = [dirty EXCEPT ![p] = FALSE]
    BY <1>5 DEF GetSubMembers
  <2> QED
    BY <1>1, <1>5, <2>1 DEF ViewsFixed, Sub, SetInv, SetTypeOK
<1> QED
  BY <1>4, <1>5

LEMMA ViewsKept ==
  ASSUME ViewsFixed, UNCHANGED setVars
  PROVE  ViewsFixed'
BY DEF ViewsFixed, Sub, setVars

(* A call that is not new is for the same pod and of the same process. *)
PlaceAsBefore(t) ==
  /\ Used(t)' <=> Used(t)
  /\ task'[t].pod = task[t].pod /\ task'[t].proc = task[t].proc
  /\ task'[t].from = None => task[t].from = None

LEMMA PlaceKept ==
  ASSUME PlaceInv, ViewsFixed', UNCHANGED <<queue, enqueued, leader>>,
         \A t \in Tasks : PlaceAsBefore(t)
  PROVE  PlaceInv'
<1>1. QueueOK'
  BY DEF PlaceInv, QueueOK, PlaceAsBefore
<1>2. RootOK'
  BY DEF PlaceInv, RootOK, PlaceAsBefore
<1> QED
  BY <1>1, <1>2 DEF PlaceInv

LEMMA EnqueuePlace ==
  ASSUME RelayInv, PlaceInv, NEW p \in Procs, NEW x \in Pods, Enqueue(p, x)
  PROVE  PlaceInv'
<1> USE DEF PlaceInv
<1>1. /\ leader[p] = p /\ x \notin enqueued /\ enqueued' = enqueued \union {x}
      /\ UNCHANGED <<setVars, task>>
  BY DEF Enqueue
<1>2. ViewsFixed' /\ leader' = leader
  BY <1>1, ViewsKept DEF setVars
<1>3. PICK w \in Seq(Pods) : w = queue[p]
  BY DEF RelayInv, RelayTypeOK, RestTypeOK
<1>4. PICK v : v = Append(w, x)
  OBVIOUS
<1>5. queue' = [queue EXCEPT ![p] = v] /\ queue \in [Procs -> Seq(Pods)]
  BY <1>3, <1>4 DEF Enqueue, RelayInv, RelayTypeOK, RestTypeOK
<1>6. queue'[p] = v /\ \A q \in Procs : q # p => queue'[q] = queue[q]
  BY <1>5
<1>7. /\ Len(v) = Len(w) + 1 /\ Len(w) \in Nat /\ v[Len(w) + 1] = x
      /\ \A i \in 1 .. Len(w) : v[i] = w[i]
  BY <1>4, AppendFacts
<1>8. ASSUME NEW q \in Procs, NEW i \in 1 .. Len(queue'[q])
      PROVE  \/ i \in 1 .. Len(queue[q]) /\ queue'[q][i] = queue[q][i]
             \/ q = p /\ i = Len(w) + 1 /\ queue'[q][i] = x
  <2>1. CASE q # p
    BY <1>6, <2>1
  <2>2. CASE q = p
    <3>1. i \in 1 .. Len(v) /\ queue'[q] = v /\ queue[q] = w
      BY <1>3, <1>6, <1>8, <2>2
    <3>2. CASE i = Len(w) + 1
      BY <1>7, <2>2, <3>1, <3>2
    <3>3. CASE i # Len(w) + 1
      <4>1. i \in 1 .. Len(w)
        BY <1>7, <3>1, <3>3
      <4> QED
        BY <1>7, <3>1, <4>1
    <3> QED
      BY <3>2, <3>3
  <2> QED
    BY <2>1, <2>2
<1>9. \A q \in Procs : \A i \in 1 .. Len(queue[q]) : queue[q][i] # x
  BY <1>1 DEF QueueOK
<1>distinct. \A a, b \in Procs : \A m \in 1 .. Len(queue[a]), n \in 1 .. Len(queue[b]) :
         queue[a][m] = queue[b][n] => a = b /\ m = n
  BY DEF QueueOK
<1>10. ASSUME NEW q \in Procs, NEW r \in Procs,
              NEW i \in 1 .. Len(queue'[q]), NEW j \in 1 .. Len(queue'[r]),
              queue'[q][i] = queue'[r][j]
       PROVE  q = r /\ i = j
  <2>1. CASE i \in 1 .. Len(queue[q]) /\ queue'[q][i] = queue[q][i]
    <3>1. queue'[r][j] # x
      BY <1>9, <1>10, <2>1
    <3>2. j \in 1 .. Len(queue[r]) /\ queue'[r][j] = queue[r][j]
      BY <1>8, <3>1
    <3> QED
      <4>1. queue[q][i] = queue[r][j]
        BY <1>10, <2>1, <3>2
      <4> QED
        BY <1>distinct, <2>1, <3>2, <4>1
  <2>2. CASE q = p /\ i = Len(w) + 1 /\ queue'[q][i] = x
    <3>1. ~(j \in 1 .. Len(queue[r]) /\ queue'[r][j] = queue[r][j])
      BY <1>9, <1>10, <2>2
    <3>2. r = p /\ j = Len(w) + 1
      BY <1>8, <3>1
    <3> QED
      BY <2>2, <3>2
  <2> QED
    BY <1>8, <2>1, <2>2
<1>11. ASSUME NEW q \in Procs, NEW i \in 1 .. Len(queue'[q])
       PROVE  queue'[q][i] \in enqueued' /\ leader'[q] = q
  BY <1>1, <1>2, <1>8 DEF QueueOK
<1>12. ASSUME NEW t \in Tasks, Used(t)
       PROVE  /\ task[t].pod \in enqueued'
              /\ \A q \in Procs : \A i \in 1 .. Len(queue'[q]) : queue'[q][i] # task[t].pod
  <2>1. task[t].pod \in enqueued /\ task[t].pod # x
    BY <1>1, <1>12 DEF QueueOK
  <2> QED
    BY <1>1, <1>8, <1>12, <2>1 DEF QueueOK
<1>13. QueueOK'
  BY <1>1, <1>10, <1>11, <1>12 DEF QueueOK, Used
<1>14. RootOK'
  BY <1>1, <1>2 DEF RootOK, Used
<1> QED
  BY <1>2, <1>13, <1>14

(* The pod that RunOne takes. *)
LEMMA RunOneQueue ==
  ASSUME RelayTypeOK, NEW p \in Procs, NEW i \in 0 .. Runners - 1, NEW t \in Tasks, RunOne(p, i, t)
  PROVE  /\ 1 \in 1 .. Len(queue[p]) /\ task'[t].pod = queue[p][1]
         /\ \A q \in Procs : \A n \in 1 .. Len(queue'[q]) :
              \E m \in 1 .. Len(queue[q]) : /\ queue'[q][n] = queue[q][m]
                                            /\ IF q = p THEN m = n + 1 ELSE m = n
         /\ enqueued' = enqueued
<1> USE DEF RelayTypeOK, RestTypeOK
<1>1. PICK w \in Seq(Pods) : w = queue[p] /\ w # <<>>
  BY DEF RunOne
<1>2. PICK v : v = Tail(w)
  OBVIOUS
<1>3. /\ v \in Seq(Pods) /\ Len(v) \in Nat /\ Len(v) + 1 = Len(w)
      /\ \A n \in 1 .. Len(v) : v[n] = w[n + 1] /\ n + 1 \in 1 .. Len(w)
      /\ Head(w) = w[1] /\ 1 \in 1 .. Len(w) /\ Head(w) \in Pods
  BY <1>1, <1>2, TailFacts
<1>4. PICK x \in Pods : x = Head(w)
  BY <1>3
<1>5. task' = [task EXCEPT ![t] = Called(p, x, None, i)]
  BY <1>1, <1>4, Zenon DEF RunOne
<1>6. task'[t].pod = x
  BY <1>5 DEF Called
<1>7. queue' = [queue EXCEPT ![p] = v] /\ enqueued' = enqueued
  BY <1>1, <1>2 DEF RunOne
<1>8. ASSUME NEW q \in Procs, NEW n \in 1 .. Len(queue'[q])
      PROVE  \E m \in 1 .. Len(queue[q]) : /\ queue'[q][n] = queue[q][m]
                                           /\ IF q = p THEN m = n + 1 ELSE m = n
  <2>1. CASE q = p
    <3>1. queue'[q] = v /\ queue[q] = w
      BY <1>1, <1>7, <2>1
    <3> QED
      BY <1>3, <2>1, <3>1
  <2>2. CASE q # p
    BY <1>7, <2>2
  <2> QED
    BY <2>1, <2>2
<1> QED
  BY <1>1, <1>3, <1>4, <1>6, <1>7, <1>8

LEMMA RunOnePlace ==
  ASSUME RelayInv, PlaceInv,
         NEW p \in Procs, NEW i \in 0 .. Runners - 1, NEW t \in Tasks, RunOne(p, i, t)
  PROVE  PlaceInv'
<1> USE DEF PlaceInv
<1>1. RelayTypeOK
  BY DEF RelayInv
<1>2. /\ TaskIs(t, task'[t])
      /\ task[t].at = "unused"
      /\ task'[t].at = "get" /\ task'[t].proc = p /\ task'[t].from = None
      /\ UNCHANGED setVars
  BY <1>1, RunOneFacts
<1>3. PICK x : x = task'[t].pod
  OBVIOUS
<1>4. /\ 1 \in 1 .. Len(queue[p]) /\ x = queue[p][1]
      /\ enqueued' = enqueued
  BY <1>1, <1>3, RunOneQueue
<1>5. ASSUME NEW q \in Procs, NEW n \in 1 .. Len(queue'[q])
      PROVE  \E m \in 1 .. Len(queue[q]) : /\ queue'[q][n] = queue[q][m]
                                           /\ IF q = p THEN m = n + 1 ELSE m = n
  BY <1>1, <1>5, RunOneQueue
<1>6. ViewsFixed' /\ leader' = leader
  BY <1>2, ViewsKept DEF setVars
<1>7. \A u \in Tasks : u # t => task'[u] = task[u]
  BY <1>2 DEF TaskIs
<1>8. \A q \in Procs : \A n \in 1 .. Len(queue'[q]) : queue'[q][n] \in enqueued' /\ leader'[q] = q
  <2> TAKE q \in Procs
  <2> TAKE n \in 1 .. Len(queue'[q])
  <2>1. PICK m \in 1 .. Len(queue[q]) : queue'[q][n] = queue[q][m]
    BY <1>5
  <2>2. queue[q][m] \in enqueued /\ leader[q] = q
    BY DEF QueueOK
  <2> QED
    BY <1>4, <1>6, <2>1, <2>2
<1>distinct. \A a, b \in Procs : \A m \in 1 .. Len(queue[a]), n \in 1 .. Len(queue[b]) :
         queue[a][m] = queue[b][n] => a = b /\ m = n
  BY DEF QueueOK
<1>9. ASSUME NEW q \in Procs, NEW r \in Procs,
             NEW n \in 1 .. Len(queue'[q]), NEW j \in 1 .. Len(queue'[r]),
             queue'[q][n] = queue'[r][j]
      PROVE  q = r /\ n = j
  <2>1. PICK m \in 1 .. Len(queue[q]) : /\ queue'[q][n] = queue[q][m]
                                        /\ IF q = p THEN m = n + 1 ELSE m = n
    BY <1>5
  <2>2. PICK k \in 1 .. Len(queue[r]) : /\ queue'[r][j] = queue[r][k]
                                        /\ IF r = p THEN k = j + 1 ELSE k = j
    BY <1>5
  <2>3. q = r /\ m = k
    <3>1. queue[q][m] = queue[r][k]
      BY <1>9, <2>1, <2>2
    <3> QED
      BY <1>distinct, <3>1
  <2>4. n \in Int /\ j \in Int
    OBVIOUS
  <2> QED
    BY <2>1, <2>2, <2>3, <2>4
<1>10. ASSUME NEW q \in Procs, NEW n \in 1 .. Len(queue'[q]) PROVE queue'[q][n] # x
  <2>1. PICK m \in 1 .. Len(queue[q]) : /\ queue'[q][n] = queue[q][m]
                                        /\ IF q = p THEN m = n + 1 ELSE m = n
    BY <1>5
  <2>2. queue[q][m] = queue[p][1] => q = p /\ m = 1
    BY <1>4 DEF QueueOK
  <2>3. n \in Int /\ n >= 1
    OBVIOUS
  <2> QED
    BY <1>4, <2>1, <2>2, <2>3
<1>11. ASSUME NEW u \in Tasks, Used(u)'
       PROVE  /\ task'[u].pod \in enqueued'
              /\ \A q \in Procs : \A n \in 1 .. Len(queue'[q]) : queue'[q][n] # task'[u].pod
  <2>1. CASE u = t
    <3>1. x \in enqueued
      BY <1>4 DEF QueueOK
    <3> QED
      BY <1>3, <1>4, <1>10, <2>1, <3>1
  <2>2. CASE u # t
    <3>1. Used(u) /\ task'[u] = task[u]
      BY <1>7, <1>11, <2>2 DEF Used
    <3> QED
      BY <1>4, <1>5, <3>1 DEF QueueOK
  <2> QED
    BY <2>1, <2>2
<1>12. QueueOK'
  BY <1>8, <1>9, <1>11 DEF QueueOK
<1>13. RootOK'
  <2>1. leader[p] = p
    BY <1>4 DEF QueueOK
  <2> QED
    BY <1>2, <1>6, <1>7, <2>1 DEF RootOK, Used
<1> QED
  BY <1>6, <1>12, <1>13

(* The call that sent the message ReceivePod takes, and its pod. *)
LEMMA ReceivePodSender ==
  ASSUME RelayInv, NEW k \in DOMAIN stream, NEW t \in Tasks, ReceivePod(k, t)
  PROVE  \E u \in Tasks : /\ u = Head(stream[k].wire)
                          /\ 1 \in 1 .. Len(stream[k].wire) /\ u = stream[k].wire[1]
                          /\ task[u].at \notin {"unused", "get"}
                          /\ task'[t].pod = task[u].pod
<1> USE DEF RelayInv, RelayTypeOK, RestTypeOK
<1>1. PICK w \in Seq(Tasks) : w = stream[k].wire /\ w # <<>>
  BY DEF Stream, ReceivePod
<1>2. PICK u \in Tasks : u = Head(w) /\ 1 \in 1 .. Len(w) /\ u = w[1]
  BY <1>1, TailFacts
<1>3. task[u].at \notin {"unused", "get"}
  BY <1>1, <1>2 DEF StreamOK
<1>4. PICK p, i : p = k[2] /\ i = Got(p)
  OBVIOUS
<1>5. task' = [task EXCEPT ![t] = Called(p, task[u].pod, k, i)]
  BY <1>1, <1>2, <1>4, Zenon DEF ReceivePod
<1>6. task'[t].pod = task[u].pod
  BY <1>5 DEF Called
<1> QED
  BY <1>1, <1>2, <1>3, <1>6

LEMMA ReceivePodPlace ==
  ASSUME RelayInv, PlaceInv, NEW k \in DOMAIN stream, NEW t \in Tasks, ReceivePod(k, t)
  PROVE  PlaceInv'
<1> USE DEF PlaceInv
<1>1. /\ TaskIs(t, task'[t])
      /\ task[t].at = "unused" /\ task'[t].at = "get" /\ task'[t].from = k
      /\ UNCHANGED <<setVars, queue>>
  BY ReceivePodFacts DEF RelayInv
<1>2. enqueued' = enqueued
  BY DEF ReceivePod
<1>3. ViewsFixed' /\ leader' = leader
  BY <1>1, ViewsKept DEF setVars
<1>4. PICK u \in Tasks : Used(u) /\ task'[t].pod = task[u].pod
  BY ReceivePodSender DEF Used
<1>5. \A v \in Tasks : v # t => task'[v] = task[v]
  BY <1>1 DEF TaskIs
<1>6. k # None
  BY OrphanFacts DEF RelayInv, RelayTypeOK
<1>7. ASSUME NEW v \in Tasks, Used(v)'
      PROVE  /\ task'[v].pod \in enqueued
             /\ \A p \in Procs : \A i \in 1 .. Len(queue[p]) : queue[p][i] # task'[v].pod
  <2>1. PICK o \in Tasks : Used(o) /\ task'[v].pod = task[o].pod
    BY <1>4, <1>5, <1>7 DEF Used
  <2> QED
    BY <2>1 DEF QueueOK
<1>8. QueueOK'
  BY <1>1, <1>2, <1>3, <1>7 DEF QueueOK
<1>9. RootOK'
  BY <1>1, <1>3, <1>5, <1>6 DEF RootOK, Used
<1> QED
  BY <1>3, <1>8, <1>9

LEMMA PlaceStep == RelayInv /\ PlaceInv /\ [Next]_vars => PlaceInv'
<1> SUFFICES ASSUME RelayInv, PlaceInv, [Next]_vars PROVE PlaceInv'
  OBVIOUS
<1>0. RelayTypeOK /\ SetInv /\ ServesOK /\ ViewsFixed /\ \A t \in Tasks : TaskOK(t)
  BY DEF RelayInv, PlaceInv
<1>1. ASSUME UNCHANGED <<setVars, queue, enqueued>>, \A t \in Tasks : PlaceAsBefore(t)
      PROVE  PlaceInv'
  <2>1. ViewsFixed' /\ leader' = leader
    BY <1>0, <1>1, ViewsKept DEF setVars
  <2> QED
    BY <1>1, <2>1, PlaceKept
<1>2. CASE UNCHANGED vars
  <2>1. UNCHANGED <<setVars, queue, enqueued, task>>
    BY <1>2 DEF vars, taskVars
  <2>2. \A t \in Tasks : PlaceAsBefore(t)
    BY <2>1 DEF PlaceAsBefore, Used
  <2> QED
    BY <1>1, <2>1, <2>2
<1>3. ASSUME NEW t \in Tasks, TaskIs(t, task'[t]), task[t].at # "unused", task'[t].at # "unused",
             SameCall(task'[t], task[t])
      PROVE  \A u \in Tasks : PlaceAsBefore(u)
  BY <1>3 DEF TaskIs, SameCall, PlaceAsBefore, Used
<1>4. ASSUME NEW t \in Tasks, RelayPod(t) PROVE PlaceInv'
  <2>1. /\ TaskIs(t, task'[t]) /\ task[t].at = "get" /\ task'[t].at # "unused"
        /\ SameCall(task'[t], task[t]) /\ UNCHANGED queue
    BY <1>0, <1>4, RelayPodFacts
  <2>2. enqueued' = enqueued /\ GetSubMembers(task[t].proc)
    BY <1>4 DEF RelayPod
  <2>3. ViewsFixed' /\ leader' = leader
    BY <1>0, <2>1, <2>2, GetSubMembersViews DEF TaskOK
  <2> QED
    BY <1>3, <2>1, <2>2, <2>3, PlaceKept
<1>5. ASSUME NEW t \in Tasks, NEW q \in Procs, SendPod(t, q) \/ SendFails(t, q) PROVE PlaceInv'
  <2>1. PICK d \in Nat : Sent(t, q, d)
    BY <1>5 DEF SendPod, SendFails
  <2>2. task[t].at = "send" /\ UNCHANGED <<setVars, queue, enqueued>>
    BY <1>5 DEF SendPod, SendFails
  <2>3. TaskIs(t, task'[t]) /\ task'[t].at \in {"pop", "send"} /\ SameCall(task'[t], task[t])
    BY <1>0, <2>1, SentFacts
  <2> QED
    BY <1>1, <1>3, <2>2, <2>3
<1>6. ASSUME NEW k \in DOMAIN stream, StreamBreaks(k) PROVE PlaceInv'
  <2>1. /\ task' = [t \in Tasks |-> IF task[t].from = k THEN [task[t] EXCEPT !.from = Orphan]
                                                        ELSE task[t]]
        /\ UNCHANGED <<setVars, queue, enqueued>>
    BY <1>6 DEF StreamBreaks
  <2>2. \A t \in Tasks : PlaceAsBefore(t)
    <3> TAKE t \in Tasks
    <3>1. PICK o \in Task : o = task[t]
      BY <1>0 DEF RelayTypeOK
    <3>2. task'[t] = IF o.from = k THEN [o EXCEPT !.from = Orphan] ELSE o
      BY <2>1, <3>1
    <3> QED
      BY <3>1, <3>2, OrphanFacts DEF PlaceAsBefore, Used, Task
  <2> QED
    BY <1>1, <2>1, <2>2
<1>7. ASSUME NEW t \in Tasks, SkipScheduling(t) \/ PushScheduler(t) PROVE PlaceInv'
  <2>1. /\ task' = [task EXCEPT ![t].at = "wait"] /\ task[t].at # "unused"
        /\ UNCHANGED <<setVars, queue, enqueued>>
    BY <1>7 DEF SkipScheduling, PushScheduler
  <2>2. TaskIs(t, task'[t]) /\ task'[t].at = "wait" /\ SameCall(task'[t], task[t])
    BY <1>0, <2>1, StageFacts
  <2> QED
    BY <1>1, <1>3, <2>1, <2>2
<1>8. ASSUME NEW t \in Tasks, PopScheduler(t) PROVE PlaceInv'
  <2>1. /\ TaskIs(t, task'[t]) /\ task[t].at = "pop" /\ task'[t].at = "schedule"
        /\ SameCall(task'[t], task[t]) /\ UNCHANGED <<setVars, queue>>
    BY <1>0, <1>8, PopSchedulerFacts
  <2>2. enqueued' = enqueued
    BY <1>8 DEF PopScheduler
  <2> QED
    BY <1>1, <1>3, <2>1, <2>2
<1>9. ASSUME NEW t \in Tasks, ScheduleStep(t) PROVE PlaceInv'
  <2>1. /\ \E a \in {"cycle", "done"} : task' = [task EXCEPT ![t].one = a]
        /\ UNCHANGED <<setVars, queue, enqueued>> /\ task[t].one \in {"next", "cycle"}
    BY <1>9 DEF ScheduleStep, NextPod, SchedulerDone
  <2>2. TaskIs(t, task'[t]) /\ task'[t].at = task[t].at /\ SameCall(task'[t], task[t])
    BY <1>0, <2>1, OneFacts
  <2>3. task[t].at # "unused"
    BY <1>0, <2>1 DEF TaskOK
  <2> QED
    BY <1>1, <1>3, <2>1, <2>2, <2>3
<1>10. ASSUME NEW t \in Tasks, WaitDone(t) \/ WaitTimeout(t) PROVE PlaceInv'
  <2>1. task[t].at = "wait" /\ Return(t) /\ enqueued' = enqueued
    BY <1>10 DEF WaitDone, WaitTimeout, Return, Freed
  <2>2. Returns(t)
    BY <1>0, <2>1, ReturnFacts
  <2>3. UNCHANGED <<setVars, queue>> /\ \A v \in Tasks : PlaceAsBefore(v)
    BY <2>1, <2>2 DEF Returns, SameCall, PlaceAsBefore, Used
  <2> QED
    BY <1>1, <2>1, <2>3
<1>11. ASSUME NEW t \in Tasks, RelayFails(t) PROVE PlaceInv'
  <2>1. /\ TaskIs(t, task'[t]) /\ task[t].at = "get" /\ task'[t].at # "unused"
        /\ SameCall(task'[t], task[t]) /\ UNCHANGED <<queue, enqueued>>
    BY <1>0, <1>11, RelayFailsFacts
  <2>2. GetSubMembers(task[t].proc)
    BY <1>11 DEF RelayFails
  <2>3. ViewsFixed' /\ leader' = leader
    BY <1>0, <2>1, <2>2, GetSubMembersViews DEF TaskOK
  <2> QED
    BY <1>3, <2>1, <2>3, PlaceKept
<1> QED
  BY <1>2, <1>4, <1>5, <1>6, <1>7, <1>8, <1>9, <1>10, <1>11, EnqueuePlace, RunOnePlace,
     ReceivePodPlace DEF Next, TaskStep, SendStep

LEMMA PlacesCorrect == Spec => []PlaceInv
<1>1. Init => PlaceInv
  <2> SUFFICES ASSUME Init PROVE PlaceInv
    OBVIOUS
  <2>1. ViewsFixed
    BY ViewsAssumption DEF Init, ViewInit, ViewsFixed
  <2>2. /\ \A p \in Procs : Len(queue[p]) = 0
        /\ \A t \in Tasks : ~Used(t) /\ task[t].pod = None
    BY DEF Init, Unused, Used
  <2> QED
    BY <2>1, <2>2 DEF PlaceInv, QueueOK, RootOK
<1> QED
  BY <1>1, PlaceStep, CallsServeStreams, PTL DEF Spec

-------------------------------------------------------------------------------
(***************************************************************************)
(* The sixth layer: while the processes agree on the leader and nothing    *)
(* has failed, a pod goes down the tree.                                   *)
(***************************************************************************)
Asked(t) == task[t].at \notin {"unused", "get"}   \* it knows its sub-members
Agree == \A p, q \in Procs : leader[p] = leader[q] /\ leader[p] \in Members0

(* The call t was made for a message of the call u, which t has not        *)
(* answered as long as it is at the head of the wire.                      *)
SentBy(t, u) ==
  LET k == task[t].from
      q == task[t].proc
  IN  /\ Asked(u) /\ task[u].pod = task[t].pod
      /\ k = StreamTo(u, q) /\ q \in Sub(task[u].proc) /\ q \notin task[u].todo
      /\ Active(t) => Head(stream[k].wire) = u
      /\ ~Active(t) => u \notin stream[k].pending

SentOK ==
  \A t \in Tasks : Used(t) /\ task[t].from # None =>
    task[t].from \in DOMAIN stream /\ \E u \in Tasks : SentBy(t, u)

TodoOK == \A t \in Tasks : task[t].todo \subseteq Sub(task[t].proc)
AwaitSub == \A k \in DOMAIN stream : stream[k].pending # {} => k[2] \in Sub(k[1])

(* No process has two calls for a pod. *)
Once ==
  \A t, u \in Tasks :
    Used(t) /\ Used(u) /\ task[t].proc = task[u].proc /\ task[t].pod = task[u].pod => t = u

(* A sub-member has yet to be sent to, or to answer, or has scheduled the pod. *)
Finished(q, x) == \E v \in Tasks : task[v].proc = q /\ task[v].pod = x /\ task[v].at = "done"
Covered ==
  \A u \in Tasks : Asked(u) =>
    \A q \in Sub(task[u].proc) :
      q \in task[u].todo \/ StreamTo(u, q) \in Awaits(u) \/ Finished(q, task[u].pod)

(* A call that has returned waits for no answer. *)
Quiet == WaitPercent > 99 => \A t \in Tasks : task[t].at = "done" => Awaits(t) = {}

TreeInv == Agree /\ SentOK /\ TodoOK /\ AwaitSub /\ Once /\ Covered /\ Quiet
VisitInv == calm => TreeInv

(* A call is as far as it was, as far as its sub-members can tell. *)
VisitAsBefore(t) ==
  /\ SameCall(task'[t], task[t]) /\ task'[t].todo = task[t].todo
  /\ Used(t)' <=> Used(t)
  /\ Asked(t)' <=> Asked(t)
  /\ task'[t].at = "done" <=> task[t].at = "done"

LEMMA VisitKept ==
  ASSUME TreeInv, UNCHANGED <<stream, leader>>, \A t \in Tasks : VisitAsBefore(t)
  PROVE  TreeInv'
<1> USE DEF TreeInv
<1>1. ASSUME NEW t \in Tasks
      PROVE  /\ task'[t].proc = task[t].proc /\ task'[t].pod = task[t].pod
             /\ task'[t].from = task[t].from /\ task'[t].index = task[t].index
             /\ task'[t].todo = task[t].todo
             /\ Used(t)' <=> Used(t)
             /\ Asked(t)' <=> Asked(t)
             /\ task'[t].at = "done" <=> task[t].at = "done"
             /\ Active(t)' <=> Active(t)
             /\ Awaits(t)' = Awaits(t)
  BY DEF VisitAsBefore, SameCall, Active, Used, Awaits
<1>2. \A p : Sub(p)' = Sub(p)
  BY DEF Sub
<1>3. Agree' /\ TodoOK' /\ AwaitSub'
  BY <1>1, <1>2 DEF Agree, TodoOK, AwaitSub
<1>4. Once'
  BY <1>1 DEF Once
<1>5. \A t, u \in Tasks : SentBy(t, u) => SentBy(t, u)'
  BY <1>1, <1>2 DEF SentBy, StreamTo
<1>6. SentOK'
  BY <1>1, <1>5 DEF SentOK
<1>7. \A q, x : Finished(q, x) => Finished(q, x)'
  BY <1>1 DEF Finished
<1>8. Covered'
  <2>1. ASSUME NEW u \in Tasks, Asked(u)', NEW q \in Sub(task[u].proc)
        PROVE  \/ q \in task'[u].todo \/ StreamTo(u, q)' \in Awaits(u)'
               \/ \E v \in Tasks : /\ task'[v].proc = q /\ task'[v].pod = task'[u].pod
                                   /\ task'[v].at = "done"
    <3>1. StreamTo(u, q)' = StreamTo(u, q)
      BY <1>1 DEF StreamTo
    <3>2. q \in task[u].todo \/ StreamTo(u, q) \in Awaits(u) \/ Finished(q, task[u].pod)
      BY <1>1, <2>1 DEF Covered
    <3>3. CASE Finished(q, task[u].pod)
      BY <1>1, <3>3 DEF Finished
    <3> QED
      BY <1>1, <3>1, <3>2, <3>3
  <2> QED
    BY <1>1, <1>2, <2>1 DEF Covered, Finished
<1>9. Quiet'
  BY <1>1 DEF Quiet
<1> QED
  BY <1>3, <1>4, <1>6, <1>8, <1>9

(* What Covered says after a step that changes no view. *)
LEMMA CoveredNext ==
  ASSUME leader' = leader,
         \A u \in Tasks : Asked(u)' =>
           \A q \in Sub(task'[u].proc) :
             \/ q \in task'[u].todo \/ StreamTo(u, q)' \in Awaits(u)'
             \/ \E v \in Tasks : /\ task'[v].proc = q /\ task'[v].pod = task'[u].pod
                                 /\ task'[v].at = "done"
  PROVE  Covered'
<1>1. \A p : Sub(p)' = Sub(p)
  BY DEF Sub
<1> QED
  BY <1>1 DEF Covered, Finished

(* A call begins, and its process has none for the pod. *)
LEMMA BeginVisit ==
  ASSUME TreeInv, UNCHANGED <<stream, leader>>,
         NEW t \in Tasks, TaskIs(t, task'[t]), task[t].at = "unused",
         task'[t].at = "get", task'[t].todo = {},
         task'[t].from = None \/ (task'[t].from \in DOMAIN stream /\ \E u \in Tasks : SentBy(t, u)'),
         \A v \in Tasks : ~(Used(v) /\ task[v].proc = task'[t].proc /\ task[v].pod = task'[t].pod)
  PROVE  TreeInv'
<1> USE DEF TreeInv
<1>1. \A u \in Tasks : u # t => task'[u] = task[u]
  BY DEF TaskIs
<1>2. \A p : Sub(p)' = Sub(p)
  BY DEF Sub
<1>3. \A u \in Tasks : Awaits(u)' = Awaits(u)
  BY DEF Awaits
<1>4. Agree' /\ AwaitSub'
  BY <1>2 DEF Agree, AwaitSub
<1>5. TodoOK'
  BY <1>1, <1>2 DEF TodoOK
<1>6. Once'
  BY <1>1 DEF Once, Used
<1>7. ASSUME NEW v \in Tasks, v # t, NEW u \in Tasks, SentBy(v, u) PROVE SentBy(v, u)'
  <2>1. u # t
    BY <1>7 DEF SentBy, Asked
  <2>2. task'[u] = task[u] /\ task'[v] = task[v]
    BY <1>1, <1>7, <2>1
  <2>3. Active(v)' <=> Active(v)
    BY <2>2 DEF Active
  <2>4. Asked(u)' <=> Asked(u)
    BY <2>2 DEF Asked
  <2> QED
    BY <1>2, <1>7, <2>2, <2>3, <2>4 DEF SentBy, StreamTo
<1>8. SentOK'
  <2> SUFFICES ASSUME NEW v \in Tasks, Used(v)', task'[v].from # None
               PROVE  task'[v].from \in DOMAIN stream' /\ \E u \in Tasks : SentBy(v, u)'
    BY DEF SentOK
  <2>1. CASE v = t
    BY <2>1
  <2>2. CASE v # t
    <3>1. task'[v] = task[v] /\ Used(v)
      BY <1>1, <2>2 DEF Used
    <3> QED
      BY <1>7, <2>2, <3>1 DEF SentOK
  <2> QED
    BY <2>1, <2>2
<1>9. Covered'
  <2>1. ASSUME NEW u \in Tasks, Asked(u)', NEW q \in Sub(task'[u].proc)
        PROVE  \/ q \in task'[u].todo \/ StreamTo(u, q)' \in Awaits(u)'
               \/ \E v \in Tasks : /\ task'[v].proc = q /\ task'[v].pod = task'[u].pod
                                   /\ task'[v].at = "done"
    <3>1. u # t
      BY <2>1 DEF Asked
    <3>2. task'[u] = task[u] /\ Asked(u)
      BY <1>1, <2>1, <3>1 DEF Asked
    <3>3. StreamTo(u, q)' = StreamTo(u, q)
      BY <3>2 DEF StreamTo
    <3>4. q \in task[u].todo \/ StreamTo(u, q) \in Awaits(u) \/ Finished(q, task[u].pod)
      BY <2>1, <3>2 DEF Covered
    <3>5. ASSUME NEW v \in Tasks, task[v].at = "done" PROVE task'[v] = task[v]
      BY <1>1, <3>5
    <3>6. CASE Finished(q, task[u].pod)
      BY <3>2, <3>5, <3>6 DEF Finished
    <3> QED
      BY <1>3, <3>2, <3>3, <3>4, <3>6
  <2> QED
    BY <2>1, CoveredNext
<1>10. Quiet'
  BY <1>1, <1>3 DEF Quiet
<1> QED
  BY <1>4, <1>5, <1>6, <1>8, <1>9, <1>10

LEMMA RunOneVisit ==
  ASSUME RelayInv, PlaceInv, TreeInv,
         NEW p \in Procs, NEW i \in 0 .. Runners - 1, NEW t \in Tasks, RunOne(p, i, t)
  PROVE  TreeInv'
<1>1. RelayTypeOK
  BY DEF RelayInv
<1>2. /\ TaskIs(t, task'[t]) /\ task[t].at = "unused"
      /\ task'[t].at = "get" /\ task'[t].from = None /\ task'[t].todo = {}
      /\ UNCHANGED <<stream, leader>>
  BY <1>1, RunOneFacts DEF setVars
<1>3. 1 \in 1 .. Len(queue[p]) /\ task'[t].pod = queue[p][1]
  BY <1>1, RunOneQueue
<1>4. \A v \in Tasks : Used(v) => task[v].pod # task'[t].pod
  BY <1>3 DEF PlaceInv, QueueOK
<1> QED
  BY <1>2, <1>4, BeginVisit

(* Whoever has a call is a member. *)
LEMMA CallersAreMembers ==
  ASSUME RelayInv, PlaceInv, TreeInv, NEW t \in Tasks, Used(t)
  PROVE  task[t].proc \in Members0
<1>1. task[t].proc \in Procs
  BY DEF RelayInv, TaskOK, Used
<1>2. CASE task[t].from = None
  BY <1>1, <1>2 DEF PlaceInv, RootOK, TreeInv, Agree
<1>3. CASE task[t].from # None
  <2>1. PICK u \in Tasks : SentBy(t, u)
    BY <1>3 DEF TreeInv, SentOK
  <2>2. task[t].proc \in Sub(task[u].proc)
    BY <2>1 DEF SentBy
  <2> QED
    BY <2>2 DEF Sub, SubMembersOf
<1> QED
  BY <1>2, <1>3

(* The tree of the processes that agree. *)
LEMMA AgreedParent ==
  ASSUME FanOut = Stride, PlaceInv, Agree, NEW a \in Members0
  PROVE  /\ leader[a] = a => \A p \in Members0 : a \notin Sub(p)
         /\ leader[a] # a =>
              \E p \in Members0 : /\ Position(leader[a], Members0, p) < Position(leader[a], Members0, a)
                                  /\ \A q \in Members0 : a \in Sub(q) <=> q = p
<1>1. PICK l \in Members0 : l = leader[a]
  BY MembersAssumption DEF Agree
<1>2. \A p \in Members0 : Sub(p) = SubMembersOf(l, Members0, p)
  BY <1>1, MembersAssumption DEF Agree, Sub
<1>3. Members0 \in SUBSET Procs
  BY MembersAssumption
<1>4. /\ a = l => \A p \in Members0 : a \notin SubMembersOf(l, Members0, p)
      /\ a # l => \E p \in Members0 :
                    /\ Position(l, Members0, p) < Position(l, Members0, a)
                    /\ \A q \in Members0 : a \in SubMembersOf(l, Members0, q) <=> q = p
  BY <1>3, TreeParent
<1> QED
  BY <1>1, <1>2, <1>4

(* A message for the pod of a call of the sub-member is not on the wire. *)
LEMMA ReceivePodVisit ==
  ASSUME FanOut = Stride, RelayInv, LatchInv, PlaceInv, TreeInv,
         NEW k \in DOMAIN stream, NEW t \in Tasks, ReceivePod(k, t)
  PROVE  TreeInv'
<1>1. /\ TaskIs(t, task'[t]) /\ task[t].at = "unused"
      /\ \A v \in Tasks : ~(Active(v) /\ task[v].from = k)
      /\ task'[t].at = "get" /\ task'[t].proc = k[2] /\ task'[t].from = k /\ task'[t].todo = {}
      /\ UNCHANGED <<stream, leader>>
  BY ReceivePodFacts DEF setVars, RelayInv
<1>2. PICK u \in Tasks : /\ u = Head(stream[k].wire)
                         /\ 1 \in 1 .. Len(stream[k].wire) /\ u = stream[k].wire[1]
                         /\ Asked(u) /\ task'[t].pod = task[u].pod
  BY ReceivePodSender DEF Asked
<1>3. u \in stream[k].pending
  BY <1>2 DEF LatchInv, WireOK
<1>4. PICK q \in Procs : k = StreamTo(u, q) /\ q \notin task[u].todo
  BY <1>3 DEF LatchInv, AwaitOK, Awaits
<1>5. k[1] = task[u].proc /\ k[2] = q
  BY <1>4 DEF StreamTo
<1>6. q \in Sub(task[u].proc)
  BY <1>3, <1>5 DEF TreeInv, AwaitSub
<1>7. SentBy(t, u)'
  <2>1. u # t
    BY <1>1, <1>2 DEF Asked
  <2>2. task'[u] = task[u] /\ Asked(u)'
    BY <1>1, <1>2, <2>1 DEF TaskIs, Asked
  <2>3. Active(t)'
    BY <1>1 DEF Active
  <2>4. Sub(task[u].proc)' = Sub(task'[u].proc)
    BY <1>1 DEF Sub
  <2>5. StreamTo(u, q)' = StreamTo(u, q)
    BY <2>2 DEF StreamTo
  <2> QED
    BY <1>1, <1>2, <1>4, <1>5, <1>6, <2>2, <2>3, <2>4, <2>5 DEF SentBy
<1>8. ASSUME NEW v \in Tasks, Used(v), task[v].proc = q, task[v].pod = task[u].pod PROVE FALSE
  <2>1. Used(u)
    BY <1>2 DEF Asked, Used
  <2>2. q \in Members0 /\ task[u].proc \in Members0
    BY <1>8, <2>1, CallersAreMembers
  <2>3. leader[q] # q
    BY <1>6, <2>2, AgreedParent DEF TreeInv
  <2>4. task[v].from # None
    BY <1>8, <2>3 DEF PlaceInv, RootOK
  <2>5. PICK w \in Tasks : SentBy(v, w)
    BY <1>8, <2>4 DEF TreeInv, SentOK
  <2>6. /\ Used(w) /\ task[w].pod = task[u].pod
        /\ task[v].from = StreamTo(w, q) /\ q \in Sub(task[w].proc)
        /\ ~Active(v) => w \notin stream[task[v].from].pending
    BY <1>8, <2>5 DEF SentBy, Asked, Used
  <2>7. task[w].proc \in Members0
    BY <2>6, CallersAreMembers
  <2>8. task[w].proc = task[u].proc
    BY <1>6, <2>2, <2>3, <2>6, <2>7, AgreedParent DEF TreeInv
  <2>9. w = u
    BY <2>1, <2>6, <2>8 DEF TreeInv, Once
  <2>10. task[v].from = k
    BY <1>4, <2>6, <2>9
  <2> QED
    BY <1>1, <1>3, <2>6, <2>9, <2>10
<1>9. \A v \in Tasks : ~(Used(v) /\ task[v].proc = task'[t].proc /\ task[v].pod = task'[t].pod)
  BY <1>1, <1>2, <1>5, <1>8
<1> QED
  BY <1>1, <1>7, <1>9, BeginVisit

LEMMA RelayPodVisit ==
  ASSUME RelayInv, PlaceInv, TreeInv, NEW t \in Tasks, RelayPod(t)
  PROVE  TreeInv'
<1> USE DEF TreeInv
<1>1. RelayTypeOK /\ SetInv /\ TaskOK(t) /\ ViewsFixed
  BY DEF RelayInv, PlaceInv
<1>2. /\ TaskIs(t, task'[t])
      /\ task[t].at = "get" /\ task'[t].at \in {"pop", "send"}
      /\ SameCall(task'[t], task[t]) /\ UNCHANGED stream
  BY <1>1, RelayPodFacts
<1>3. GetSubMembers(task[t].proc) /\ task[t].proc \in Procs
  BY <1>1, <1>2 DEF RelayPod, TaskOK
<1>4. leader' = leader /\ subMembers'[task[t].proc] = Sub(task[t].proc)
  BY <1>1, <1>3, GetSubMembersViews
<1>5. task'[t].todo = Sub(task[t].proc)
  <2>1. PICK a, n, M : /\ M = subMembers'[task[t].proc]
                       /\ task' = [task EXCEPT ![t].at = a, ![t].todo = M, ![t].latch = n]
    BY DEF RelayPod
  <2>2. task'[t].todo = M
    <3>1. PICK f \in [Tasks -> Task] : f = task
      BY <1>1 DEF RelayTypeOK
    <3>2. PICK o \in Task : o = f[t]
      OBVIOUS
    <3>3. task'[t] = [o EXCEPT !.at = a, !.todo = M, !.latch = n]
      BY <2>1, <3>1, <3>2
    <3> QED
      BY <3>3 DEF Task
  <2> QED
    BY <1>4, <2>1, <2>2
<1>6. \A u \in Tasks : u # t => task'[u] = task[u]
  BY <1>2 DEF TaskIs
<1>7. /\ task'[t].proc = task[t].proc /\ task'[t].pod = task[t].pod
      /\ task'[t].from = task[t].from /\ task'[t].index = task[t].index
  BY <1>2 DEF SameCall
<1>8. \A p : Sub(p)' = Sub(p)
  BY <1>4 DEF Sub
<1>9. \A u \in Tasks : Awaits(u)' = Awaits(u) /\ (Used(u)' <=> Used(u)) /\ (Active(u)' <=> Active(u))
  BY <1>2, <1>6 DEF Awaits, Used, Active
<1>10. Agree' /\ AwaitSub'
  BY <1>2, <1>4, <1>8 DEF Agree, AwaitSub
<1>11. TodoOK'
  BY <1>5, <1>6, <1>7, <1>8 DEF TodoOK
<1>12. \A u \in Tasks : task'[u].proc = task[u].proc /\ task'[u].pod = task[u].pod
  BY <1>6, <1>7
<1>13. Once'
  BY <1>9, <1>12 DEF Once
<1>14. ASSUME NEW v \in Tasks, NEW u \in Tasks, SentBy(v, u) PROVE SentBy(v, u)'
  <2>1. u # t
    BY <1>2, <1>14 DEF SentBy, Asked
  <2>2. task'[u] = task[u] /\ task'[v].from = task[v].from
    BY <1>6, <1>7, <2>1
  <2>3. (Active(v)' <=> Active(v)) /\ (Asked(u)' <=> Asked(u))
    BY <1>9, <2>2 DEF Asked
  <2> QED
    BY <1>2, <1>8, <1>12, <1>14, <2>2, <2>3 DEF SentBy, StreamTo
<1>15. SentOK'
  <2> SUFFICES ASSUME NEW v \in Tasks, Used(v)', task'[v].from # None
               PROVE  task'[v].from \in DOMAIN stream' /\ \E u \in Tasks : SentBy(v, u)'
    BY DEF SentOK
  <2>1. Used(v) /\ task'[v].from = task[v].from
    BY <1>6, <1>7, <1>9
  <2> QED
    BY <1>2, <1>14, <2>1 DEF SentOK
<1>16. Covered'
  <2>1. ASSUME NEW u \in Tasks, Asked(u)', NEW q \in Sub(task'[u].proc)
        PROVE  \/ q \in task'[u].todo \/ StreamTo(u, q)' \in Awaits(u)'
               \/ \E v \in Tasks : /\ task'[v].proc = q /\ task'[v].pod = task'[u].pod
                                   /\ task'[v].at = "done"
    <3>1. CASE u = t
      BY <1>5, <1>7, <2>1, <3>1
    <3>2. CASE u # t
      <4>1. task'[u] = task[u] /\ Asked(u)
        BY <1>6, <2>1, <3>2 DEF Asked
      <4>2. StreamTo(u, q)' = StreamTo(u, q)
        BY <4>1 DEF StreamTo
      <4>3. q \in task[u].todo \/ StreamTo(u, q) \in Awaits(u) \/ Finished(q, task[u].pod)
        BY <2>1, <4>1 DEF Covered
      <4>4. ASSUME NEW v \in Tasks, task[v].at = "done" PROVE task'[v] = task[v]
        BY <1>2, <1>6, <4>4
      <4>5. CASE Finished(q, task[u].pod)
        BY <4>1, <4>4, <4>5 DEF Finished
      <4> QED
        BY <1>9, <4>1, <4>2, <4>3, <4>5
    <3> QED
      BY <3>1, <3>2
  <2> QED
    BY <1>4, <2>1, CoveredNext
<1>17. Quiet'
  BY <1>2, <1>6, <1>9 DEF Quiet
<1> QED
  BY <1>10, <1>11, <1>13, <1>15, <1>16, <1>17

(* A call sends to a sub-member: it awaits its answer from now on. *)
LEMMA SendPodVisit ==
  ASSUME RelayInv, LatchInv, PlaceInv, TreeInv, calm,
         NEW t \in Tasks, NEW q \in Procs, SendPod(t, q)
  PROVE  TreeInv'
<1> USE DEF TreeInv
<1>1. RelayTypeOK /\ TaskOK(t) /\ ServesOK
  BY DEF RelayInv
<1>2. PICK k \in StreamKeys :
        /\ k = StreamTo(t, q)
        /\ task[t].at = "send" /\ q \in task[t].todo
        /\ DOMAIN stream' = DOMAIN stream \union {k}
        /\ Others(k)
        /\ \/ k \in DOMAIN stream /\ stream[k].state = "broken" /\ stream'[k] = stream[k]
           \/ Takes(k, t)
        /\ Sent(t, q, 0)
        /\ UNCHANGED setVars
  BY <1>1, SendPodFacts, Zenon
<1>3. Takes(k, t) /\ leader' = leader
  BY <1>2 DEF LatchInv, WireOK, setVars
<1>4. PICK w \in Seq(Tasks), P \in SUBSET Tasks :
        /\ stream'[k].wire = Append(w, t) /\ stream'[k].pending = P \union {t}
        /\ k \in DOMAIN stream => stream[k].wire = w /\ stream[k].pending = P
        /\ k \notin DOMAIN stream => P = {}
  BY <1>3 DEF Takes
<1>5. /\ TaskIs(t, task'[t]) /\ task'[t].at \in {"pop", "send"}
      /\ task'[t].todo = task[t].todo \ {q} /\ SameCall(task'[t], task[t])
  BY <1>1, <1>2, SentFacts
<1>6. ASSUME NEW u \in Tasks
      PROVE  /\ task'[u].proc = task[u].proc /\ task'[u].pod = task[u].pod
             /\ task'[u].from = task[u].from /\ task'[u].index = task[u].index
             /\ task'[u].todo \subseteq task[u].todo
             /\ u # t => task'[u] = task[u]
             /\ Used(u)' <=> Used(u)
             /\ Asked(u)' <=> Asked(u)
             /\ Active(u)' <=> Active(u)
             /\ task'[u].at = "done" <=> task[u].at = "done"
  BY <1>2, <1>5 DEF TaskIs, SameCall, Used, Asked, Active
<1>7. \A p : Sub(p)' = Sub(p)
  BY <1>3 DEF Sub
<1>8. \A j \in DOMAIN stream : j # k => j \in DOMAIN stream' /\ stream'[j] = stream[j]
  BY <1>2 DEF Others
<1>9. ASSUME NEW u \in Tasks
      PROVE  /\ Awaits(u) \subseteq Awaits(u)'
             /\ u # t => Awaits(u)' = Awaits(u)
             /\ u = t => k \in Awaits(u)'
  <2>1. \A j : j # k => (j \in Awaits(u)' <=> j \in Awaits(u))
    BY <1>2, <1>8 DEF Awaits
  <2>2. /\ k \in Awaits(u) => k \in Awaits(u)'
        /\ u = t => k \in Awaits(u)'
        /\ u # t => (k \in Awaits(u)' => k \in Awaits(u))
    BY <1>2, <1>4 DEF Awaits
  <2>3. u # t => \A j : j \in Awaits(u)' <=> j \in Awaits(u)
    BY <2>1, <2>2
  <2> QED
    BY <2>1, <2>2, <2>3
<1>10. Agree' /\ TodoOK' /\ Once'
  <2>1. Agree'
    BY <1>3 DEF Agree
  <2>2. TodoOK'
    <3> SUFFICES ASSUME NEW u \in Tasks PROVE task'[u].todo \subseteq Sub(task[u].proc)
      BY <1>6, <1>7 DEF TodoOK
    <3> QED
      BY <1>6 DEF TodoOK
  <2>3. Once'
    BY <1>6 DEF Once
  <2> QED
    BY <2>1, <2>2, <2>3
<1>11. AwaitSub'
  <2> SUFFICES ASSUME NEW j \in DOMAIN stream', stream'[j].pending # {} PROVE j[2] \in Sub(j[1])
    BY <1>7 DEF AwaitSub
  <2>1. CASE j # k
    BY <1>2, <1>8, <2>1 DEF AwaitSub
  <2>2. CASE j = k
    <3>1. j[1] = task[t].proc /\ j[2] = q
      BY <1>2, <2>2 DEF StreamTo
    <3> QED
      BY <1>2, <3>1 DEF TodoOK
  <2> QED
    BY <2>1, <2>2
<1>12. ASSUME NEW v \in Tasks, Used(v), task[v].from # None, task[v].from \in DOMAIN stream,
              NEW u \in Tasks, SentBy(v, u)
       PROVE  SentBy(v, u)'
  <2>1. PICK j, r : j \in DOMAIN stream /\ j = task[v].from /\ r = task[v].proc
    BY <1>12
  <2>2. /\ Asked(u) /\ task[u].pod = task[v].pod
        /\ j = StreamTo(u, r) /\ r \in Sub(task[u].proc) /\ r \notin task[u].todo
        /\ Active(v) => Head(stream[j].wire) = u
        /\ ~Active(v) => u \notin stream[j].pending
    BY <1>12, <2>1 DEF SentBy
  <2>3. /\ Active(v) => Head(stream'[j].wire) = u
        /\ ~Active(v) => u \notin stream'[j].pending
    <3>1. CASE j # k
      BY <1>8, <2>1, <2>2, <3>1
    <3>2. CASE j = k
      <4>1. stream[k].wire = w /\ stream[k].pending = P
        BY <1>4, <2>1, <3>2
      <4>2. ASSUME Active(v) PROVE Head(stream'[j].wire) = u
        <5>1. Serving(v)
          BY <1>1, <2>1, <4>2, OrphanFacts DEF Serving, RelayTypeOK
        <5>2. w # <<>>
          BY <1>1, <2>1, <3>2, <4>1, <5>1 DEF ServesOK
        <5>3. Head(Append(w, t)) = Head(w)
          BY <5>2
        <5> QED
          BY <1>4, <2>2, <3>2, <4>1, <4>2, <5>3
      <4>3. u # t
        <5> SUFFICES ASSUME u = t PROVE FALSE
          OBVIOUS
        <5>1. r = q
          BY <1>2, <2>2, <3>2 DEF StreamTo
        <5> QED
          BY <1>2, <2>2, <5>1
      <4> QED
        BY <1>4, <2>2, <3>2, <4>1, <4>2, <4>3
    <3> QED
      BY <3>1, <3>2
  <2>4. StreamTo(u, r)' = StreamTo(u, r)
    BY <1>6 DEF StreamTo
  <2>5. /\ Asked(u)' /\ task'[u].pod = task'[v].pod
        /\ j = StreamTo(u, r)' /\ r \in Sub(task'[u].proc) /\ r \notin task'[u].todo
        /\ Active(v)' => Head(stream'[j].wire) = u
        /\ ~Active(v)' => u \notin stream'[j].pending
        /\ j = task'[v].from /\ r = task'[v].proc
    BY <1>6, <2>1, <2>2, <2>3, <2>4
  <2> QED
    BY <1>7, <2>5 DEF SentBy
<1>13. SentOK'
  <2> SUFFICES ASSUME NEW v \in Tasks, Used(v)', task'[v].from # None
               PROVE  task'[v].from \in DOMAIN stream' /\ \E u \in Tasks : SentBy(v, u)'
    BY DEF SentOK
  <2>1. Used(v) /\ task'[v].from = task[v].from
    BY <1>6
  <2>2. task[v].from \in DOMAIN stream /\ \E u \in Tasks : SentBy(v, u)
    BY <2>1 DEF SentOK
  <2> QED
    BY <1>2, <1>12, <2>1, <2>2
<1>14. Covered'
  <2>1. ASSUME NEW u \in Tasks, Asked(u)', NEW r \in Sub(task'[u].proc)
        PROVE  \/ r \in task'[u].todo \/ StreamTo(u, r)' \in Awaits(u)'
               \/ \E v \in Tasks : /\ task'[v].proc = r /\ task'[v].pod = task'[u].pod
                                   /\ task'[v].at = "done"
    <3>1. StreamTo(u, r)' = StreamTo(u, r)
      BY <1>6 DEF StreamTo
    <3>2. r \in task[u].todo \/ StreamTo(u, r) \in Awaits(u) \/ Finished(r, task[u].pod)
      BY <1>6, <2>1 DEF Covered
    <3>3. CASE r \in task[u].todo /\ r \notin task'[u].todo
      <4>1. u = t /\ r = q
        BY <1>5, <1>6, <3>3
      <4> QED
        BY <1>2, <1>9, <3>1, <4>1
    <3>4. CASE Finished(r, task[u].pod)
      BY <1>6, <3>4 DEF Finished
    <3> QED
      BY <1>9, <3>1, <3>2, <3>3, <3>4
  <2> QED
    BY <1>3, <2>1, CoveredNext
<1>15. Quiet'
  <2>1. task[t].at # "done"
    BY <1>2
  <2> QED
    BY <1>6, <1>9, <2>1 DEF Quiet
<1> QED
  BY <1>10, <1>11, <1>13, <1>14, <1>15

(* A call whose latch is open waits for no answer. *)
LEMMA OpenLatch ==
  ASSUME RelayInv, LatchInv, calm, WaitPercent > 99, NEW t \in Tasks, task[t].latch <= 0
  PROVE  Awaits(t) = {}
<1>1. PICK A : A = Awaits(t)
  OBVIOUS
<1>2. PICK a \in Nat, b \in Nat, l \in Int :
        /\ a = Cardinality(task[t].todo) /\ b = Cardinality(A) /\ l = task[t].latch
        /\ IsFiniteSet(A)
  BY <1>1, AwaitsFinite DEF RelayInv
<1>3. l = a + b
  BY <1>1, <1>2 DEF LatchInv, LatchOK
<1>4. b = 0
  BY <1>2, <1>3
<1> QED
  BY <1>1, <1>2, <1>4, FS_EmptySet

(* A call returns; the one it answers to finds it done. *)
LEMMA ReturnVisit ==
  ASSUME RelayInv, LatchInv, PlaceInv, TreeInv, calm, NEW t \in Tasks, WaitDone(t)
  PROVE  TreeInv'
<1> USE DEF TreeInv
<1>1. RelayTypeOK /\ ServesOK
  BY DEF RelayInv
<1>2. task[t].at = "wait" /\ task[t].latch <= 0 /\ Return(t)
  BY DEF WaitDone
<1>3. /\ Returns(t)
      /\ \/ ReturnsAlone(t)
         \/ \E k \in DOMAIN stream, u \in Tasks : ReturnsTo(t, k, u)
  BY <1>1, <1>2, ReturnFacts
<1>4. ASSUME NEW v \in Tasks
      PROVE  /\ task'[v].proc = task[v].proc /\ task'[v].pod = task[v].pod
             /\ task'[v].from = task[v].from /\ task'[v].index = task[v].index
             /\ task'[v].todo = task[v].todo
             /\ Used(v)' <=> Used(v)
             /\ Asked(v)' <=> Asked(v)
             /\ v # t => (Active(v)' <=> Active(v))
             /\ task[v].at = "done" => task'[v].at = "done"
             /\ task'[v].at = "done" => task[v].at = "done" \/ v = t
  BY <1>2, <1>3 DEF Returns, SameCall, Used, Asked, Active
<1>5. leader' = leader /\ Active(t) /\ ~Active(t)' /\ task'[t].at = "done"
  BY <1>2, <1>3 DEF Returns, setVars, Active
<1>6. \A p : Sub(p)' = Sub(p)
  BY <1>5 DEF Sub
<1>7. Agree' /\ TodoOK' /\ Once'
  <2>1. Agree'
    BY <1>5 DEF Agree
  <2>2. TodoOK'
    BY <1>4, <1>6 DEF TodoOK
  <2>3. Once'
    BY <1>4 DEF Once
  <2> QED
    BY <2>1, <2>2, <2>3
(* What is left to show of the streams. *)
<1>8. ASSUME DOMAIN stream' = DOMAIN stream,
             \A j \in DOMAIN stream : stream'[j].pending \subseteq stream[j].pending,
             \A v, u \in Tasks : Used(v) /\ task[v].from # None /\ SentBy(v, u) =>
               /\ Active(v)' => Head(stream'[task[v].from].wire) = u
               /\ ~Active(v)' => u \notin stream'[task[v].from].pending,
             \A u \in Tasks : Asked(u) => \A q \in Sub(task[u].proc) :
               StreamTo(u, q) \in Awaits(u) =>
                 \/ StreamTo(u, q) \in Awaits(u)'
                 \/ task[t].proc = q /\ task[t].pod = task[u].pod
      PROVE  TreeInv'
  <2>1. AwaitSub'
    BY <1>6, <1>8 DEF AwaitSub
  <2>2. ASSUME NEW v \in Tasks, Used(v), task[v].from # None, NEW u \in Tasks, SentBy(v, u)
        PROVE  SentBy(v, u)'
    <3>1. PICK j, r : j = task[v].from /\ r = task[v].proc
      OBVIOUS
    <3>2. /\ Asked(u) /\ task[u].pod = task[v].pod
          /\ j = StreamTo(u, r) /\ r \in Sub(task[u].proc) /\ r \notin task[u].todo
      BY <2>2, <3>1 DEF SentBy
    <3>3. StreamTo(u, r)' = StreamTo(u, r)
      BY <1>4 DEF StreamTo
    <3>4. /\ Active(v)' => Head(stream'[j].wire) = u
          /\ ~Active(v)' => u \notin stream'[j].pending
      BY <1>8, <2>2, <3>1
    <3>5. /\ Asked(u)' /\ task'[u].pod = task'[v].pod
          /\ j = StreamTo(u, r)' /\ r \in Sub(task'[u].proc) /\ r \notin task'[u].todo
          /\ j = task'[v].from /\ r = task'[v].proc
      BY <1>4, <3>1, <3>2, <3>3
    <3> QED
      BY <1>6, <3>4, <3>5 DEF SentBy
  <2>3. SentOK'
    <3> SUFFICES ASSUME NEW v \in Tasks, Used(v)', task'[v].from # None
                 PROVE  task'[v].from \in DOMAIN stream' /\ \E u \in Tasks : SentBy(v, u)'
      BY DEF SentOK
    <3>1. Used(v) /\ task'[v].from = task[v].from
      BY <1>4
    <3>2. task[v].from \in DOMAIN stream /\ \E u \in Tasks : SentBy(v, u)
      BY <3>1 DEF SentOK
    <3> QED
      BY <1>8, <2>2, <3>1, <3>2
  <2>4. Covered'
    <3>1. ASSUME NEW u \in Tasks, Asked(u)', NEW r \in Sub(task'[u].proc)
          PROVE  \/ r \in task'[u].todo \/ StreamTo(u, r)' \in Awaits(u)'
                 \/ \E v \in Tasks : /\ task'[v].proc = r /\ task'[v].pod = task'[u].pod
                                     /\ task'[v].at = "done"
      <4>1. StreamTo(u, r)' = StreamTo(u, r) /\ Asked(u) /\ r \in Sub(task[u].proc)
        BY <1>4, <3>1 DEF StreamTo
      <4>2. r \in task[u].todo \/ StreamTo(u, r) \in Awaits(u) \/ Finished(r, task[u].pod)
        BY <4>1 DEF Covered
      <4>3. CASE Finished(r, task[u].pod)
        BY <1>4, <4>3 DEF Finished
      <4>4. CASE StreamTo(u, r) \in Awaits(u)
        <5>1. CASE StreamTo(u, r) \in Awaits(u)'
          BY <4>1, <5>1
        <5>2. CASE task[t].proc = r /\ task[t].pod = task[u].pod
          <6>1. task'[t].proc = r /\ task'[t].pod = task'[u].pod /\ task'[t].at = "done"
            BY <1>4, <1>5, <5>2
          <6> QED
            BY <6>1
        <5> QED
          BY <1>8, <4>1, <4>4, <5>1, <5>2
      <4> QED
        BY <1>4, <4>2, <4>3, <4>4
    <3> QED
      BY <1>5, <3>1, CoveredNext
  <2>5. Quiet'
    <3> SUFFICES ASSUME WaitPercent > 99, NEW v \in Tasks, task'[v].at = "done"
                 PROVE  Awaits(v)' = {}
      BY DEF Quiet
    <3>1. Awaits(v) = {}
      <4>1. CASE v = t
        BY <1>2, <4>1, OpenLatch
      <4>2. CASE task[v].at = "done"
        BY <4>2 DEF Quiet
      <4> QED
        BY <1>4, <4>1, <4>2
    <3>2. Awaits(v)' \subseteq Awaits(v)
      BY <1>8 DEF Awaits
    <3> QED
      BY <3>1, <3>2
  <2> QED
    BY <1>7, <2>1, <2>3, <2>4, <2>5
<1>9. CASE ReturnsAlone(t)
  <2>1. UNCHANGED stream
    BY <1>9 DEF ReturnsAlone
  <2>2. \A u \in Tasks : Awaits(u)' = Awaits(u)
    BY <2>1 DEF Awaits
  <2>3. task[t].from = None
    <3>1. Used(t)
      BY <1>2 DEF Used
    <3>2. Orphan \notin DOMAIN stream
      BY <1>1, OrphanFacts DEF RelayTypeOK
    <3> QED
      BY <1>9, <3>1, <3>2 DEF ReturnsAlone, SentOK
  <2>4. ASSUME NEW v \in Tasks, NEW u \in Tasks, Used(v), task[v].from # None, SentBy(v, u)
        PROVE  /\ Active(v)' => Head(stream'[task[v].from].wire) = u
               /\ ~Active(v)' => u \notin stream'[task[v].from].pending
    <3>1. Active(v)' <=> Active(v)
      BY <1>4, <2>3, <2>4
    <3> QED
      BY <2>1, <2>4, <3>1 DEF SentBy
  <2> QED
    BY <1>8, <2>1, <2>2, <2>4
<1>10. ASSUME NEW k \in DOMAIN stream, NEW u \in Tasks, ReturnsTo(t, k, u) PROVE TreeInv'
  <2>1. /\ k = task[t].from /\ u = Head(stream[k].wire)
        /\ DOMAIN stream' = DOMAIN stream
        /\ \A j \in DOMAIN stream : j # k => stream'[j] = stream[j]
        /\ stream'[k].pending = stream[k].pending \ {u}
    BY <1>10 DEF ReturnsTo, Others
  <2>2. k # None /\ k # Orphan
    BY <1>1, OrphanFacts DEF RelayTypeOK
  <2>3. Serving(t) /\ Used(t)
    BY <1>2, <1>5, <2>1, <2>2 DEF Serving, Used
  <2>4. SentBy(t, u)
    <3>1. PICK o \in Tasks : SentBy(t, o)
      BY <2>1, <2>2, <2>3 DEF SentOK
    <3>2. o = u
      BY <1>5, <2>1, <3>1 DEF SentBy
    <3> QED
      BY <3>1, <3>2
  <2>5. ASSUME NEW v \in Tasks, NEW o \in Tasks, Used(v), task[v].from # None, SentBy(v, o)
        PROVE  /\ Active(v)' => Head(stream'[task[v].from].wire) = o
               /\ ~Active(v)' => o \notin stream'[task[v].from].pending
    <3>0. task[v].from \in DOMAIN stream
      BY <2>5 DEF SentOK
    <3>1. CASE v = t
      <4>1. o = u
        BY <1>5, <2>1, <2>5, <3>1 DEF SentBy
      <4> QED
        BY <1>5, <2>1, <3>1, <4>1
    <3>2. CASE v # t /\ task[v].from = k
      <4>1. ~Active(v)
        <5> SUFFICES ASSUME Active(v) PROVE FALSE
          OBVIOUS
        <5>1. Serving(v)
          BY <2>2, <3>2 DEF Serving
        <5> QED
          BY <1>1, <2>1, <2>3, <3>2, <5>1 DEF ServesOK
      <4>2. ~Active(v)' /\ o \notin stream[k].pending
        BY <1>4, <2>5, <3>2, <4>1 DEF SentBy
      <4> QED
        BY <2>1, <3>2, <4>2
    <3>3. CASE v # t /\ task[v].from # k
      <4>1. stream'[task[v].from] = stream[task[v].from] /\ (Active(v)' <=> Active(v))
        BY <1>4, <2>1, <3>0, <3>3
      <4> QED
        BY <2>5, <4>1 DEF SentBy
    <3> QED
      BY <3>1, <3>2, <3>3
  <2>6. ASSUME NEW o \in Tasks, Asked(o), NEW q \in Sub(task[o].proc), StreamTo(o, q) \in Awaits(o)
        PROVE  \/ StreamTo(o, q) \in Awaits(o)'
               \/ task[t].proc = q /\ task[t].pod = task[o].pod
    <3>1. CASE StreamTo(o, q) # k \/ o # u
      <4>1. PICK j \in DOMAIN stream : j = StreamTo(o, q) /\ o \in stream[j].pending
        BY <2>6 DEF Awaits
      <4>2. j \in DOMAIN stream' /\ o \in stream'[j].pending
        BY <2>1, <3>1, <4>1
      <4> QED
        BY <4>1, <4>2 DEF Awaits
    <3>2. CASE StreamTo(o, q) = k /\ o = u
      <4>1. k = StreamTo(u, task[t].proc) /\ task[u].pod = task[t].pod
        BY <2>1, <2>4 DEF SentBy
      <4>2. task[t].proc = q
        BY <3>2, <4>1 DEF StreamTo
      <4> QED
        BY <3>2, <4>1, <4>2
    <3> QED
      BY <3>1, <3>2
  <2>7. \A j \in DOMAIN stream : stream'[j].pending \subseteq stream[j].pending
    BY <2>1
  <2> QED
    BY <1>8, <2>1, <2>5, <2>6, <2>7
<1> QED
  BY <1>3, <1>9, <1>10

LEMMA VisitStep ==
  ASSUME FanOut = Stride
  PROVE  RelayInv /\ LatchInv /\ PlaceInv /\ VisitInv /\ [Next]_vars => VisitInv'
<1> SUFFICES ASSUME RelayInv, LatchInv, PlaceInv, VisitInv, [Next]_vars, calm' PROVE TreeInv'
  BY DEF VisitInv
<1>0. RelayTypeOK /\ ServesOK /\ \A t \in Tasks : TaskOK(t)
  BY DEF RelayInv
<1>1. calm
  <2>1. CASE UNCHANGED vars
    BY <2>1 DEF vars
  <2>2. ASSUME NEW t \in Tasks, TaskStep(t) \/ SendStep(t) \/ ScheduleStep(t) PROVE calm
    BY <2>2 DEF TaskStep, SendStep, ScheduleStep, RelayPod, RelayFails, SendPod, SendFails,
                SkipScheduling, PopScheduler, NextPod, SchedulerDone, PushScheduler, WaitDone, WaitTimeout
  <2>3. ASSUME NEW p \in Procs, NEW x \in Pods, Enqueue(p, x) PROVE calm
    BY <2>3 DEF Enqueue
  <2>4. ASSUME NEW t \in Tasks, NEW p \in Procs, NEW i \in 0 .. Runners - 1, RunOne(p, i, t)
        PROVE  calm
    BY <2>4 DEF RunOne
  <2>5. ASSUME NEW t \in Tasks, NEW k \in DOMAIN stream, ReceivePod(k, t) PROVE calm
    BY <2>5 DEF ReceivePod
  <2>6. \A k \in DOMAIN stream : ~StreamBreaks(k)
    BY DEF StreamBreaks
  <2> QED
    BY <2>1, <2>2, <2>3, <2>4, <2>5, <2>6 DEF Next
<1>2. TreeInv
  BY <1>1 DEF VisitInv
<1>3. ASSUME UNCHANGED <<task, stream, leader>> PROVE TreeInv'
  <2>1. \A t \in Tasks : VisitAsBefore(t)
    BY <1>3 DEF VisitAsBefore, SameCall, Used, Asked
  <2> QED
    BY <1>2, <1>3, <2>1, VisitKept
<1>4. CASE UNCHANGED vars
  BY <1>3, <1>4 DEF vars, taskVars, setVars
<1>5. ASSUME NEW p \in Procs, NEW x \in Pods, Enqueue(p, x) PROVE TreeInv'
  BY <1>3, <1>5 DEF Enqueue, setVars
<1>6. ASSUME NEW t \in Tasks, TaskIs(t, task'[t]), SameCall(task'[t], task[t]),
             task'[t].todo = task[t].todo, task[t].at \in {"pop", "schedule", "wait"},
             task'[t].at \in {"pop", "schedule", "wait"}, UNCHANGED <<stream, leader>>
      PROVE  TreeInv'
  <2>1. \A u \in Tasks : VisitAsBefore(u)
    BY <1>6 DEF TaskIs, VisitAsBefore, SameCall, Used, Asked
  <2> QED
    BY <1>2, <1>6, <2>1, VisitKept
<1>7. ASSUME NEW t \in Tasks, SkipScheduling(t) \/ PushScheduler(t) PROVE TreeInv'
  <2>1. /\ task' = [task EXCEPT ![t].at = "wait"] /\ task[t].at \in {"pop", "schedule"}
        /\ UNCHANGED <<stream, leader>>
    BY <1>7 DEF SkipScheduling, PushScheduler, setVars
  <2>2. /\ TaskIs(t, task'[t]) /\ task'[t].at = "wait" /\ SameCall(task'[t], task[t])
        /\ task'[t].todo = task[t].todo
    BY <1>0, <2>1, StageFacts
  <2> QED
    BY <1>6, <2>1, <2>2
<1>8. ASSUME NEW t \in Tasks, PopScheduler(t) PROVE TreeInv'
  <2>1. /\ TaskIs(t, task'[t]) /\ task[t].at = "pop" /\ task'[t].at = "schedule"
        /\ SameCall(task'[t], task[t]) /\ task'[t].todo = task[t].todo
        /\ UNCHANGED <<stream, leader>>
    BY <1>0, <1>8, PopSchedulerFacts DEF setVars
  <2> QED
    BY <1>6, <2>1
<1>9. ASSUME NEW t \in Tasks, ScheduleStep(t) PROVE TreeInv'
  <2>1. /\ \E a \in {"cycle", "done"} : task' = [task EXCEPT ![t].one = a]
        /\ task[t].one \in {"next", "cycle"} /\ UNCHANGED <<stream, leader>>
    BY <1>9 DEF ScheduleStep, NextPod, SchedulerDone, setVars
  <2>2. /\ TaskIs(t, task'[t]) /\ task'[t].at = task[t].at /\ SameCall(task'[t], task[t])
        /\ task'[t].todo = task[t].todo
    BY <1>0, <2>1, OneFacts
  <2>3. task[t].at = "schedule"
    BY <1>0, <2>1 DEF TaskOK
  <2> QED
    BY <1>6, <2>1, <2>2, <2>3
<1>10. ~\E t \in Tasks : WaitTimeout(t) \/ RelayFails(t) \/ \E q \in Procs : SendFails(t, q)
  BY DEF WaitTimeout, RelayFails, SendFails
<1>11. \A k \in DOMAIN stream : ~StreamBreaks(k)
  BY DEF StreamBreaks
<1> QED
  BY <1>1, <1>2, <1>4, <1>5, <1>7, <1>8, <1>9, <1>10, <1>11,
     RunOneVisit, ReceivePodVisit, RelayPodVisit, SendPodVisit, ReturnVisit DEF Next, TaskStep, SendStep

LEMMA VisitsCorrect == FanOut = Stride => (Spec => []VisitInv)
<1> SUFFICES ASSUME FanOut = Stride PROVE Spec => []VisitInv
  OBVIOUS
<1>1. Init => VisitInv
  <2> SUFFICES ASSUME Init, calm PROVE TreeInv
    BY DEF VisitInv
  <2>1. DOMAIN stream = {} /\ \A t \in Tasks : task[t].at = "unused" /\ task[t].todo = {}
    BY DEF Init, Unused
  <2>2. Agree
    BY DEF Init, Agree, Agreed
  <2>3. \A t \in Tasks : ~Used(t) /\ ~Asked(t)
    BY <2>1 DEF Used, Asked
  <2> QED
    BY <2>1, <2>2, <2>3 DEF TreeInv, SentOK, TodoOK, AwaitSub, Once, Covered, Quiet
<1>2. RelayInv /\ LatchInv /\ PlaceInv /\ VisitInv /\ [Next]_vars => VisitInv'
  BY VisitStep
<1> QED
  BY <1>1, <1>2, CallsServeStreams, LatchesCorrect, PlacesCorrect, PTL DEF Spec

(* One call at most makes one visit at most. *)
LEMMA OneVisit ==
  ASSUME RelayInv, PlaceInv, TreeInv, NEW p \in Procs, NEW x \in Pods
  PROVE  Cardinality(Visits(p, x)) <= 1
<1>1. \A t \in Visits(p, x) : t \in Tasks /\ Used(t) /\ task[t].proc = p /\ task[t].pod = x
  BY PodsAssumption DEF Visits, PlaceInv, RootOK
<1>2. \A t, u \in Visits(p, x) : t = u
  BY <1>1 DEF TreeInv, Once
<1>3. CASE Visits(p, x) = {}
  <2>1. Cardinality(Visits(p, x)) = 0
    BY <1>3, FS_EmptySet, Zenon
  <2> QED
    BY <2>1
<1>4. CASE Visits(p, x) # {}
  <2>1. PICK t : t \in Visits(p, x)
    BY <1>4
  <2>2. Visits(p, x) = {t}
    BY <1>2, <2>1
  <2>3. Cardinality(Visits(p, x)) = 1
    BY <2>2, FS_Singleton, Zenon
  <2> QED
    BY <2>3
<1> QED
  BY <1>3, <1>4

(* When the leader's call has returned, so have those of all the others:   *)
(* take the first member in sortMembers's order that has none.             *)
LEMMA AllFinished ==
  ASSUME FanOut = Stride, WaitPercent > 99, RelayInv, PlaceInv, TreeInv,
         NEW t \in Tasks, task[t].from = None, task[t].at = "done"
  PROVE  \A p \in Members0 : Finished(p, task[t].pod)
<1> SUFFICES ASSUME NEW p \in Members0, ~Finished(p, task[t].pod) PROVE FALSE
  OBVIOUS
<1>1. PICK l \in Members0 : \A a \in Members0 : leader[a] = l
  <2>1. leader[p] \in Members0 /\ \A a \in Members0 : leader[a] = leader[p]
    BY MembersAssumption DEF PlaceInv, ViewsFixed, TreeInv, Agree
  <2> QED
    BY <2>1
<1>2. PICK T : T = {n \in Nat : \E a \in Members0 : /\ n = Position(l, Members0, a)
                                                    /\ ~Finished(a, task[t].pod)}
  OBVIOUS
<1>3. Members0 \in SUBSET Procs
  BY MembersAssumption
<1>4. \A a \in Members0 : Position(l, Members0, a) \in Nat
  BY <1>3, AheadFinite
<1>5. T \subseteq Nat /\ T # {}
  BY <1>2, <1>4
<1>6. PICK n \in T : \A m \in T : n <= m
  BY <1>5, NatHasLeast
<1>7. PICK a \in Members0 : n = Position(l, Members0, a) /\ ~Finished(a, task[t].pod)
  BY <1>2
<1>8. Used(t) /\ task[t].proc \in Members0
  <2>1. Used(t)
    BY DEF Used
  <2> QED
    BY <2>1, CallersAreMembers
<1>9. task[t].proc = l
  BY <1>1, <1>8 DEF PlaceInv, RootOK
<1>10. a # l
  BY <1>7, <1>9 DEF Finished
<1>11. PICK b \in Members0 : Position(l, Members0, b) < Position(l, Members0, a) /\ a \in Sub(b)
  BY <1>1, <1>10, AgreedParent DEF TreeInv
<1>12. Finished(b, task[t].pod)
  <2> SUFFICES ASSUME ~Finished(b, task[t].pod) PROVE FALSE
    OBVIOUS
  <2>1. PICK m \in Nat : m = Position(l, Members0, b)
    BY <1>4
  <2>2. m \in T
    BY <1>2, <2>1
  <2> QED
    BY <1>4, <1>6, <1>7, <1>11, <2>1, <2>2
<1>13. PICK u \in Tasks : task[u].proc = b /\ task[u].pod = task[t].pod /\ task[u].at = "done"
  BY <1>12 DEF Finished
<1>14. task[u].todo = {} /\ Awaits(u) = {}
  BY <1>13 DEF RelayInv, TaskOK, TreeInv, Quiet
<1>15. Finished(a, task[u].pod)
  BY <1>11, <1>13, <1>14 DEF TreeInv, Covered, Asked
<1> QED
  BY <1>7, <1>13, <1>15

(***************************************************************************)
(* scheduler.go ProcessOne and RelayPod: with fanOut equal to the stride   *)
(* of GetSubMembers, while the processes agree on the leader and nothing   *)
(* has failed, no pod visits a process twice, whatever share of the        *)
(* sub-members a call waits for.                                           *)
(***************************************************************************)
THEOREM PodVisitsOnce ==
  FanOut = Stride =>
    (Spec => [](calm => \A x \in Pods, p \in Procs : Cardinality(Visits(p, x)) <= 1))
<1> SUFFICES ASSUME FanOut = Stride
             PROVE  Spec => [](calm => \A x \in Pods, p \in Procs : Cardinality(Visits(p, x)) <= 1)
  OBVIOUS
<1>1. RelayInv /\ PlaceInv /\ VisitInv =>
        (calm => \A x \in Pods, p \in Procs : Cardinality(Visits(p, x)) <= 1)
  BY OneVisit DEF VisitInv
<1> QED
  BY <1>1, CallsServeStreams, PlacesCorrect, VisitsCorrect, PTL

(***************************************************************************)
(* If moreover a call waits for all its sub-members (the percentage of     *)
(* --wait-for-subschedulers is 100; with less it may return while some     *)
(* have the pod still on the wire), then a pod whose call at the leader    *)
(* has returned has visited every member.                                  *)
(***************************************************************************)
THEOREM PodReachesAll == FanOut = Stride /\ WaitPercent > 99 => (Spec => []PodVisitsAll)
<1> SUFFICES ASSUME FanOut = Stride, WaitPercent > 99 PROVE Spec => []PodVisitsAll
  OBVIOUS
<1>1. ASSUME RelayInv, PlaceInv, VisitInv PROVE PodVisitsAll
  <2> SUFFICES ASSUME calm, NEW x \in Pods
               PROVE  /\ \A p \in Procs : Cardinality(Visits(p, x)) <= 1
                      /\ \A t \in Tasks :
                           task[t].pod = x /\ task[t].from = None /\ task[t].at = "done" =>
                             \A p \in Members0 : Visits(p, x) # {}
    BY DEF PodVisitsAll
  <2>1. TreeInv
    BY <1>1 DEF VisitInv
  <2>2. \A p \in Procs : Cardinality(Visits(p, x)) <= 1
    BY <1>1, <2>1, OneVisit
  <2>3. ASSUME NEW t \in Tasks, task[t].pod = x, task[t].from = None, task[t].at = "done",
               NEW p \in Members0
        PROVE  Visits(p, x) # {}
    <3>1. Finished(p, x)
      BY <1>1, <2>1, <2>3, AllFinished
    <3> QED
      BY <3>1 DEF Finished, Visits
  <2> QED
    BY <2>2, <2>3
<1>2. RelayInv /\ PlaceInv /\ VisitInv => PodVisitsAll
  BY <1>1
<1> QED
  BY <1>2, CallsServeStreams, PlacesCorrect, VisitsCorrect, PTL

===============================================================================
