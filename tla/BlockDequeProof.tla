--------------------------- MODULE BlockDequeProof ---------------------------
(***************************************************************************)
(* Proofs about BlockDeque: for every number of threads, every block size  *)
(* and every bound, revisions are dense, no two pushes in flight share     *)
(* one, what has been stored and not truncated is read back, and the deque *)
(* implements RevisionLog.                                                 *)
(***************************************************************************)
EXTENDS BlockDeque, SequenceTheorems, TLAPS

(***************************************************************************)
(* The inductive invariant.  DenseRevisions ties the two counters to the   *)
(* number of pushes even inside remove_before, which needs to know that    *)
(* its argument is not below start_offset and that no push can run while   *)
(* it is inside; then every index handed out is below the next one.        *)
(***************************************************************************)
RemoverHasTarget ==
  /\ (remover = None) <=> (target = None)
  /\ target # None => target >= start_offset

IndicesBelowPushed == \A t \in Threads : InFlight(t) => index[t] < pushed

IInv ==
  /\ TypeOK
  /\ DenseRevisions
  /\ RemoverHasTarget
  /\ IndicesBelowPushed
  /\ UniqueRevisions

(* Division of naturals stays in the naturals. *)
LEMMA DivMod ==
  ASSUME NEW a \in Nat, NEW n \in Nat \ {0}
  PROVE  a \div n \in Nat /\ a % n \in 0 .. n - 1
<1>1. a \div n \in Int /\ a % n \in 0 .. n - 1
  OBVIOUS
<1>2. a = n * (a \div n) + (a % n)
  OBVIOUS
<1>3. a \div n >= 0
  <2>1. SUFFICES ASSUME a \div n <= -1 PROVE FALSE
    BY <1>1
  <2>2. n * (a \div n) <= -n
    BY <1>1, <2>1
  <2> QED
    BY <1>1, <1>2, <2>2
<1> QED
  BY <1>1, <1>3

(* Storing into a slot keeps blocks a sequence of blocks. *)
LEMMA WithSlotType ==
  ASSUME NEW bs \in Seq([0 .. BLOCK_SIZE - 1 -> Slots]), NEW i \in Nat, NEW v \in Slots
  PROVE  WithSlot(bs, i, v) \in Seq([0 .. BLOCK_SIZE - 1 -> Slots])
<1> DEFINE B == [0 .. BLOCK_SIZE - 1 -> Slots]
           b == BlockIndex(i) + 1
           o == i % BLOCK_SIZE
<1>1. bs \in [1 .. Len(bs) -> B] /\ Len(bs) \in Nat
  OBVIOUS
<1>2. CASE b \in 1 .. Len(bs)
  <2>1. [bs[b] EXCEPT ![o] = v] \in B
    BY <1>1, <1>2
  <2>2. WithSlot(bs, i, v) = [bs EXCEPT ![b] = [bs[b] EXCEPT ![o] = v]]
    BY DEF WithSlot
  <2>3. WithSlot(bs, i, v) \in [1 .. Len(bs) -> B]
    BY <1>1, <2>1, <2>2
  <2> QED
    BY <1>1, <2>3
<1>3. CASE b \notin 1 .. Len(bs)
  <2>1. WithSlot(bs, i, v) \in [1 .. Len(bs) -> B]
    BY <1>1, <1>3 DEF WithSlot
  <2> QED
    BY <1>1, <2>1
<1> QED
  BY <1>2, <1>3

(* So does growing. *)
LEMMA GrownType ==
  ASSUME blocks \in Seq([0 .. BLOCK_SIZE - 1 -> Slots]), NEW i \in Nat, start_offset \in Nat
  PROVE  Grown(i) \in Seq([0 .. BLOCK_SIZE - 1 -> Slots])
<1>1. EmptyBlock \in [0 .. BLOCK_SIZE - 1 -> Slots]
  BY DEF EmptyBlock, Slots
<1>2. BlockIndex(i) \in Int
  BY BlockSizeAssumption DEF BlockIndex
<1>3. Len(blocks) \in Nat /\ blocks \in [1 .. Len(blocks) -> [0 .. BLOCK_SIZE - 1 -> Slots]]
  OBVIOUS
<1> DEFINE n == IF BlockIndex(i) >= Len(blocks) THEN BlockIndex(i) + 1 ELSE Len(blocks)
<1>4. n \in Nat
  BY <1>2, <1>3
<1>5. Grown(i) \in [1 .. n -> [0 .. BLOCK_SIZE - 1 -> Slots]]
  BY <1>1, <1>3, <1>4 DEF Grown
<1> QED
  BY <1>4, <1>5

(* Replacing the first element of a nonempty sequence. *)
LEMMA ReplaceFirst ==
  ASSUME NEW B, NEW s \in Seq(B), Len(s) > 0, NEW e \in B
  PROVE  [s EXCEPT ![1] = e] \in Seq(B)
<1>1. Len(s) \in Nat /\ s \in [1 .. Len(s) -> B]
  OBVIOUS
<1>2. [s EXCEPT ![1] = e] \in [1 .. Len(s) -> B]
  BY <1>1
<1> QED
  BY <1>1, <1>2

(* And trimming. *)
LEMMA TrimmedType ==
  ASSUME blocks \in Seq([0 .. BLOCK_SIZE - 1 -> Slots]), NEW i \in Nat, start_offset \in Nat,
         i >= start_offset, ~Underrun(i)
  PROVE  Trimmed(i) \in Seq([0 .. BLOCK_SIZE - 1 -> Slots])
<1> DEFINE B    == [0 .. BLOCK_SIZE - 1 -> Slots]
           d    == Reach(i) \div BLOCK_SIZE
           to   == Reach(i) % BLOCK_SIZE
           from == IF Reach(i) >= BLOCK_SIZE THEN 0 ELSE start_offset % BLOCK_SIZE
           kept == SubSeq(blocks, d + 1, Len(blocks))
           head == [o \in DOMAIN kept[1] |-> IF o >= from /\ o < to THEN None ELSE kept[1][o]]
<1>1. Reach(i) \in Nat
  BY BlockSizeAssumption DEF Reach
<1>2. d \in Nat /\ to \in Nat
  <2>1. PICK r \in Nat : r = Reach(i)
    BY <1>1
  <2>2. r \div BLOCK_SIZE \in Nat /\ r % BLOCK_SIZE \in 0 .. BLOCK_SIZE - 1
    BY DivMod, BlockSizeAssumption
  <2> QED
    BY <2>1, <2>2
<1>3. Len(blocks) \in Nat /\ blocks \in Seq(B)
  OBVIOUS
<1>4. Trimmed(i) = IF to = 0 THEN kept ELSE [kept EXCEPT ![1] = head]
  BY DEF Trimmed
<1>5. to # 0 => d + 1 <= Len(blocks)
  <2> HIDE DEF d, to
  <2>1. d <= Len(blocks) /\ (d = Len(blocks) => ~(to > 0))
    BY <1>2, <1>3 DEF Underrun, d, to
  <2> QED
    BY <1>2, <1>3, <2>1
<1> HIDE DEF B, d, to, from
<1>6. kept \in Seq(B) /\ (d + 1 <= Len(blocks) => Len(kept) > 0)
  BY <1>2, <1>3, SubSeqProperties
<1>7. CASE to = 0
  BY <1>4, <1>6, <1>7 DEF B
<1>8. CASE to # 0
  <2>1. Len(kept) > 0
    BY <1>5, <1>6, <1>8
  <2> HIDE DEF kept
  <2>2. kept[1] \in B
    BY <1>6, <2>1
  <2>3. head \in B
    BY <2>2 DEF B, Slots
  <2> HIDE DEF head
  <2>4. [kept EXCEPT ![1] = head] \in Seq(B)
    BY <1>6, <2>1, <2>3, ReplaceFirst
  <2> QED
    BY <1>4, <1>8, <2>4 DEF B
<1> QED
  BY <1>7, <1>8

-----------------------------------------------------------------------------
LEMMA InitIInv == Init => IInv
<1> SUFFICES ASSUME Init PROVE IInv
  OBVIOUS
<1> USE DEF Init
<1>1. blocks \in Seq([0 .. BLOCK_SIZE - 1 -> Slots])
  OBVIOUS
<1>2. reader \in [Readers -> Calls]
  <2>1. NoCall \in Calls
    BY DEF Calls, NoCall
  <2> QED
    BY <2>1
<1>3. poisoned \in BOOLEAN /\ pc \in [Threads -> {"idle", "reserved", "grow", "placed"}]
  OBVIOUS
<1>4. TypeOK
  BY <1>1, <1>2, <1>3 DEF TypeOK
<1>5. DenseRevisions /\ RemoverHasTarget
  BY DEF DenseRevisions, LiveLength, Pending, RemoverHasTarget
<1>6. IndicesBelowPushed /\ UniqueRevisions
  BY DEF IndicesBelowPushed, UniqueRevisions, InFlight
<1> QED
  BY <1>4, <1>5, <1>6 DEF IInv

(***************************************************************************)
(* One lemma per action that changes the deque.                            *)
(***************************************************************************)
LEMMA PushReserveIInv ==
  ASSUME IInv, NEW t \in Threads, PushReserve(t)
  PROVE  IInv'
<1> USE DEF IInv, PushReserve, CanRead, InFlight
<1>1. TypeOK'
  BY DEF TypeOK
<1>2. length + start_offset = pushed /\ target = None
  BY DEF TypeOK, DenseRevisions, LiveLength, Pending, RemoverHasTarget
<1>3. DenseRevisions' /\ RemoverHasTarget'
  BY <1>2 DEF TypeOK, DenseRevisions, LiveLength, Pending, RemoverHasTarget
<1>4. IndicesBelowPushed'
  BY <1>2 DEF TypeOK, IndicesBelowPushed
<1>5. UniqueRevisions'
  BY <1>2 DEF TypeOK, IndicesBelowPushed, UniqueRevisions
<1> QED
  BY <1>1, <1>3, <1>4, <1>5

(***************************************************************************)
(* The actions that leave the counters, the lock's holder and the indices  *)
(* alone and put no thread in flight: only the typing is left to show.     *)
(***************************************************************************)
LEMMA SameCounters ==
  ASSUME IInv, TypeOK',
         UNCHANGED <<start_offset, length, remover, target, index, pushed>>,
         \A t \in Threads : pc'[t] # "idle" => pc[t] # "idle"
  PROVE  IInv'
<1>1. DenseRevisions' /\ RemoverHasTarget'
  BY DEF IInv, DenseRevisions, LiveLength, Pending, RemoverHasTarget
<1>2. IndicesBelowPushed' /\ UniqueRevisions'
  BY DEF IInv, IndicesBelowPushed, UniqueRevisions, InFlight
<1> QED
  BY <1>1, <1>2 DEF IInv

LEMMA PushStoreIInv ==
  ASSUME IInv, NEW t \in Threads, PushStore(t)
  PROVE  IInv'
<1>1. blocks' \in Seq([0 .. BLOCK_SIZE - 1 -> Slots])
  BY WithSlotType DEF IInv, TypeOK, PushStore, Slots
<1>2. TypeOK'
  BY <1>1 DEF IInv, TypeOK, PushStore
<1> QED
  BY <1>2, SameCounters DEF IInv, TypeOK, PushStore

LEMMA PushMissIInv ==
  ASSUME IInv, NEW t \in Threads, PushMiss(t)
  PROVE  IInv'
<1>1. TypeOK'
  BY DEF IInv, TypeOK, PushMiss
<1> QED
  BY <1>1, SameCounters DEF IInv, TypeOK, PushMiss

LEMMA PushGrowIInv ==
  ASSUME IInv, NEW t \in Threads, PushGrow(t)
  PROVE  IInv'
<1>1. blocks' \in Seq([0 .. BLOCK_SIZE - 1 -> Slots])
  <2>1. Grown(index[t]) \in Seq([0 .. BLOCK_SIZE - 1 -> Slots])
    BY GrownType DEF IInv, TypeOK
  <2>2. WithSlot(Grown(index[t]), index[t], 0) \in Seq([0 .. BLOCK_SIZE - 1 -> Slots])
    BY <2>1, WithSlotType DEF IInv, TypeOK, Slots
  <2> QED
    BY <2>2 DEF IInv, TypeOK, PushGrow
<1>2. TypeOK'
  BY <1>1 DEF IInv, TypeOK, PushGrow
<1>3. \A u \in Threads : pc'[u] # "idle" => pc[u] # "idle"
  BY DEF IInv, TypeOK, PushGrow
<1> QED
  BY <1>2, <1>3, SameCounters DEF PushGrow

LEMMA SetIInv ==
  ASSUME IInv, NEW t \in Threads, Set(t)
  PROVE  IInv'
<1>1. blocks' \in Seq([0 .. BLOCK_SIZE - 1 -> Slots])
  <2>1. index[t] \in Nat /\ index[t] + 1 \in Slots
    BY DEF IInv, TypeOK, Slots
  <2>2. WithSlot(blocks, index[t], index[t] + 1) \in Seq([0 .. BLOCK_SIZE - 1 -> Slots])
    BY <2>1, WithSlotType DEF IInv, TypeOK
  <2> QED
    BY <2>2 DEF IInv, TypeOK, Set
<1>2. TypeOK'
  BY <1>1 DEF IInv, TypeOK, Set
<1> QED
  BY <1>2, SameCounters DEF IInv, TypeOK, Set

LEMMA RemoveShortenIInv ==
  ASSUME IInv, NEW t \in Threads, NEW i \in start_offset .. start_offset + length,
         RemoveShorten(t, i)
  PROVE  IInv'
<1>1. i \in Nat /\ length - (i - start_offset) \in Nat
  BY DEF IInv, TypeOK
<1>2. TypeOK'
  BY <1>1 DEF IInv, TypeOK, RemoveShorten, Shortened
<1>3. DenseRevisions' /\ RemoverHasTarget'
  BY <1>1, NoneAssumption
     DEF IInv, TypeOK, DenseRevisions, LiveLength, Pending, RemoverHasTarget,
         RemoveShorten, Shortened, CanWrite, CanRead
<1>4. IndicesBelowPushed' /\ UniqueRevisions'
  BY DEF IInv, IndicesBelowPushed, UniqueRevisions, InFlight, RemoveShorten
<1> QED
  BY <1>2, <1>3, <1>4 DEF IInv

LEMMA RemoveTrimIInv ==
  ASSUME IInv, NEW t \in Threads, RemoveTrim(t)
  PROVE  IInv'
<1>1. target \in Nat /\ target >= start_offset
  BY NoneAssumption DEF IInv, TypeOK, RemoverHasTarget, RemoveTrim
<1>2. CASE Underrun(target)
  <2>1. TypeOK'
    BY <1>2 DEF IInv, TypeOK, RemoveTrim
  <2> QED
    BY <1>2, <2>1, SameCounters DEF RemoveTrim
<1>3. CASE ~Underrun(target)
  <2>1. Trimmed(target) \in Seq([0 .. BLOCK_SIZE - 1 -> Slots])
    BY <1>1, <1>3, TrimmedType DEF IInv, TypeOK
  <2>2. TypeOK'
    BY <1>1, <1>3, <2>1 DEF IInv, TypeOK, RemoveTrim
  <2>3. DenseRevisions' /\ RemoverHasTarget'
    <3>1. /\ start_offset' = target /\ target' = None /\ remover' = None
          /\ length' = length /\ pushed' = pushed
      BY <1>3 DEF RemoveTrim
    <3>2. start_offset + (length + (target - start_offset)) = pushed
      BY <1>1, NoneAssumption DEF IInv, DenseRevisions, LiveLength, Pending
    <3>3. target + length = pushed
      BY <1>1, <3>2 DEF IInv, TypeOK
    <3> QED
      BY <1>1, <3>1, <3>3
         DEF IInv, TypeOK, DenseRevisions, LiveLength, Pending, RemoverHasTarget
  <2>4. IndicesBelowPushed' /\ UniqueRevisions'
    BY DEF IInv, IndicesBelowPushed, UniqueRevisions, InFlight, RemoveTrim
  <2> QED
    BY <2>2, <2>3, <2>4 DEF IInv
<1> QED
  BY <1>2, <1>3

LEMMA PanicOnPoisonIInv ==
  ASSUME IInv, NEW t \in Threads, PanicOnPoison(t)
  PROVE  IInv'
<1>1. TypeOK'
  BY DEF IInv, TypeOK, PanicOnPoison, dequeVars
<1>2. \A u \in Threads : pc'[u] # "idle" => pc[u] # "idle"
  BY DEF IInv, TypeOK, PanicOnPoison
<1> QED
  BY <1>1, <1>2, SameCounters DEF PanicOnPoison, dequeVars

(* latest_revision changes nothing but its own caller's state. *)
LEMMA LatestIInv ==
  ASSUME IInv, NEW r \in Readers,
         LatestLoadLength(r) \/ LatestLoadOffset(r) \/ LatestReturn(r)
  PROVE  IInv'
<1> USE DEF IInv, TypeOK, dequeVars
<1>1. reader' \in [Readers -> Calls]
  <2>1. CASE LatestLoadLength(r)
    <3> DEFINE call == [at |-> "length", length |-> length, saw |-> 0, result |-> 0,
                        since |-> pushed, offset |-> start_offset, quiet |-> (remover = None)]
    <3>1. (remover = None) \in BOOLEAN
      OBVIOUS
    <3>2. call \in Calls
      BY <3>1 DEF Calls
    <3>3. reader' = [reader EXCEPT ![r] = call]
      BY <2>1 DEF LatestLoadLength
    <3> QED
      BY <3>2, <3>3
  <2>2. CASE LatestLoadOffset(r)
    <3> DEFINE call == [reader[r] EXCEPT !.at = "done", !.saw = start_offset,
                                         !.result = reader[r].length + start_offset]
    <3>1. reader[r] \in Calls
      OBVIOUS
    <3>2. reader[r].length + start_offset \in Nat
      BY <3>1 DEF Calls
    <3>3. call \in Calls
      BY <3>1, <3>2 DEF Calls
    <3>4. reader' = [reader EXCEPT ![r] = call]
      BY <2>2 DEF LatestLoadOffset
    <3> QED
      BY <3>3, <3>4
  <2>3. CASE LatestReturn(r)
    <3>1. NoCall \in Calls
      BY DEF Calls, NoCall
    <3> QED
      BY <2>3, <3>1 DEF LatestReturn
  <2> QED
    BY <2>1, <2>2, <2>3
<1>2. UNCHANGED <<dequeVars, pc, index, pushed>>
  BY DEF LatestLoadLength, LatestLoadOffset, LatestReturn
<1>3. TypeOK'
  BY <1>1, <1>2
<1> QED
  BY <1>2, <1>3, SameCounters

(***************************************************************************)
(* The invariant is inductive.                                             *)
(***************************************************************************)
LEMMA NextIInv == IInv /\ [Next]_vars => IInv'
<1> SUFFICES ASSUME IInv, [Next]_vars PROVE IInv'
  OBVIOUS
<1>1. CASE UNCHANGED vars
  <2>1. TypeOK'
    BY <1>1 DEF IInv, TypeOK, vars, dequeVars
  <2> QED
    BY <1>1, <2>1, SameCounters DEF vars, dequeVars
<1>2. ASSUME NEW t \in Threads,
             \/ PushReserve(t) \/ PushStore(t) \/ PushMiss(t) \/ PushGrow(t) \/ Set(t)
             \/ \E i \in start_offset .. start_offset + length : RemoveShorten(t, i)
             \/ RemoveTrim(t) \/ PanicOnPoison(t)
      PROVE  IInv'
  BY <1>2, PushReserveIInv, PushStoreIInv, PushMissIInv, PushGrowIInv, SetIInv,
     RemoveShortenIInv, RemoveTrimIInv, PanicOnPoisonIInv
<1>3. ASSUME NEW r \in Readers,
             LatestLoadLength(r) \/ LatestLoadOffset(r) \/ LatestReturn(r)
      PROVE  IInv'
  BY <1>3, LatestIInv
<1> QED
  BY <1>1, <1>2, <1>3 DEF Next

LEMMA AlwaysIInv == Spec => []IInv
  BY InitIInv, NextIInv, PTL DEF Spec

-----------------------------------------------------------------------------
(***************************************************************************)
(* Every reachable state is well typed: in particular length, an unsigned  *)
(* atomic that remove_before subtracts from, never goes below zero, and    *)
(* blocks stays a sequence of whole blocks.                                *)
(***************************************************************************)
THEOREM TypeCorrect == Spec => []TypeOK
<1>1. IInv => TypeOK
  BY DEF IInv
<1> QED
  BY <1>1, AlwaysIInv, PTL

(***************************************************************************)
(* push hands out the indices 0, 1, 2, ... without a gap, whatever         *)
(* remove_before does to length and start_offset meanwhile.                *)
(***************************************************************************)
THEOREM RevisionsAreDense == Spec => []DenseRevisions
<1>1. IInv => DenseRevisions
  BY DEF IInv
<1> QED
  BY <1>1, AlwaysIInv, PTL

(***************************************************************************)
(* Two overlapping calls of push are never given the same index.           *)
(***************************************************************************)
THEOREM RevisionsAreUnique == Spec => []UniqueRevisions
<1>1. IInv => UniqueRevisions
  BY DEF IInv
<1> QED
  BY <1>1, AlwaysIInv, PTL

-----------------------------------------------------------------------------
(***************************************************************************)
(* What latest_revision knows between its loads.  The first conjunct is    *)
(* DenseRevisions as it was when length was loaded.                        *)
(***************************************************************************)
LoadedLength(r) ==
  /\ reader[r].at # "idle" /\ reader[r].quiet =>
       reader[r].length + reader[r].offset = reader[r].since
  /\ reader[r].at = "done" => reader[r].result = reader[r].length + reader[r].saw

LEMMA NextLoaded ==
  ASSUME IInv, [Next]_vars, NEW r \in Readers, LoadedLength(r)
  PROVE  LoadedLength(r)'
<1>1. CASE reader' = reader
  BY <1>1 DEF LoadedLength
<1>2. ASSUME NEW q \in Readers, q # r,
             LatestLoadLength(q) \/ LatestLoadOffset(q) \/ LatestReturn(q)
      PROVE  LoadedLength(r)'
  <2>1. reader'[r] = reader[r]
    BY <1>2 DEF IInv, TypeOK, LatestLoadLength, LatestLoadOffset, LatestReturn
  <2> QED
    BY <2>1 DEF LoadedLength
<1>3. CASE LatestLoadLength(r)
  <2>1. PICK q \in BOOLEAN : q = (remover = None)
    OBVIOUS
  <2>2. reader'[r] = [at |-> "length", length |-> length, saw |-> 0, result |-> 0,
                      since |-> pushed, offset |-> start_offset, quiet |-> q]
    BY <1>3, <2>1 DEF IInv, TypeOK, LatestLoadLength
  <2>3. remover = None => length + start_offset = pushed
    BY DEF IInv, TypeOK, DenseRevisions, LiveLength, Pending, RemoverHasTarget
  <2>4. q => length + start_offset = pushed
    BY <2>1, <2>3, Zenon
  <2> QED
    BY <2>2, <2>4 DEF LoadedLength
<1>4. CASE LatestLoadOffset(r)
  <2>1. reader[r] \in Calls
    BY DEF IInv, TypeOK
  <2>2. reader'[r] = [reader[r] EXCEPT !.at = "done", !.saw = start_offset,
                                       !.result = reader[r].length + start_offset]
    BY <1>4 DEF IInv, TypeOK, LatestLoadOffset
  <2>3. /\ reader'[r].quiet = reader[r].quiet
        /\ reader'[r].length = reader[r].length
        /\ reader'[r].offset = reader[r].offset
        /\ reader'[r].since = reader[r].since
        /\ reader'[r].saw = start_offset
        /\ reader'[r].result = reader[r].length + start_offset
    BY <2>1, <2>2 DEF Calls
  <2>4. reader[r].at = "length"
    BY <1>4 DEF LatestLoadOffset
  <2> QED
    BY <2>3, <2>4 DEF LoadedLength
<1>5. CASE LatestReturn(r)
  BY <1>5 DEF IInv, TypeOK, LatestReturn, LoadedLength, NoCall
<1>6. reader' = reader \/ \E q \in Readers :
                             LatestLoadLength(q) \/ LatestLoadOffset(q) \/ LatestReturn(q)
  BY DEF Next, vars, PushReserve, PushStore, PushMiss, PushGrow, Set, RemoveShorten,
         RemoveTrim, PanicOnPoison
<1> QED
  BY <1>1, <1>2, <1>3, <1>4, <1>5, <1>6

(***************************************************************************)
(* latest_revision returns the number of revisions assigned when it loaded *)
(* length, unless a truncation was under way or finished before its second *)
(* load.                                                                   *)
(***************************************************************************)
THEOREM LatestRevisionIsCurrent == Spec => []LatestIsCurrent
<1> DEFINE Loaded == \A r \in Readers : LoadedLength(r)
<1>1. Init => Loaded
  BY DEF Init, LoadedLength, NoCall
<1>2. IInv /\ Loaded /\ [Next]_vars => Loaded'
  BY NextLoaded
<1>3. IInv /\ Loaded => LatestIsCurrent
  BY DEF LoadedLength, LatestIsCurrent, IInv, TypeOK, Calls
<1> HIDE DEF Loaded
<1> QED
  BY <1>1, <1>2, <1>3, AlwaysIInv, PTL DEF Spec

-----------------------------------------------------------------------------
(***************************************************************************)
(* The slots.  What follows shows that a stored value stays where get      *)
(* looks for it, although remove_before renumbers the blocks, and with it  *)
(* that the deque implements the abstract log.                             *)
(***************************************************************************)
LEMMA DivUnique ==
  ASSUME NEW a \in Int, NEW n \in Nat \ {0}, NEW q \in Int, NEW r \in 0 .. n - 1,
         a = n * q + r
  PROVE  a \div n = q /\ a % n = r
<1>1. PICK p \in Int : p = a \div n
  OBVIOUS
<1>2. PICK m \in 0 .. n - 1 : m = a % n
  OBVIOUS
<1>3. a = n * p + m
  BY <1>1, <1>2
<1>4. n * (q - p) = m - r
  BY <1>3
<1>5. q - p < 1
  <2> SUFFICES ASSUME q - p >= 1 PROVE FALSE
    OBVIOUS
  <2>1. n * (q - p) >= n
    OBVIOUS
  <2> QED
    BY <1>4, <2>1
<1>6. q - p > -1
  <2> SUFFICES ASSUME q - p <= -1 PROVE FALSE
    OBVIOUS
  <2>1. n * (q - p) <= -n
    OBVIOUS
  <2> QED
    BY <1>4, <2>1
<1>7. p = q
  BY <1>5, <1>6
<1>8. m = r
  BY <1>3, <1>7
<1> QED
  BY <1>1, <1>2, <1>7, <1>8

(* An index is determined by its block and its place in the block. *)
LEMMA SlotUnique ==
  ASSUME NEW i \in Nat, NEW j \in Nat, start_offset \in Nat,
         BlockIndex(i) = BlockIndex(j), i % BLOCK_SIZE = j % BLOCK_SIZE
  PROVE  i = j
<1>1. /\ i = BLOCK_SIZE * (i \div BLOCK_SIZE) + (i % BLOCK_SIZE)
      /\ j = BLOCK_SIZE * (j \div BLOCK_SIZE) + (j % BLOCK_SIZE)
  BY BlockSizeAssumption
<1>2. /\ i \div BLOCK_SIZE \in Int /\ j \div BLOCK_SIZE \in Int
      /\ start_offset \div BLOCK_SIZE \in Int
  BY BlockSizeAssumption
<1>3. i \div BLOCK_SIZE = j \div BLOCK_SIZE
  BY <1>2 DEF BlockIndex
<1> QED
  BY <1>1, <1>3

(* Later indices are in later blocks, or further on in the same one. *)
LEMMA SlotOrder ==
  ASSUME NEW n \in Nat \ {0}, NEW i \in Nat, NEW j \in Nat, i <= j
  PROVE  /\ i \div n <= j \div n
         /\ i \div n = j \div n => i % n <= j % n
<1>1. PICK p \in Int : p = i \div n
  OBVIOUS
<1>2. PICK q \in Int : q = j \div n
  OBVIOUS
<1>3. PICK a \in 0 .. n - 1 : a = i % n
  OBVIOUS
<1>4. PICK b \in 0 .. n - 1 : b = j % n
  OBVIOUS
<1>5. i = n * p + a /\ j = n * q + b
  BY <1>1, <1>2, <1>3, <1>4
<1>6. p <= q
  <2> SUFFICES ASSUME p - q >= 1 PROVE FALSE
    OBVIOUS
  <2>1. n * (p - q) >= n
    OBVIOUS
  <2>2. n * (p - q) = (i - a) - (j - b)
    BY <1>5
  <2> QED
    BY <2>1, <2>2
<1>7. p = q => a <= b
  BY <1>5
<1> QED
  BY <1>1, <1>2, <1>3, <1>4, <1>6, <1>7

(* What remove_before computes from Reach, in terms of the index itself. *)
LEMMA ReachIs ==
  ASSUME NEW i \in Nat, start_offset \in Nat
  PROVE  /\ Reach(i) \div BLOCK_SIZE = BlockIndex(i)
         /\ Reach(i) % BLOCK_SIZE = i % BLOCK_SIZE
<1>1. PICK n \in Nat \ {0} : n = BLOCK_SIZE
  BY BlockSizeAssumption
<1>2. PICK q \in Int : q = i \div n
  BY <1>1
<1>3. PICK r \in 0 .. n - 1 : r = i % n
  BY <1>1
<1>4. PICK p \in Int : p = start_offset \div n
  BY <1>1
<1>5. PICK s \in 0 .. n - 1 : s = start_offset % n
  BY <1>1
<1>6. i = n * q + r /\ start_offset = n * p + s
  BY <1>1, <1>2, <1>3, <1>4, <1>5
<1>7. Reach(i) = i - (start_offset - s)
  BY <1>1, <1>5 DEF Reach
<1>8. PICK a \in Int : a = Reach(i)
  BY <1>7
<1>9. a = n * (q - p) + r
  BY <1>6, <1>7, <1>8
<1>10. a \div n = q - p /\ a % n = r
  BY <1>9, DivUnique
<1> QED
  BY <1>1, <1>2, <1>3, <1>4, <1>8, <1>10 DEF BlockIndex

Block == [0 .. BLOCK_SIZE - 1 -> Slots]

(* Storing into slot i changes slot i and no other. *)
LEMMA WithSlotIs ==
  ASSUME NEW bs \in Seq(Block), start_offset \in Nat, NEW i \in Nat, NEW v \in Slots,
         BlockIndex(i) + 1 \in DOMAIN bs
  PROVE  /\ DOMAIN WithSlot(bs, i, v) = DOMAIN bs
         /\ \A j \in Nat : BlockIndex(j) + 1 \in DOMAIN bs =>
              WithSlot(bs, i, v)[BlockIndex(j) + 1][j % BLOCK_SIZE]
                = IF j = i THEN v ELSE bs[BlockIndex(j) + 1][j % BLOCK_SIZE]
<1>1. Len(bs) \in Nat /\ bs \in [1 .. Len(bs) -> Block] /\ DOMAIN bs = 1 .. Len(bs)
  OBVIOUS
<1> DEFINE b == BlockIndex(i) + 1
           o == i % BLOCK_SIZE
           e == [bs[b] EXCEPT ![o] = v]
           ns == WithSlot(bs, i, v)
<1>2. ns = [bs EXCEPT ![b] = e]
  BY DEF WithSlot
<1>3. DOMAIN ns = DOMAIN bs
  BY <1>1, <1>2
<1>4. b \in 1 .. Len(bs) /\ bs[b] \in Block
  BY <1>1
<1>5. \A j \in Nat : j % BLOCK_SIZE \in 0 .. BLOCK_SIZE - 1
  BY BlockSizeAssumption
<1>6. \A p \in 0 .. BLOCK_SIZE - 1 : e[p] = IF p = o THEN v ELSE bs[b][p]
  BY <1>4 DEF Block
<1>7. \A c \in 1 .. Len(bs) : ns[c] = IF c = b THEN e ELSE bs[c]
  BY <1>1, <1>2
<1> HIDE DEF e, ns
<1>8. ASSUME NEW j \in Nat, BlockIndex(j) + 1 \in 1 .. Len(bs)
      PROVE  ns[BlockIndex(j) + 1][j % BLOCK_SIZE]
               = IF j = i THEN v ELSE bs[BlockIndex(j) + 1][j % BLOCK_SIZE]
  <2>1. BlockIndex(j) \in Int /\ BlockIndex(i) \in Int
    BY BlockSizeAssumption DEF BlockIndex
  <2>2. CASE BlockIndex(j) + 1 = b /\ j % BLOCK_SIZE = o
    <3>1. j = i
      BY <2>1, <2>2, SlotUnique
    <3> QED
      BY <1>5, <1>6, <1>7, <1>8, <2>2, <3>1
  <2>3. CASE BlockIndex(j) + 1 # b
    <3>1. j # i
      BY <2>3
    <3> QED
      BY <1>7, <1>8, <2>3, <3>1
  <2>4. CASE BlockIndex(j) + 1 = b /\ j % BLOCK_SIZE # o
    <3>1. j # i
      BY <2>4
    <3>2. e[j % BLOCK_SIZE] = bs[b][j % BLOCK_SIZE]
      BY <1>5, <1>6, <2>4
    <3> QED
      BY <1>7, <1>8, <2>4, <3>1, <3>2
  <2> QED
    BY <2>2, <2>3, <2>4
<1> QED
  BY <1>1, <1>3, <1>8 DEF ns

(* Growing adds empty blocks up to the one of index i. *)
LEMMA GrownIs ==
  ASSUME blocks \in Seq(Block), start_offset \in Nat, NEW i \in Nat, BlockIndex(i) >= 0
  PROVE  /\ BlockIndex(i) + 1 \in DOMAIN Grown(i)
         /\ DOMAIN blocks \subseteq DOMAIN Grown(i)
         /\ \A b \in DOMAIN Grown(i) : \A o \in 0 .. BLOCK_SIZE - 1 :
              Grown(i)[b][o] = IF b \in DOMAIN blocks THEN blocks[b][o] ELSE None
<1>1. Len(blocks) \in Nat /\ DOMAIN blocks = 1 .. Len(blocks)
  OBVIOUS
<1>2. BlockIndex(i) \in Int
  BY BlockSizeAssumption DEF BlockIndex
<1> DEFINE n == IF BlockIndex(i) >= Len(blocks) THEN BlockIndex(i) + 1 ELSE Len(blocks)
<1>3. n \in Nat /\ BlockIndex(i) + 1 \in 1 .. n /\ Len(blocks) <= n
  BY <1>1, <1>2
<1> HIDE DEF n
<1>4. Grown(i) = [b \in 1 .. n |-> IF b <= Len(blocks) THEN blocks[b] ELSE EmptyBlock]
  BY DEF Grown, n
<1>5. \A b \in 1 .. n : b <= Len(blocks) <=> b \in DOMAIN blocks
  BY <1>1, <1>3
<1>6. \A o \in 0 .. BLOCK_SIZE - 1 : EmptyBlock[o] = None
  BY DEF EmptyBlock
<1> QED
  BY <1>1, <1>3, <1>4, <1>5, <1>6

(* A slice of blocks, by position. *)
LEMMA SliceIs ==
  ASSUME NEW B, NEW s \in Seq(B), NEW d \in Nat, d <= Len(s)
  PROVE  /\ DOMAIN SubSeq(s, d + 1, Len(s)) = 1 .. Len(s) - d
         /\ \A b \in 1 .. Len(s) - d : SubSeq(s, d + 1, Len(s))[b] = s[b + d]
<1>1. Len(s) \in Nat
  OBVIOUS
<1>2. PICK n \in Nat : n = Len(s)
  BY <1>1
<1>3. SubSeq(s, d + 1, n) = [b \in 1 .. (1 + n - (d + 1)) |-> s[b + (d + 1) - 1]]
  OBVIOUS
<1>4. 1 .. (1 + n - (d + 1)) = 1 .. n - d /\ \A b \in 1 .. n - d : b + (d + 1) - 1 = b + d
  BY <1>2
<1>5. DOMAIN SubSeq(s, d + 1, n) = 1 .. n - d
  BY <1>3, <1>4
<1>6. ASSUME NEW b \in 1 .. n - d PROVE SubSeq(s, d + 1, n)[b] = s[b + d]
  <2>1. b \in 1 .. (1 + n - (d + 1)) /\ b + (d + 1) - 1 = b + d
    BY <1>4
  <2>2. SubSeq(s, d + 1, n)[b] = s[b + (d + 1) - 1]
    BY <1>3, <2>1
  <2> QED
    BY <2>1, <2>2
<1> QED
  BY <1>2, <1>5, <1>6

(***************************************************************************)
(* remove_before(i) keeps slot j, for j from i on, and block_index finds   *)
(* it there when start_offset is i.                                        *)
(***************************************************************************)
LEMMA TrimmedIs ==
  ASSUME blocks \in Seq(Block), start_offset \in Nat, NEW i \in Nat, i >= start_offset,
         ~Underrun(i), NEW j \in Nat, j >= i
  PROVE  LET b == (j \div BLOCK_SIZE) - (i \div BLOCK_SIZE) + 1
         IN  /\ b \in DOMAIN Trimmed(i) <=> BlockIndex(j) + 1 \in DOMAIN blocks
             /\ b \in DOMAIN Trimmed(i) =>
                  Trimmed(i)[b][j % BLOCK_SIZE] = blocks[BlockIndex(j) + 1][j % BLOCK_SIZE]
<1> DEFINE b    == (j \div BLOCK_SIZE) - (i \div BLOCK_SIZE) + 1
           d    == Reach(i) \div BLOCK_SIZE
           to   == Reach(i) % BLOCK_SIZE
           from == IF Reach(i) >= BLOCK_SIZE THEN 0 ELSE start_offset % BLOCK_SIZE
           kept == SubSeq(blocks, d + 1, Len(blocks))
           head == [o \in DOMAIN kept[1] |-> IF o >= from /\ o < to THEN None ELSE kept[1][o]]
<1>1. Trimmed(i) = IF to = 0 THEN kept ELSE [kept EXCEPT ![1] = head]
  BY DEF Trimmed
<1>2. d = BlockIndex(i) /\ to = i % BLOCK_SIZE
  BY ReachIs
<1>3. /\ i \div BLOCK_SIZE \in Int /\ j \div BLOCK_SIZE \in Int
      /\ start_offset \div BLOCK_SIZE \in Int
      /\ i % BLOCK_SIZE \in 0 .. BLOCK_SIZE - 1 /\ j % BLOCK_SIZE \in 0 .. BLOCK_SIZE - 1
  BY BlockSizeAssumption
<1>4. i \div BLOCK_SIZE >= start_offset \div BLOCK_SIZE
  BY SlotOrder, BlockSizeAssumption
<1>5. /\ j \div BLOCK_SIZE >= i \div BLOCK_SIZE
      /\ j \div BLOCK_SIZE = i \div BLOCK_SIZE => j % BLOCK_SIZE >= i % BLOCK_SIZE
  BY SlotOrder, BlockSizeAssumption
<1>6. d \in Nat /\ to \in Nat
  BY <1>2, <1>3, <1>4 DEF BlockIndex
<1>7. BlockIndex(j) + 1 = b + d /\ b \in Nat \ {0} /\ BlockIndex(j) \in Int
  BY <1>2, <1>3, <1>5, SMTT(30) DEF BlockIndex
<1>8. Len(blocks) \in Nat /\ DOMAIN blocks = 1 .. Len(blocks)
  OBVIOUS
<1>9. d <= Len(blocks) /\ (to # 0 => d < Len(blocks))
  <2>1. PICK e \in Nat, m \in Nat, n \in Nat : e = d /\ m = to /\ n = Len(blocks)
    BY <1>6, <1>8
  <2>2. ~(e > n) /\ (e = n => ~(m > 0))
    BY <2>1 DEF Underrun
  <2>3. e <= n /\ (m # 0 => e < n)
    BY <2>2
  <2> QED
    BY <2>1, <2>3
<1>10. b = 1 => j % BLOCK_SIZE >= to
  BY <1>2, <1>3, <1>5
<1> HIDE DEF b, d, to, from
<1>11. DOMAIN kept = 1 .. Len(blocks) - d
       /\ \A c \in 1 .. Len(blocks) - d : kept[c] = blocks[c + d]
  BY <1>6, <1>9, SliceIs
<1> HIDE DEF kept
<1>12. b \in DOMAIN kept <=> BlockIndex(j) + 1 \in DOMAIN blocks
  BY <1>6, <1>7, <1>8, <1>11
<1>13. b \in DOMAIN kept => kept[b] = blocks[BlockIndex(j) + 1]
  BY <1>7, <1>11
<1>14. CASE to = 0
  BY <1>1, <1>12, <1>13, <1>14 DEF b
<1>15. CASE to # 0
  <2>1. DOMAIN Trimmed(i) = DOMAIN kept
    BY <1>1, <1>15
  <2>2. \A c \in DOMAIN kept : Trimmed(i)[c] = IF c = 1 THEN head ELSE kept[c]
    BY <1>1, <1>15
  <2>3. 1 \in DOMAIN kept => kept[1] \in Block
    BY <1>6, <1>8, <1>11
  <2>4. 1 \in DOMAIN kept => \A o \in 0 .. BLOCK_SIZE - 1 : o >= to => head[o] = kept[1][o]
    <3> SUFFICES ASSUME 1 \in DOMAIN kept, NEW o \in 0 .. BLOCK_SIZE - 1, o >= to
                 PROVE  head[o] = kept[1][o]
      OBVIOUS
    <3>1. DOMAIN kept[1] = 0 .. BLOCK_SIZE - 1
      BY <2>3 DEF Block
    <3>2. ~(o < to)
      BY <1>6, BlockSizeAssumption
    <3> QED
      BY <3>1, <3>2
  <2> HIDE DEF head
  <2>5. b \in DOMAIN kept => Trimmed(i)[b][j % BLOCK_SIZE] = kept[b][j % BLOCK_SIZE]
    BY <1>3, <1>10, <2>2, <2>4
  <2> QED
    BY <1>12, <1>13, <2>1, <2>5 DEF b
<1> QED
  BY <1>14, <1>15

-----------------------------------------------------------------------------
(* Slot i holds the value of revision i + 1. *)
Cell(i) == Allocated(i) /\ blocks[BlockIndex(i) + 1][i % BLOCK_SIZE] = i + 1

(***************************************************************************)
(* The second layer of the invariant.  A pusher that has its index and     *)
(* still holds the read lock keeps truncations out (ReadersHold), so that  *)
(* its index is not behind start_offset; one that gave the lock up for the *)
(* write lock has no such promise.  A placeholder that is not truncated    *)
(* has a block (PlacedHasBlock), a value is in its slot from the end of    *)
(* set on (StoredCells), and nobody finds it there earlier (FreshCells).   *)
(***************************************************************************)
ReadersHold ==
  /\ readers = {t \in Threads : pc[t] = "reserved"}
  /\ remover # None \/ poisoned => readers = {}
  /\ \A t \in Threads : pc[t] = "reserved" => index[t] >= start_offset

PlacedHasBlock ==
  \A t \in Threads : pc[t] = "placed" /\ index[t] >= start_offset => Allocated(index[t])

StoredCells ==
  ~poisoned => \A i \in Nat :
    i >= start_offset /\ i < pushed /\ (\A t \in Threads : InFlight(t) => index[t] # i) => Cell(i)

Unplaced(i) == \E t \in Threads : pc[t] \in {"reserved", "grow"} /\ index[t] = i

FreshCells == \A i \in Nat : i >= start_offset /\ (i >= pushed \/ Unplaced(i)) => ~Cell(i)

SlotInv == IInv /\ ReadersHold /\ PlacedHasBlock /\ StoredCells /\ FreshCells

LEMMA InitSlotInv == Init => SlotInv
<1> SUFFICES ASSUME Init PROVE SlotInv
  OBVIOUS
<1>1. IInv
  BY InitIInv
<1>2. ReadersHold /\ PlacedHasBlock /\ StoredCells
  BY DEF Init, ReadersHold, PlacedHasBlock, StoredCells
<1>3. FreshCells
  <2>1. \A i \in Nat : ~Cell(i)
    BY DEF Init, Cell, Allocated
  <2> QED
    BY <2>1 DEF FreshCells
<1> QED
  BY <1>1, <1>2, <1>3 DEF SlotInv

LEMMA TypedBlocks ==
  ASSUME IInv
  PROVE  blocks \in Seq(Block) /\ start_offset \in Nat
  BY DEF IInv, TypeOK, Block

(* An index from start_offset on is in one of the blocks or after them. *)
LEMMA BlockIndexNat ==
  ASSUME start_offset \in Nat, NEW i \in Nat, i >= start_offset
  PROVE  BlockIndex(i) \in Nat
<1>1. start_offset \div BLOCK_SIZE <= i \div BLOCK_SIZE
  BY SlotOrder, BlockSizeAssumption
<1>2. start_offset \div BLOCK_SIZE \in Int /\ i \div BLOCK_SIZE \in Int
  BY BlockSizeAssumption
<1> QED
  BY <1>1, <1>2 DEF BlockIndex

(* Steps that leave the blocks and start_offset alone leave the cells alone. *)
LEMMA SameCells ==
  ASSUME blocks' = blocks, start_offset' = start_offset
  PROVE  \A i : Cell(i)' = Cell(i) /\ Allocated(i)' = Allocated(i)
  BY DEF Cell, Allocated, BlockIndex

LEMMA PushReserveSlot ==
  ASSUME SlotInv, NEW t \in Threads, PushReserve(t)
  PROVE  SlotInv'
<1>1. IInv'
  BY PushReserveIInv DEF SlotInv
<1>2. /\ readers' = readers \union {t} /\ pc' = [pc EXCEPT ![t] = "reserved"]
      /\ index' = [index EXCEPT ![t] = length + start_offset] /\ pushed' = pushed + 1
      /\ UNCHANGED <<blocks, start_offset, remover, poisoned>>
      /\ remover = None /\ ~poisoned /\ pc[t] = "idle"
  BY DEF PushReserve, CanRead
<1>3. /\ pc \in [Threads -> {"idle", "reserved", "grow", "placed"}] /\ index \in [Threads -> Nat]
      /\ length \in Nat /\ start_offset \in Nat /\ pushed \in Nat
  BY DEF SlotInv, IInv, TypeOK
<1>4. length + start_offset = pushed
  BY <1>2, <1>3 DEF SlotInv, IInv, DenseRevisions, LiveLength, Pending, RemoverHasTarget
<1>5. \A i : Cell(i)' = Cell(i) /\ Allocated(i)' = Allocated(i)
  BY <1>2, SameCells
<1>6. ReadersHold'
  <2>1. readers' = {u \in Threads : pc'[u] = "reserved"}
    BY <1>2, <1>3 DEF SlotInv, ReadersHold
  <2>2. \A u \in Threads : pc'[u] = "reserved" => index'[u] >= start_offset'
    BY <1>2, <1>3 DEF SlotInv, ReadersHold
  <2> QED
    BY <1>2, <2>1, <2>2 DEF ReadersHold
<1>7. PlacedHasBlock'
  BY <1>2, <1>3, <1>5 DEF SlotInv, PlacedHasBlock
<1>8. StoredCells'
  <2> SUFFICES ASSUME NEW i \in Nat, i >= start_offset, i < pushed + 1,
                      \A u \in Threads : pc'[u] # "idle" => index'[u] # i
               PROVE  Cell(i)
    BY <1>2, <1>5 DEF StoredCells, InFlight
  <2>1. i # pushed
    BY <1>2, <1>3, <1>4
  <2>2. \A u \in Threads : pc[u] # "idle" => index[u] # i
    BY <1>2, <1>3
  <2> QED
    BY <1>2, <1>3, <2>1, <2>2 DEF SlotInv, StoredCells, InFlight
<1>9. FreshCells'
  <2> SUFFICES ASSUME NEW i \in Nat, i >= start_offset, i >= pushed + 1 \/ Unplaced(i)'
               PROVE  ~Cell(i)
    BY <1>2, <1>5 DEF FreshCells
  <2>1. i >= pushed \/ Unplaced(i)
    BY <1>2, <1>3, <1>4 DEF Unplaced
  <2> QED
    BY <2>1 DEF SlotInv, FreshCells
<1> QED
  BY <1>1, <1>6, <1>7, <1>8, <1>9 DEF SlotInv

(***************************************************************************)
(* A step of a thread that keeps the counters, the indices and the cells   *)
(* of other indices.                                                       *)
(***************************************************************************)
LEMMA WriteSlot ==
  ASSUME SlotInv, IInv', NEW t \in Threads,
         UNCHANGED <<start_offset, remover, poisoned, index, pushed>>, ~poisoned,
         readers' = readers \ {t},
         pc[t] # "idle", NEW p \in {"placed", "idle", "grow"}, pc' = [pc EXCEPT ![t] = p],
         p = "grow" => pc[t] = "reserved",
         \A i \in Nat : i >= start_offset /\ i # index[t] => (Cell(i)' <=> Cell(i)),
         \A i \in Nat : i >= start_offset /\ Allocated(i) => Allocated(i)',
         p = "placed" /\ index[t] >= start_offset => Allocated(index[t])',
         p = "idle" /\ index[t] >= start_offset => Cell(index[t])',
         p = "grow" => ~Cell(index[t])'
  PROVE  SlotInv'
<1>1. /\ pc \in [Threads -> {"idle", "reserved", "grow", "placed"}] /\ index \in [Threads -> Nat]
      /\ start_offset \in Nat /\ pushed \in Nat
  BY DEF SlotInv, IInv, TypeOK
<1>2. ReadersHold'
  <2>1. readers' = {u \in Threads : pc'[u] = "reserved"}
    BY <1>1 DEF SlotInv, ReadersHold
  <2>2. \A u \in Threads : pc'[u] = "reserved" => index'[u] >= start_offset'
    BY <1>1 DEF SlotInv, ReadersHold
  <2>3. remover' # None \/ poisoned' => readers' = {}
    BY DEF SlotInv, ReadersHold
  <2> QED
    BY <2>1, <2>2, <2>3 DEF ReadersHold
<1>3. PlacedHasBlock'
  <2> SUFFICES ASSUME NEW u \in Threads, pc'[u] = "placed", index[u] >= start_offset
               PROVE  Allocated(index[u])'
    BY DEF PlacedHasBlock
  <2>1. CASE u = t
    BY <1>1, <2>1
  <2>2. CASE u # t
    <3>1. Allocated(index[u])
      BY <1>1, <2>2 DEF SlotInv, PlacedHasBlock
    <3> QED
      BY <1>1, <3>1
  <2> QED
    BY <2>1, <2>2
<1>4. StoredCells'
  <2> SUFFICES ASSUME NEW i \in Nat, i >= start_offset, i < pushed,
                      \A u \in Threads : pc'[u] # "idle" => index[u] # i
               PROVE  Cell(i)'
    BY DEF StoredCells, InFlight
  <2>1. CASE i = index[t]
    <3>1. p = "idle"
      BY <1>1, <2>1
    <3> QED
      BY <2>1, <3>1
  <2>2. CASE i # index[t]
    <3>1. \A u \in Threads : pc[u] # "idle" => index[u] # i
      BY <1>1, <2>2
    <3>2. Cell(i)
      BY <3>1 DEF SlotInv, StoredCells, InFlight
    <3> QED
      BY <2>2, <3>2
  <2> QED
    BY <2>1, <2>2
<1>5. FreshCells'
  <2> SUFFICES ASSUME NEW i \in Nat, i >= start_offset, i >= pushed \/ Unplaced(i)'
               PROVE  ~Cell(i)'
    BY DEF FreshCells
  <2>1. CASE i = index[t]
    <3>1. i < pushed
      BY <1>1, <2>1 DEF SlotInv, IInv, IndicesBelowPushed, InFlight
    <3>2. PICK u \in Threads : pc'[u] \in {"reserved", "grow"} /\ index[u] = i
      BY <1>1, <3>1 DEF Unplaced
    <3>3. u = t
      <4>1. pc[u] # "idle"
        BY <1>1, <3>2
      <4> QED
        BY <2>1, <3>2, <4>1 DEF SlotInv, IInv, UniqueRevisions, InFlight
    <3>4. p = "grow"
      BY <1>1, <3>2, <3>3
    <3> QED
      BY <2>1, <3>4
  <2>2. CASE i # index[t]
    <3>1. i >= pushed \/ Unplaced(i)
      BY <1>1, <2>2 DEF Unplaced
    <3>2. ~Cell(i)
      BY <3>1 DEF SlotInv, FreshCells
    <3> QED
      BY <2>2, <3>2
  <2> QED
    BY <2>1, <2>2
<1> QED
  BY <1>2, <1>3, <1>4, <1>5 DEF SlotInv

(* A write of v to the slot of index i, in blocks bs that hold what blocks held. *)
LEMMA CellsWritten ==
  ASSUME start_offset \in Nat, start_offset' = start_offset, blocks \in Seq(Block),
         NEW bs \in Seq(Block), NEW i \in Nat, NEW v \in Slots,
         BlockIndex(i) + 1 \in DOMAIN bs,
         DOMAIN blocks \subseteq DOMAIN bs,
         \A b \in DOMAIN bs : \A o \in 0 .. BLOCK_SIZE - 1 :
           bs[b][o] = IF b \in DOMAIN blocks THEN blocks[b][o] ELSE None,
         blocks' = WithSlot(bs, i, v)
  PROVE  /\ \A j \in Nat : j # i => (Cell(j)' <=> Cell(j))
         /\ \A j \in Nat : Allocated(j) => Allocated(j)'
         /\ Allocated(i)'
         /\ Cell(i)' <=> v = i + 1
<1>1. /\ DOMAIN blocks' = DOMAIN bs
      /\ \A j \in Nat : BlockIndex(j) + 1 \in DOMAIN bs =>
           blocks'[BlockIndex(j) + 1][j % BLOCK_SIZE]
             = IF j = i THEN v ELSE bs[BlockIndex(j) + 1][j % BLOCK_SIZE]
  BY WithSlotIs
<1>2. \A j : BlockIndex(j)' = BlockIndex(j)
  BY DEF BlockIndex
<1>3. \A j \in Nat : j % BLOCK_SIZE \in 0 .. BLOCK_SIZE - 1
  BY BlockSizeAssumption
<1>4. \A j : Allocated(j)' <=> BlockIndex(j) + 1 \in DOMAIN bs
  BY <1>1, <1>2 DEF Allocated
<1>5. \A j \in Nat : Allocated(j) => Allocated(j)'
  BY <1>4 DEF Allocated
<1>6. ASSUME NEW j \in Nat PROVE Cell(j)' <=> Allocated(j)' /\ blocks'[BlockIndex(j) + 1][j % BLOCK_SIZE] = j + 1
  BY <1>2 DEF Cell
<1>7. Cell(i)' <=> v = i + 1
  BY <1>1, <1>4, <1>6
<1>8. ASSUME NEW j \in Nat, j # i PROVE Cell(j)' <=> Cell(j)
  <2>1. CASE Allocated(j)
    <3>1. blocks'[BlockIndex(j) + 1][j % BLOCK_SIZE] = blocks[BlockIndex(j) + 1][j % BLOCK_SIZE]
      BY <1>1, <1>3, <1>8, <2>1 DEF Allocated
    <3> QED
      BY <1>5, <1>6, <2>1, <3>1 DEF Cell
  <2>2. CASE ~Allocated(j)
    <3>1. ~Cell(j)
      BY <2>2 DEF Cell
    <3>2. Allocated(j)' => blocks'[BlockIndex(j) + 1][j % BLOCK_SIZE] = None
      BY <1>1, <1>3, <1>4, <1>8, <2>2 DEF Allocated
    <3>3. None # j + 1
      BY NoneAssumption
    <3> QED
      BY <1>6, <3>1, <3>2, <3>3
  <2> QED
    BY <2>1, <2>2
<1> QED
  BY <1>4, <1>5, <1>7, <1>8

LEMMA PushStoreCells ==
  ASSUME SlotInv, NEW t \in Threads, PushStore(t)
  PROVE  /\ \A i \in Nat : i >= start_offset => (Cell(i)' <=> Cell(i))
         /\ \A i \in Nat : Allocated(i) => Allocated(i)'
         /\ Allocated(index[t])'
<1>1. PICK n \in Nat : n = index[t]
  BY DEF SlotInv, IInv, TypeOK
<1>2. blocks \in Seq(Block) /\ start_offset \in Nat
  BY TypedBlocks DEF SlotInv
<1>3. /\ pc[t] = "reserved" /\ BlockIndex(n) < Len(blocks)
      /\ blocks' = WithSlot(blocks, n, 0) /\ start_offset' = start_offset /\ index' = index
  BY <1>1 DEF PushStore
<1>4. n >= start_offset
  BY <1>1, <1>3 DEF SlotInv, ReadersHold
<1>5. BlockIndex(n) + 1 \in DOMAIN blocks
  BY <1>2, <1>3, <1>4, BlockIndexNat
<1>6. 0 \in Slots
  BY DEF Slots
<1>7. /\ \A j \in Nat : j # n => (Cell(j)' <=> Cell(j))
      /\ \A j \in Nat : Allocated(j) => Allocated(j)'
      /\ Allocated(n)'
      /\ Cell(n)' <=> 0 = n + 1
  BY <1>2, <1>3, <1>5, <1>6, CellsWritten
<1>8. ~Cell(n)
  BY <1>1, <1>3, <1>4 DEF SlotInv, FreshCells, Unplaced
<1>9. \A i \in Nat : i >= start_offset => (Cell(i)' <=> Cell(i))
  BY <1>7, <1>8
<1> QED
  BY <1>1, <1>3, <1>7, <1>9

LEMMA PushStoreSlot ==
  ASSUME SlotInv, NEW t \in Threads, PushStore(t)
  PROVE  SlotInv'
<1>1. IInv'
  BY PushStoreIInv DEF SlotInv
<1>2. ~poisoned
  BY DEF SlotInv, ReadersHold, PushStore
<1> QED
  BY <1>1, <1>2, PushStoreCells, WriteSlot DEF PushStore

LEMMA PushMissSlot ==
  ASSUME SlotInv, NEW t \in Threads, PushMiss(t)
  PROVE  SlotInv'
<1>1. IInv'
  BY PushMissIInv DEF SlotInv
<1>2. ~poisoned
  BY DEF SlotInv, ReadersHold, PushMiss
<1>3. \A i : Cell(i)' = Cell(i) /\ Allocated(i)' = Allocated(i)
  BY SameCells DEF PushMiss
<1>4. ~Cell(index[t])
  BY DEF SlotInv, IInv, TypeOK, ReadersHold, FreshCells, Unplaced, PushMiss
<1> QED
  BY <1>1, <1>2, <1>3, <1>4, WriteSlot DEF PushMiss

(***************************************************************************)
(* push under the write lock.  start_offset may have passed index's place  *)
(* in its block: the write then goes to a slot that nobody reads.          *)
(***************************************************************************)
LEMMA PushGrowCells ==
  ASSUME SlotInv, NEW t \in Threads, PushGrow(t), BlockIndex(index[t]) >= 0
  PROVE  /\ \A i \in Nat : i >= start_offset => (Cell(i)' <=> Cell(i))
         /\ \A i \in Nat : Allocated(i) => Allocated(i)'
         /\ Allocated(index[t])'
<1>1. PICK n \in Nat : n = index[t]
  BY DEF SlotInv, IInv, TypeOK
<1>2. blocks \in Seq(Block) /\ start_offset \in Nat
  BY TypedBlocks DEF SlotInv
<1>3. BlockIndex(n) \in Int
  BY <1>2, BlockSizeAssumption DEF BlockIndex
<1>4. /\ pc[t] = "grow" /\ start_offset' = start_offset /\ index' = index
      /\ blocks' = WithSlot(Grown(n), n, 0)
  BY <1>1, <1>3 DEF PushGrow
<1>5. PICK bs \in Seq(Block) : bs = Grown(n)
  BY <1>2, GrownType DEF Block
<1>6. /\ BlockIndex(n) + 1 \in DOMAIN bs
      /\ DOMAIN blocks \subseteq DOMAIN bs
      /\ \A b \in DOMAIN bs : \A o \in 0 .. BLOCK_SIZE - 1 :
           bs[b][o] = IF b \in DOMAIN blocks THEN blocks[b][o] ELSE None
  BY <1>1, <1>2, <1>5, GrownIs
<1>7. 0 \in Slots
  BY DEF Slots
<1>8. blocks' = WithSlot(bs, n, 0)
  BY <1>4, <1>5
<1>9. /\ \A j \in Nat : j # n => (Cell(j)' <=> Cell(j))
      /\ \A j \in Nat : Allocated(j) => Allocated(j)'
      /\ Allocated(n)'
      /\ Cell(n)' <=> 0 = n + 1
  BY <1>2, <1>4, <1>6, <1>7, <1>8, CellsWritten
<1>10. n >= start_offset => ~Cell(n)
  BY <1>1, <1>4 DEF SlotInv, FreshCells, Unplaced
<1>11. \A i \in Nat : i >= start_offset => (Cell(i)' <=> Cell(i))
  BY <1>9, <1>10
<1> QED
  BY <1>1, <1>4, <1>9, <1>11

LEMMA PushGrowSlot ==
  ASSUME SlotInv, NEW t \in Threads, PushGrow(t)
  PROVE  SlotInv'
<1>1. IInv'
  BY PushGrowIInv DEF SlotInv
<1>2. /\ ~poisoned /\ pc[t] = "grow" /\ readers = {}
      /\ UNCHANGED <<start_offset, readers, remover, index, pushed>>
  BY DEF PushGrow, CanWrite, CanRead
<1>3. index[t] \in Nat /\ start_offset \in Nat
  BY DEF SlotInv, IInv, TypeOK
<1>4. BlockIndex(index[t]) \in Int
  BY <1>3, BlockSizeAssumption DEF BlockIndex
<1>5. CASE BlockIndex(index[t]) >= 0
  <2>1. pc' = [pc EXCEPT ![t] = "placed"] /\ poisoned' = poisoned
    BY <1>4, <1>5 DEF PushGrow
  <2>2. readers' = readers \ {t}
    BY <1>2
  <2> QED
    BY <1>1, <1>2, <1>5, <2>1, <2>2, PushGrowCells, WriteSlot
<1>6. CASE BlockIndex(index[t]) < 0
  <2>1. pc' = [pc EXCEPT ![t] = "idle"] /\ poisoned' = TRUE /\ blocks' = blocks
    BY <1>4, <1>6 DEF PushGrow
  <2>2. \A i : Cell(i)' = Cell(i) /\ Allocated(i)' = Allocated(i)
    BY <1>2, <2>1, SameCells
  <2>3. pc \in [Threads -> {"idle", "reserved", "grow", "placed"}]
    BY DEF SlotInv, IInv, TypeOK
  <2>4. \A u \in Threads : pc'[u] # "idle" => pc'[u] = pc[u]
    BY <2>1, <2>3
  <2>5. ReadersHold'
    <3>1. {u \in Threads : pc'[u] = "reserved"} = {}
      BY <1>2, <2>4 DEF SlotInv, ReadersHold
    <3> QED
      BY <1>2, <3>1 DEF ReadersHold
  <2>6. PlacedHasBlock'
    BY <1>2, <2>2, <2>4 DEF SlotInv, PlacedHasBlock
  <2>7. StoredCells'
    BY <2>1 DEF StoredCells
  <2>8. FreshCells'
    <3>1. \A i : Unplaced(i)' => Unplaced(i)
      BY <1>2, <2>4 DEF Unplaced
    <3> QED
      BY <1>2, <2>2, <3>1 DEF SlotInv, FreshCells
  <2> QED
    BY <1>1, <2>5, <2>6, <2>7, <2>8 DEF SlotInv
<1> QED
  BY <1>4, <1>5, <1>6

(***************************************************************************)
(* Store::set's second call makes its cell readable, if the index is still *)
(* in range, and touches no other.                                         *)
(***************************************************************************)
LEMMA SetCells ==
  ASSUME SlotInv, NEW t \in Threads, Set(t)
  PROVE  /\ \A i \in Nat : i >= start_offset /\ i # index[t] => (Cell(i)' <=> Cell(i))
         /\ \A i \in Nat : Allocated(i) => Allocated(i)'
         /\ index[t] >= start_offset => Cell(index[t])'
<1>1. PICK n \in Nat : n = index[t]
  BY DEF SlotInv, IInv, TypeOK
<1>2. blocks \in Seq(Block) /\ start_offset \in Nat
  BY TypedBlocks DEF SlotInv
<1>3. /\ pc[t] = "placed" /\ start_offset' = start_offset /\ index' = index /\ remover = None
      /\ blocks' = IF InRange(n) THEN WithSlot(blocks, n, n + 1) ELSE blocks
  BY <1>1 DEF Set, CanRead
<1>4. n < length + start_offset
  <2>1. length + start_offset = pushed
    BY <1>3 DEF SlotInv, IInv, TypeOK, DenseRevisions, LiveLength, Pending, RemoverHasTarget
  <2> QED
    BY <1>1, <1>3, <2>1 DEF SlotInv, IInv, IndicesBelowPushed, InFlight
<1>5. CASE n >= start_offset
  <2>1. BlockIndex(n) + 1 \in DOMAIN blocks
    BY <1>1, <1>3, <1>5 DEF SlotInv, PlacedHasBlock, Allocated
  <2>2. n + 1 \in Slots
    BY DEF Slots
  <2>3. blocks' = WithSlot(blocks, n, n + 1)
    BY <1>3, <1>4, <1>5 DEF InRange
  <2>4. /\ \A j \in Nat : j # n => (Cell(j)' <=> Cell(j))
        /\ \A j \in Nat : Allocated(j) => Allocated(j)'
        /\ Cell(n)' <=> n + 1 = n + 1
    BY <1>2, <1>3, <2>1, <2>2, <2>3, CellsWritten
  <2> QED
    BY <1>1, <1>3, <2>4
<1>6. CASE ~(n >= start_offset)
  <2>1. blocks' = blocks
    BY <1>3, <1>6 DEF InRange
  <2> QED
    BY <1>1, <1>3, <1>6, <2>1, SameCells
<1> QED
  BY <1>5, <1>6

LEMMA SetSlot ==
  ASSUME SlotInv, NEW t \in Threads, Set(t)
  PROVE  SlotInv'
<1>1. IInv'
  BY SetIInv DEF SlotInv
<1>2. ~poisoned /\ pc[t] = "placed"
  BY DEF Set, CanRead
<1>3. readers' = readers \ {t}
  BY <1>2 DEF SlotInv, ReadersHold, Set
<1> QED
  BY <1>1, <1>2, <1>3, SetCells, WriteSlot DEF Set

(* Steps that change neither a thread's place nor the deque's contents. *)
LEMMA SameSlots ==
  ASSUME SlotInv, IInv', UNCHANGED <<blocks, start_offset, readers, pushed, index>>,
         poisoned => poisoned',
         \A t \in Threads : pc'[t] # "idle" => pc'[t] = pc[t],
         \/ pc' = pc
         \/ poisoned /\ \A t \in Threads : pc'[t] = pc[t] \/ pc[t] \in {"grow", "placed"},
         remover' # None \/ poisoned' => readers = {}
  PROVE  SlotInv'
<1>1. \A i : Cell(i)' = Cell(i) /\ Allocated(i)' = Allocated(i)
  BY SameCells
<1>2. ReadersHold'
  <2>1. \A t \in Threads : pc'[t] = "reserved" <=> pc[t] = "reserved"
    BY DEF SlotInv, IInv, TypeOK
  <2>2. {t \in Threads : pc'[t] = "reserved"} = {t \in Threads : pc[t] = "reserved"}
    BY <2>1
  <2> QED
    BY <2>1, <2>2 DEF SlotInv, ReadersHold
<1>3. PlacedHasBlock'
  BY <1>1 DEF SlotInv, PlacedHasBlock
<1>4. StoredCells'
  BY <1>1 DEF SlotInv, StoredCells, InFlight
<1>5. FreshCells'
  <2>1. \A i : Unplaced(i)' => Unplaced(i)
    BY DEF Unplaced
  <2> QED
    BY <1>1, <2>1 DEF SlotInv, FreshCells
<1> QED
  BY <1>2, <1>3, <1>4, <1>5 DEF SlotInv

LEMMA RemoveShortenSlot ==
  ASSUME SlotInv, NEW t \in Threads, NEW i \in start_offset .. start_offset + length,
         RemoveShorten(t, i)
  PROVE  SlotInv'
<1>1. IInv'
  BY RemoveShortenIInv DEF SlotInv
<1> QED
  BY <1>1, SameSlots DEF RemoveShorten, CanWrite, CanRead

(* remove_before moves the blocks and start_offset together. *)
LEMMA RemoveTrimCells ==
  ASSUME SlotInv, NEW t \in Threads, RemoveTrim(t), ~Underrun(target)
  PROVE  /\ target \in Nat /\ target >= start_offset /\ start_offset' = target
         /\ \A i \in Nat : i >= target => (Cell(i)' <=> Cell(i))
         /\ \A i \in Nat : i >= target => (Allocated(i)' <=> Allocated(i))
<1>1. target \in Nat /\ target >= start_offset
  BY NoneAssumption DEF SlotInv, IInv, TypeOK, RemoverHasTarget, RemoveTrim
<1>2. blocks \in Seq(Block) /\ start_offset \in Nat
  BY TypedBlocks DEF SlotInv
<1>3. PICK n \in Nat : n = target
  BY <1>1
<1>4. start_offset' = n /\ blocks' = Trimmed(n)
  BY <1>3 DEF RemoveTrim
<1>5. ASSUME NEW j \in Nat, j >= n
      PROVE  (Cell(j)' <=> Cell(j)) /\ (Allocated(j)' <=> Allocated(j))
  <2> DEFINE b == (j \div BLOCK_SIZE) - (n \div BLOCK_SIZE) + 1
  <2>1. /\ b \in DOMAIN Trimmed(n) <=> BlockIndex(j) + 1 \in DOMAIN blocks
        /\ b \in DOMAIN Trimmed(n) =>
             Trimmed(n)[b][j % BLOCK_SIZE] = blocks[BlockIndex(j) + 1][j % BLOCK_SIZE]
    BY <1>1, <1>2, <1>3, <1>5, TrimmedIs
  <2>2. BlockIndex(j)' + 1 = b
    BY <1>4 DEF BlockIndex
  <2>3. Allocated(j)' <=> Allocated(j)
    BY <1>4, <2>1, <2>2 DEF Allocated
  <2>4. Cell(j)' <=> Cell(j)
    BY <1>4, <2>1, <2>2 DEF Cell, Allocated
  <2> QED
    BY <2>3, <2>4
<1> QED
  BY <1>1, <1>3, <1>4, <1>5

LEMMA RemoveTrimSlot ==
  ASSUME SlotInv, NEW t \in Threads, RemoveTrim(t)
  PROVE  SlotInv'
<1>1. IInv'
  BY RemoveTrimIInv DEF SlotInv
<1>2. readers = {}
  BY NoneAssumption DEF SlotInv, ReadersHold, RemoveTrim
<1>3. CASE Underrun(target)
  BY <1>1, <1>2, <1>3, SameSlots DEF RemoveTrim
<1>4. CASE ~Underrun(target)
  <2>1. /\ target \in Nat /\ target >= start_offset /\ start_offset' = target
        /\ \A i \in Nat : i >= target => (Cell(i)' <=> Cell(i))
        /\ \A i \in Nat : i >= target => (Allocated(i)' <=> Allocated(i))
    BY <1>4, RemoveTrimCells
  <2>2. UNCHANGED <<pc, index, pushed, readers>> /\ poisoned' = poisoned
    BY <1>4 DEF RemoveTrim
  <2>3. index \in [Threads -> Nat] /\ start_offset \in Nat
    BY DEF SlotInv, IInv, TypeOK
  <2>4. ReadersHold'
    BY <1>2, <2>2 DEF SlotInv, ReadersHold
  <2>5. PlacedHasBlock'
    <3> SUFFICES ASSUME NEW u \in Threads, pc[u] = "placed", index[u] >= target
                 PROVE  Allocated(index[u])'
      BY <2>1, <2>2 DEF PlacedHasBlock
    <3>1. PICK n \in Nat : n = index[u]
      BY <2>3
    <3>2. n >= start_offset
      BY <2>1, <2>3, <3>1
    <3>3. Allocated(n)
      BY <3>1, <3>2 DEF SlotInv, PlacedHasBlock
    <3> QED
      BY <2>1, <2>2, <3>1, <3>3
  <2>6. StoredCells'
    <3> SUFFICES ASSUME ~poisoned, NEW i \in Nat, i >= target, i < pushed,
                        \A u \in Threads : InFlight(u) => index[u] # i
                 PROVE  Cell(i)'
      BY <2>1, <2>2 DEF StoredCells, InFlight
    <3>1. i >= start_offset
      BY <2>1, <2>3
    <3>2. Cell(i)
      BY <3>1 DEF SlotInv, StoredCells
    <3> QED
      BY <2>1, <3>2
  <2>7. FreshCells'
    <3> SUFFICES ASSUME NEW i \in Nat, i >= target, i >= pushed \/ Unplaced(i)
                 PROVE  ~Cell(i)'
      BY <2>1, <2>2 DEF FreshCells, Unplaced
    <3>1. i >= start_offset
      BY <2>1, <2>3
    <3>2. ~Cell(i)
      BY <3>1 DEF SlotInv, FreshCells
    <3> QED
      BY <2>1, <3>2
  <2> QED
    BY <1>1, <2>4, <2>5, <2>6, <2>7 DEF SlotInv
<1> QED
  BY <1>3, <1>4

LEMMA PanicOnPoisonSlot ==
  ASSUME SlotInv, NEW t \in Threads, PanicOnPoison(t)
  PROVE  SlotInv'
<1>1. IInv'
  BY PanicOnPoisonIInv DEF SlotInv
<1>2. readers = {}
  BY DEF SlotInv, ReadersHold, PanicOnPoison
<1>3. \A u \in Threads : pc'[u] = pc[u] \/ (pc[u] \in {"grow", "placed"} /\ pc'[u] = "idle")
  BY DEF SlotInv, IInv, TypeOK, PanicOnPoison
<1> QED
  BY <1>1, <1>2, <1>3, SameSlots DEF PanicOnPoison, dequeVars

LEMMA NextSlotInv == SlotInv /\ [Next]_vars => SlotInv'
<1> SUFFICES ASSUME SlotInv, [Next]_vars PROVE SlotInv'
  OBVIOUS
<1>1. IInv'
  BY NextIInv DEF SlotInv
<1>2. CASE UNCHANGED vars
  BY <1>1, <1>2, SameSlots DEF vars, dequeVars, SlotInv, ReadersHold
<1>3. ASSUME NEW t \in Threads,
             \/ PushReserve(t) \/ PushStore(t) \/ PushMiss(t) \/ PushGrow(t) \/ Set(t)
             \/ \E i \in start_offset .. start_offset + length : RemoveShorten(t, i)
             \/ RemoveTrim(t) \/ PanicOnPoison(t)
      PROVE  SlotInv'
  BY <1>3, PushReserveSlot, PushStoreSlot, PushMissSlot, PushGrowSlot, SetSlot,
     RemoveShortenSlot, RemoveTrimSlot, PanicOnPoisonSlot
<1>4. ASSUME NEW r \in Readers,
             LatestLoadLength(r) \/ LatestLoadOffset(r) \/ LatestReturn(r)
      PROVE  SlotInv'
  <2>1. UNCHANGED <<dequeVars, pc, index, pushed>>
    BY <1>4 DEF LatestLoadLength, LatestLoadOffset, LatestReturn
  <2> QED
    BY <1>1, <2>1, SameSlots DEF dequeVars, SlotInv, ReadersHold
<1> QED
  BY <1>2, <1>3, <1>4 DEF Next

LEMMA AlwaysSlotInv == Spec => []SlotInv
  BY InitSlotInv, NextSlotInv, PTL DEF Spec

(***************************************************************************)
(* A revision that was pushed and set and not truncated is read back by    *)
(* get: growth by several pushers and remove_before, which renumber the    *)
(* blocks under each other, never move a value away from its index.        *)
(***************************************************************************)
THEOREM StoredStaysReadable == Spec => []StoredIsReadable
<1>1. SlotInv => StoredIsReadable
  <2> SUFFICES ASSUME SlotInv, ~poisoned, target = None,
                      NEW i \in start_offset .. start_offset + length - 1,
                      \A t \in Threads : InFlight(t) => index[t] # i
               PROVE  Get(i) = i + 1
    BY DEF StoredIsReadable
  <2>1. start_offset \in Nat /\ length \in Nat /\ start_offset + length = pushed
    BY DEF SlotInv, IInv, TypeOK, DenseRevisions, LiveLength, Pending
  <2>2. i \in Nat /\ i >= start_offset /\ i < pushed /\ InRange(i)
    BY <2>1 DEF InRange
  <2>3. Cell(i)
    BY <2>2 DEF SlotInv, StoredCells
  <2> QED
    BY <2>2, <2>3 DEF Get, Cell
<1> QED
  BY <1>1, AlwaysSlotInv, PTL

-----------------------------------------------------------------------------
(***************************************************************************)
(* The refinement.  Inside a truncation the abstract log still has its old *)
(* beginning; the step that moves start_offset is the abstract Truncate.   *)
(***************************************************************************)
Readable == {i \in start_offset .. start_offset + LiveLength - 1 : Cell(i)}
End == start_offset + LiveLength

LEMMA ReadableIs ==
  Readable = {i \in start_offset .. start_offset + LiveLength - 1 :
                Allocated(i) /\ blocks[BlockIndex(i) + 1][i % BLOCK_SIZE] = i + 1}
  BY DEF Readable, Cell

LEMMA ReadablePrimeIs ==
  Readable' = {i \in start_offset .. start_offset + LiveLength - 1 :
                Allocated(i) /\ blocks[BlockIndex(i) + 1][i % BLOCK_SIZE] = i + 1}'
  BY DEF Readable, Cell

LEMMA LogAppends ==
  ASSUME End' = End + 1, start_offset' = start_offset, Readable' = Readable
  PROVE  Log!LogNext
<1>1. Log!Append1
  BY ReadableIs, ReadablePrimeIs, Zenon DEF Log!Append1, End
<1> QED
  BY <1>1, Zenon DEF Log!LogNext

LEMMA LogStores ==
  ASSUME End' = End, start_offset' = start_offset, NEW n \in start_offset .. End - 1,
         Readable' = Readable \union {n}
  PROVE  Log!LogNext
<1>1. n \in start_offset .. (start_offset + LiveLength) - 1
  BY DEF End
<1>2. Log!Store1(n)
  BY <1>1, ReadableIs, ReadablePrimeIs, Zenon DEF Log!Store1, End
<1> QED
  BY <1>1, <1>2, Zenon DEF Log!LogNext

LEMMA LogTruncates ==
  ASSUME End' = End, NEW n \in start_offset .. End, start_offset' = n,
         Readable' = {j \in Readable : j >= n}
  PROVE  Log!LogNext
<1>1. n \in start_offset .. (start_offset + LiveLength)
  BY DEF End
<1>2. Log!Truncate(n)
  BY <1>1, ReadableIs, ReadablePrimeIs, Zenon DEF Log!Truncate, End
<1> QED
  BY <1>1, <1>2, Zenon DEF Log!LogNext

LEMMA LogStutters ==
  ASSUME End' = End, start_offset' = start_offset, Readable' = Readable
  PROVE  UNCHANGED Log!logVars
  BY ReadableIs, ReadablePrimeIs, Zenon DEF Log!logVars, End

LEMMA InitLog == Init => Log!LogInit
<1> SUFFICES ASSUME Init PROVE Log!LogInit
  OBVIOUS
<1>1. start_offset = 0 /\ LiveLength = 0
  BY DEF Init, LiveLength, Pending
<1>2. start_offset .. start_offset + LiveLength - 1 = {}
  BY <1>1
<1>3. start_offset + LiveLength = 0
  BY <1>1
<1> QED
  BY <1>1, <1>2, <1>3 DEF Log!LogInit

(* End is the number of pushes, whatever truncation is half done. *)
EndOK ==
  /\ End = pushed /\ pushed \in Nat /\ start_offset \in Nat /\ start_offset <= pushed
  /\ \A i : i \in Readable <=> i \in Nat /\ i >= start_offset /\ i < pushed /\ Cell(i)

LEMMA EndIs == IInv => EndOK
<1> SUFFICES ASSUME IInv PROVE EndOK
  OBVIOUS
<1>1. End = pushed /\ pushed \in Nat /\ start_offset \in Nat
  BY DEF IInv, TypeOK, DenseRevisions, End
<1>2. PICK n \in Nat : n = LiveLength
  <2>1. length \in Nat /\ start_offset \in Nat
    BY DEF IInv, TypeOK
  <2>2. target = None \/ (target \in Nat /\ target >= start_offset)
    BY DEF IInv, TypeOK, RemoverHasTarget
  <2>3. Pending \in Nat
    BY <2>1, <2>2, NoneAssumption DEF Pending
  <2>4. LiveLength \in Nat
    BY <2>1, <2>3 DEF LiveLength
  <2> QED
    BY <2>4
<1>3. start_offset + n = pushed
  BY <1>1, <1>2 DEF End
<1>4. ASSUME NEW i
      PROVE  i \in Readable <=> i \in Nat /\ i >= start_offset /\ i < pushed /\ Cell(i)
  <2>1. i \in Readable <=> i \in start_offset .. start_offset + n - 1 /\ Cell(i)
    BY <1>2 DEF Readable
  <2>2. i \in start_offset .. start_offset + n - 1 <=> i \in Nat /\ i >= start_offset /\ i < pushed
    BY <1>1, <1>3
  <2> QED
    BY <2>1, <2>2
<1> QED
  BY <1>1, <1>3, <1>4 DEF EndOK

LEMMA StepLog == SlotInv /\ [Next]_vars => [Log!LogNext]_(Log!logVars)
<1> SUFFICES ASSUME SlotInv, [Next]_vars PROVE Log!LogNext \/ UNCHANGED Log!logVars
  OBVIOUS
<1>1. SlotInv' /\ IInv /\ IInv'
  BY NextSlotInv DEF SlotInv
<1>2. /\ End = pushed /\ pushed \in Nat /\ start_offset \in Nat /\ start_offset <= pushed
      /\ \A i : i \in Readable <=> i \in Nat /\ i >= start_offset /\ i < pushed /\ Cell(i)
  BY <1>1, EndIs DEF EndOK
<1>3. EndOK'
  BY <1>1, EndIs, PTL
<1>4. /\ End' = pushed' /\ pushed' \in Nat /\ start_offset' \in Nat /\ start_offset' <= pushed'
      /\ \A i : i \in Readable' <=> i \in Nat /\ i >= start_offset' /\ i < pushed' /\ Cell(i)'
  BY <1>3 DEF EndOK
<1>5. ASSUME start_offset' = start_offset, pushed' = pushed,
             \A i \in Nat : i >= start_offset => (Cell(i)' <=> Cell(i))
      PROVE  UNCHANGED Log!logVars
  <2>1. \A i : i \in Readable' <=> i \in Readable
    BY <1>2, <1>4, <1>5
  <2>2. Readable' = Readable
    BY <2>1, Zenon
  <2> QED
    BY <1>2, <1>4, <1>5, <2>2, LogStutters
<1>6. ASSUME start_offset' = start_offset, pushed' = pushed, blocks' = blocks
      PROVE  UNCHANGED Log!logVars
  BY <1>5, <1>6, SameCells
<1>7. ASSUME NEW t \in Threads, PushReserve(t) PROVE Log!LogNext
  <2>1. start_offset' = start_offset /\ pushed' = pushed + 1 /\ blocks' = blocks
    BY <1>7 DEF PushReserve
  <2>2. \A i : Cell(i)' = Cell(i)
    BY <2>1, SameCells
  <2>3. ~Cell(pushed)
    BY <1>2 DEF SlotInv, FreshCells
  <2>4. \A i : i \in Readable' <=> i \in Readable
    BY <1>2, <1>4, <2>1, <2>2, <2>3
  <2>5. Readable' = Readable
    BY <2>4, Zenon
  <2> QED
    BY <1>2, <1>4, <2>1, <2>5, LogAppends
<1>8. ASSUME NEW t \in Threads, PushStore(t) PROVE UNCHANGED Log!logVars
  BY <1>5, <1>8, PushStoreCells DEF PushStore
<1>9. ASSUME NEW t \in Threads, PushGrow(t) PROVE UNCHANGED Log!logVars
  <2>1. start_offset' = start_offset /\ pushed' = pushed
    BY <1>9 DEF PushGrow
  <2>2. CASE BlockIndex(index[t]) >= 0
    BY <1>5, <1>9, <2>1, <2>2, PushGrowCells
  <2>3. CASE ~(BlockIndex(index[t]) >= 0)
    BY <1>6, <1>9, <2>1, <2>3 DEF PushGrow
  <2> QED
    BY <2>2, <2>3
<1>10. ASSUME NEW t \in Threads, Set(t) PROVE Log!LogNext \/ UNCHANGED Log!logVars
  <2>1. PICK n \in Nat : n = index[t]
    BY <1>1 DEF IInv, TypeOK
  <2>2. start_offset' = start_offset /\ pushed' = pushed /\ index' = index
    BY <1>10 DEF Set
  <2>3. /\ \A i \in Nat : i >= start_offset /\ i # n => (Cell(i)' <=> Cell(i))
        /\ n >= start_offset => Cell(n)'
    BY <1>10, <2>1, <2>2, SetCells
  <2>4. n < pushed
    BY <1>1, <1>10, <2>1 DEF IInv, IndicesBelowPushed, InFlight, Set
  <2>5. CASE n >= start_offset
    <3>1. \A i : i \in Readable' <=> i \in Readable \/ i = n
      BY <1>2, <1>4, <2>2, <2>3, <2>4, <2>5
    <3>2. Readable' = Readable \union {n}
      BY <3>1, Zenon
    <3>3. n \in start_offset .. End - 1
      BY <1>2, <2>4, <2>5
    <3> QED
      BY <1>2, <1>4, <2>2, <3>2, <3>3, LogStores
  <2>6. CASE ~(n >= start_offset)
    BY <1>2, <1>5, <2>2, <2>3, <2>6
  <2> QED
    BY <2>5, <2>6
<1>11. ASSUME NEW t \in Threads, RemoveTrim(t) PROVE Log!LogNext \/ UNCHANGED Log!logVars
  <2>1. pushed' = pushed
    BY <1>11 DEF RemoveTrim
  <2>2. CASE Underrun(target)
    BY <1>6, <1>11, <2>1, <2>2 DEF RemoveTrim
  <2>3. CASE ~Underrun(target)
    <3>1. PICK n \in Nat : n = target
      BY <1>11, <2>3, RemoveTrimCells
    <3>2. /\ n >= start_offset /\ start_offset' = n
          /\ \A i \in Nat : i >= n => (Cell(i)' <=> Cell(i))
      BY <1>11, <2>3, <3>1, RemoveTrimCells
    <3>3. n <= pushed
      BY <1>4, <2>1, <3>2
    <3>4. \A i : i \in Readable' <=> i \in Readable /\ i >= n
      BY <1>2, <1>4, <2>1, <3>2
    <3>5. Readable' = {j \in Readable : j >= n}
      BY <3>4, Zenon
    <3>6. n \in start_offset .. End
      BY <1>2, <3>2, <3>3
    <3> QED
      BY <1>2, <1>4, <2>1, <3>2, <3>5, <3>6, LogTruncates
  <2> QED
    BY <2>2, <2>3
<1>12. ASSUME NEW t \in Threads,
              \/ PushMiss(t) \/ PanicOnPoison(t)
              \/ \E i \in start_offset .. start_offset + length : RemoveShorten(t, i)
       PROVE  UNCHANGED Log!logVars
  <2>1. start_offset' = start_offset /\ pushed' = pushed /\ blocks' = blocks
    BY <1>12 DEF PushMiss, PanicOnPoison, RemoveShorten, dequeVars
  <2> QED
    BY <1>6, <2>1
<1>13. ASSUME NEW r \in Readers,
              LatestLoadLength(r) \/ LatestLoadOffset(r) \/ LatestReturn(r)
       PROVE  UNCHANGED Log!logVars
  <2>1. start_offset' = start_offset /\ pushed' = pushed /\ blocks' = blocks
    BY <1>13 DEF LatestLoadLength, LatestLoadOffset, LatestReturn, dequeVars
  <2> QED
    BY <1>6, <2>1
<1>14. CASE UNCHANGED vars
  BY <1>6, <1>14 DEF vars, dequeVars
<1>15. CASE Next
  BY <1>7, <1>8, <1>9, <1>10, <1>11, <1>12, <1>13, <1>15 DEF Next
<1> QED
  BY <1>14, <1>15

(***************************************************************************)
(* The deque implements the log that Store relies on: whatever its threads *)
(* do, its locks, blocks and half-done truncations appear as appends, as   *)
(* stores of one index and as truncations of a prefix, or not at all.      *)
(***************************************************************************)
THEOREM DequeImplementsLog == Spec => ImplementsLog
<1> QED
  BY InitLog, StepLog, AlwaysSlotInv, PTL DEF Spec, ImplementsLog, Log!LogSpec

==============================================================================
