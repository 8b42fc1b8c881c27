--------------------------- MODULE WatchStreamProof ---------------------------
(***************************************************************************)
(* The watch streams are receivers as NotifyThread allows them: everything *)
(* proved of the notify thread holds with WatchService at the other end of *)
(* the channels.  On top of that, a watch misses no change, sends its live *)
(* events in order and once, and reports progress only as far as it has    *)
(* been given the changes.  Proved for every set of writers, keys and      *)
(* watchers and for every bound.                                           *)
(***************************************************************************)
EXTENDS WatchStream, NotifyThreadProof, FiniteSetTheorems, WellFoundedInduction

(***************************************************************************)
(* A watch is registered from a revision that has been assigned, or from   *)
(* the one that the client has asked for: one that NotifyThread expects.   *)
(***************************************************************************)
StartsKnown ==
  /\ revision \in 0 .. MaxRev
  /\ DOMAIN stream = Watchers
  /\ \A x \in Watchers : "start" \in DOMAIN stream[x] /\ stream[x].start \in 0 .. MaxRev

LEMMA InitStarts == StreamInit => StartsKnown
  BY MaxRevAssumption DEF StreamInit, Init, NoStream, StartsKnown

(* A step of the writers or of the thread leaves the watches alone. *)
LEMMA ServerStarts ==
  ASSUME StartsKnown, UNCHANGED streamVars, (\E w \in Writers : SetStep(w)) \/ ThreadStep
  PROVE  StartsKnown'
<1>1. ASSUME NEW w \in Writers, SetStep(w) PROVE revision' \in 0 .. MaxRev
  BY <1>1, MaxRevAssumption DEF StartsKnown, SetStep, Push, Publish, Collect, Send, Acked
<1>2. ASSUME ThreadStep PROVE revision' = revision
  BY <1>2 DEF ThreadStep, Spool, Recv, Enqueue, SkipClosed, SentAll, Drain, StoreProgress,
              writerVars
<1> QED
  BY <1>1, <1>2 DEF StartsKnown, streamVars

(* A step of a watch changes no revision, and its start only at its begin. *)
LEMMA WatchStarts ==
  ASSUME StartsKnown, NEW x \in Watchers,
         WatchStep(x) \/ StreamStep(x) \/ ClientStep(x)
  PROVE  StartsKnown'
<1>1. revision' = revision
  BY DEF WatchStep, StreamStep, ClientStep, WatchBegin, WatchRegister, WatchReadPast,
         WatchSpansPrefixes, StreamOpen, StreamEvents, StreamProgressRequest, StreamProgress,
         StreamHalfClosed, StreamCancel, StreamDropped, Register, Receive, Close, vars, writerVars
<1>2. ASSUME NEW rev \in 0 .. MaxRev, WatchBegin(x, rev) PROVE StartsKnown'
  BY <1>1, <1>2 DEF WatchBegin, StartsKnown
<1>3. ASSUME WatchReadPast(x) \/ StreamOpen(x) \/ StreamEvents(x) \/ StreamProgressRequest(x)
               \/ StreamHalfClosed(x) \/ StreamProgress(x)
      PROVE  StartsKnown'
  BY <1>1, <1>3, ZenonT(40) DEF WatchReadPast, StreamOpen, StreamEvents, StreamProgressRequest,
                    StreamHalfClosed, StreamProgress, StartsKnown
<1>4. ASSUME WatchRegister(x) \/ WatchSpansPrefixes(x) \/ StreamCancel(x) \/ StreamDropped(x)
      PROVE  StartsKnown'
  BY <1>1, <1>4 DEF WatchRegister, WatchSpansPrefixes, StreamCancel, StreamDropped, StartsKnown
<1> QED
  BY <1>2, <1>3, <1>4 DEF WatchStep, StreamStep, ClientStep

LEMMA NextStarts == StartsKnown /\ [StreamNext]_allVars => StartsKnown'
<1> SUFFICES ASSUME StartsKnown, [StreamNext]_allVars PROVE StartsKnown'
  OBVIOUS
<1>1. CASE UNCHANGED allVars
  BY <1>1 DEF StartsKnown, allVars, vars, writerVars, streamVars
<1>2. ASSUME NEW rev \in 1 .. MaxRev, Compact(rev) PROVE StartsKnown'
  BY <1>2 DEF StartsKnown, Compact, vars, writerVars
<1> QED
  BY <1>1, <1>2, ServerStarts, WatchStarts DEF StreamNext

LEMMA AlwaysStarts == StreamSpec => []StartsKnown
  BY InitStarts, NextStarts, PTL DEF StreamSpec

(***************************************************************************)
(* A step of the watches is, seen from the notify thread, a registration,  *)
(* a receipt, a closing, or nothing.                                       *)
(***************************************************************************)
LEMMA StreamStepMaps == StartsKnown /\ [StreamNext]_allVars => [Next]_vars
<1> SUFFICES ASSUME StartsKnown, StreamNext PROVE Next \/ UNCHANGED vars
  BY DEF allVars
<1>1. ASSUME NEW x \in Watchers, WatchStep(x) PROVE Next \/ UNCHANGED vars
  <2>1. stream[x].start \in 0 .. MaxRev
    BY DEF StartsKnown
  <2>2. WatchRegister(x) => ReceiverStep(x)
    BY <2>1 DEF WatchRegister, ReceiverStep
  <2>3. WatchSpansPrefixes(x) => ReceiverStep(x)
    BY DEF WatchSpansPrefixes, ReceiverStep
  <2> QED
    BY <1>1, <2>2, <2>3 DEF WatchStep, WatchReadPast, Next
<1>2. ASSUME NEW x \in Watchers, StreamStep(x) PROVE Next \/ UNCHANGED vars
  BY <1>2 DEF StreamStep, StreamOpen, StreamEvents, StreamProgress, ReceiverStep, Next
<1>3. ASSUME NEW x \in Watchers, ClientStep(x) PROVE Next \/ UNCHANGED vars
  BY <1>3 DEF ClientStep, WatchBegin, StreamProgressRequest, StreamHalfClosed, StreamCancel,
              StreamDropped, ReceiverStep, Next
<1> QED
  BY <1>1, <1>2, <1>3 DEF StreamNext, Compact, Next

(***************************************************************************)
(* The watch streams implement the receivers of NotifyThread: registering, *)
(* reading past changes, half-closing, cancelling and vanishing do nothing *)
(* to the writers and the thread that NotifyThread does not foresee.       *)
(***************************************************************************)
THEOREM StreamImplementsNotify == StreamSpec => Spec
<1>1. StreamInit => Init
  BY DEF StreamInit
<1> QED
  BY <1>1, AlwaysStarts, StreamStepMaps, PTL DEF StreamSpec, Spec

(* With the streams reading, progress_rev stays sound. *)
THEOREM StreamProgressIsSound == StreamSpec => []ProgressSound
  BY StreamImplementsNotify, ProgressIsSound, PTL

(* With the streams reading, the thread waits for no revision in vain. *)
THEOREM StreamAwaitedComes == StreamSpec => []AwaitedIsComing
  BY StreamImplementsNotify, AwaitedComes, PTL

(* With the streams reading, the WAL is given the revisions in order. *)
THEOREM StreamAppendsInOrder == StreamSpec => AppendInRevOrder
  BY StreamImplementsNotify, AppendsInOrder, PTL

-------------------------------------------------------------------------------
(***************************************************************************)
(* The operators of the past changes.  A finite set of numbers has an      *)
(* increasing sequence: were there sets without one, there would be one of *)
(* least size, and its least element in front of the others' sequence      *)
(* would be an increasing sequence of it.                                  *)
(***************************************************************************)
LEMMA NatHasLeast ==
  ASSUME NEW T, T \subseteq Nat, T # {}
  PROVE  \E x \in T : \A y \in T : x <= y
<1> DEFINE R == OpToRel(<, Nat)
<1>1. IsWellFoundedOn(R, Nat)
  BY NatLessThanWellFounded, Zenon
<1>2. \A x, y \in Nat : <<y, x>> \in R <=> y < x
  BY DEF OpToRel
<1> HIDE DEF R
<1>3. PICK x \in T : \A y \in T : ~ (<<y, x>> \in R)
  BY <1>1, WFMin
<1>4. \A y \in T : x <= y
  <2> TAKE y \in T
  <2>1. x \in Nat /\ y \in Nat
    OBVIOUS
  <2>2. ~(y < x)
    BY <1>2, <1>3, <2>1
  <2> QED
    BY <2>1, <2>2
<1> QED
  BY <1>4

Increasing(s) == \A i, j \in DOMAIN s : i < j => s[i] < s[j]

HasSequence(S) == \E s \in [1 .. Cardinality(S) -> S] : Increasing(s)

LEMMA EmptyHasSequence == HasSequence({})
<1>1. Cardinality({}) = 0
  BY FS_EmptySet, Zenon
<1>2. 1 .. Cardinality({}) = {}
  BY <1>1
<1> DEFINE s == [i \in {} |-> 0]
<1>3. s \in [1 .. Cardinality({}) -> {}] /\ Increasing(s)
  BY <1>2 DEF Increasing
<1> HIDE DEF s
<1> QED
  BY <1>3 DEF HasSequence

LEMMA LeastInFront ==
  ASSUME NEW S, S \subseteq Nat, IsFiniteSet(S), NEW m \in S, \A y \in S : m <= y,
         HasSequence(S \ {m})
  PROVE  HasSequence(S)
<1>1. PICK R : R = S \ {m}
  OBVIOUS
<1>2. Cardinality(R) = Cardinality(S) - 1 /\ IsFiniteSet(R)
  BY <1>1, FS_RemoveElement
<1>3. PICK n \in Nat : n = Cardinality(R)
  BY <1>2, FS_CardinalityType
<1>4. Cardinality(S) = n + 1
  <2>1. Cardinality(S) \in Nat
    BY FS_CardinalityType
  <2> QED
    BY <1>2, <1>3, <2>1
<1>5. PICK t \in [1 .. n -> R] : Increasing(t)
  BY <1>1, <1>3 DEF HasSequence
<1>6. \A i, j \in 1 .. n : i < j => t[i] < t[j]
  BY <1>5 DEF Increasing
<1> DEFINE s == [i \in 1 .. n + 1 |-> IF i = 1 THEN m ELSE t[i - 1]]
<1>7. ASSUME NEW i \in 1 .. n + 1, i # 1
      PROVE  i - 1 \in 1 .. n /\ s[i] = t[i - 1] /\ t[i - 1] \in S /\ m < t[i - 1]
  <2>1. i - 1 \in 1 .. n
    BY <1>7
  <2>2. t[i - 1] \in R
    BY <1>5, <2>1
  <2>3. t[i - 1] \in S /\ t[i - 1] # m /\ t[i - 1] \in Nat /\ m \in Nat
    BY <1>1, <2>2
  <2>4. m < t[i - 1]
    BY <2>3
  <2> QED
    BY <1>7, <2>1, <2>3, <2>4
<1>8. s[1] = m
  OBVIOUS
<1>9. s \in [1 .. n + 1 -> S]
  BY <1>7, <1>8
<1>10. DOMAIN s = 1 .. n + 1
  OBVIOUS
<1> HIDE DEF s
<1>11. ASSUME NEW i \in 1 .. n + 1, NEW j \in 1 .. n + 1, i < j PROVE s[i] < s[j]
  <2>1. j # 1
    BY <1>11
  <2>2. CASE i = 1
    BY <1>7, <1>8, <2>1, <2>2
  <2>3. CASE i # 1
    <3>1. i - 1 < j - 1
      BY <1>11
    <3> QED
      BY <1>6, <1>7, <2>1, <2>3, <3>1
  <2> QED
    BY <2>2, <2>3
<1>12. Increasing(s)
  BY <1>10, <1>11 DEF Increasing
<1> QED
  BY <1>4, <1>9, <1>12 DEF HasSequence

LEMMA SequenceExists ==
  ASSUME NEW S, S \subseteq Nat, IsFiniteSet(S)
  PROVE  HasSequence(S)
<1> DEFINE Bad == {n \in Nat : \E T \in SUBSET Nat : IsFiniteSet(T) /\ Cardinality(T) = n
                                                     /\ ~HasSequence(T)}
<1>1. SUFFICES ASSUME ~HasSequence(S) PROVE FALSE
  OBVIOUS
<1>2. Cardinality(S) \in Bad
  BY <1>1, FS_CardinalityType
<1>3. Bad \subseteq Nat /\ Bad # {}
  BY <1>2
<1>4. PICK n \in Bad : \A k \in Bad : n <= k
  <2> HIDE DEF Bad
  <2> QED
    BY <1>3, NatHasLeast
<1>5. PICK T \in SUBSET Nat : IsFiniteSet(T) /\ Cardinality(T) = n /\ ~HasSequence(T)
  BY <1>4
<1>6. T # {}
  BY <1>5, EmptyHasSequence
<1>7. PICK m \in T : \A y \in T : m <= y
  BY <1>6, NatHasLeast
<1>8. PICK R : R = T \ {m}
  OBVIOUS
<1>9. IsFiniteSet(R) /\ Cardinality(R) = n - 1
  BY <1>5, <1>8, FS_RemoveElement
<1>10. HasSequence(R)
  <2>1. SUFFICES ASSUME ~HasSequence(R) PROVE FALSE
    OBVIOUS
  <2>2. Cardinality(R) \in Nat
    BY <1>9, FS_CardinalityType
  <2>3. R \in SUBSET Nat
    BY <1>8
  <2>4. Cardinality(R) \in Bad
    BY <1>9, <2>1, <2>2, <2>3
  <2> QED
    BY <1>4, <1>9, <2>2, <2>4
<1> QED
  BY <1>5, <1>7, <1>8, <1>10, LeastInFront

(* OldestFirst lists the elements of its set and no others. *)
LEMMA OldestFirstIs ==
  ASSUME NEW S, S \subseteq Nat, IsFiniteSet(S)
  PROVE  /\ OldestFirst(S) \in Seq(Nat)
         /\ \A r \in S : \E i \in 1 .. Len(OldestFirst(S)) : OldestFirst(S)[i] = r
<1>1. PICK n \in Nat : n = Cardinality(S)
  BY FS_CardinalityType
<1>2. PICK t \in [1 .. n -> S] : Increasing(t)
  BY <1>1, SequenceExists DEF HasSequence
<1>3. \A i, j \in 1 .. n : i # j => t[i] # t[j]
  <2> SUFFICES ASSUME NEW i \in 1 .. n, NEW j \in 1 .. n, i # j PROVE t[i] # t[j]
    OBVIOUS
  <2>1. t[i] \in Nat /\ t[j] \in Nat
    BY <1>2
  <2>2. i < j \/ j < i
    OBVIOUS
  <2> QED
    BY <1>2, <2>1, <2>2 DEF Increasing
<1>4. t \in SetToSeqs(S)
  BY <1>1, <1>2, <1>3 DEF SetToSeqs
<1>5. PICK s : s = OldestFirst(S)
  OBVIOUS
<1>6. s \in SetToSeqs(S)
  <2>1. \E u \in SetToSeqs(S) : \A i, j \in DOMAIN u : i < j => u[i] < u[j]
    BY <1>2, <1>4 DEF Increasing
  <2> QED
    BY <1>5, <2>1 DEF OldestFirst
<1>7. s \in [1 .. n -> S] /\ \A i, j \in 1 .. n : i # j => s[i] # s[j]
  BY <1>1, <1>6 DEF SetToSeqs
<1>8. s \in Injection(1 .. n, S)
  BY <1>7 DEF Injection, IsInjective
<1>9. Cardinality(1 .. n) = n
  BY FS_Interval
<1>10. s \in Surjection(1 .. n, S)
  BY <1>1, <1>8, <1>9, FS_Injection
<1>11. \A r \in S : \E i \in 1 .. n : s[i] = r
  BY <1>10 DEF Surjection
<1>12. s \in Seq(Nat) /\ Len(s) = n
  <2>1. s \in [1 .. n -> Nat]
    BY <1>7
  <2> QED
    BY <2>1
<1> QED
  BY <1>5, <1>11, <1>12

LEMMA MaxOfTwo ==
  ASSUME NEW a \in Nat, NEW b \in Nat
  PROVE  Max({a, b}) \in {a, b} /\ Max({a, b}) >= a /\ Max({a, b}) >= b
<1>1. \E x \in {a, b} : \A y \in {a, b} : x >= y
  <2>1. CASE a >= b
    BY <2>1
  <2>2. CASE b >= a
    BY <2>2
  <2> QED
    BY <2>1, <2>2
<1> QED
  BY <1>1 DEF Max

-------------------------------------------------------------------------------
(***************************************************************************)
(* The changes that are stored, and where the calls that made them are: a  *)
(* revision belongs to one key, and a call that is past Publish has put    *)
(* its revision there.                                                     *)
(***************************************************************************)
StoredInv ==
  /\ \A k \in Keys : \A r \in revisions[k] : r \in 1 .. revision
  /\ \A k, l \in Keys : k # l => revisions[k] \cap revisions[l] = {}
  /\ \A w \in Writers : call[w].at = "pushed" =>
       \A k \in Keys : call[w].job.rev \notin revisions[k]
  /\ \A w \in Writers : call[w].at \in {"stored", "collected"} =>
       call[w].job.rev \in revisions[call[w].job.key]

LEMMA InitStored == Init => StoredInv
  BY DEF Init, StoredInv, Idle

(* What a call that holds a revision looks like. *)
LEMMA HeldJob ==
  ASSUME IInv, NEW w \in Writers, Holding(w)
  PROVE  /\ call[w] \in CallType /\ call[w].job \in Jobs
         /\ call[w].job.key \in Keys /\ call[w].job.rev \in Nat /\ call[w].job.to \subseteq Watchers
         /\ call[w].job.rev >= 1 /\ call[w].job.rev <= revision
<1>1. call[w] \in CallType /\ call[w].job \in Jobs /\ call[w].job.rev \in next_rev .. revision
  BY DEF IInv, TypeOK, CallType, PendingInv, PendingInRange
<1>2. next_rev \in Nat /\ next_rev >= 1 /\ revision \in Nat
  BY DEF IInv, TypeOK
<1> QED
  BY <1>1, <1>2 DEF Jobs

(* What Publish and Collect do to the call, field by field. *)
LEMMA PublishIs ==
  ASSUME IInv, NEW w \in Writers, Publish(w)
  PROVE  /\ call'[w].at = "stored" /\ call'[w].job = call[w].job
         /\ \A v \in Writers : v # w => call'[v] = call[v]
         /\ \A k \in Keys : revisions'[k] = IF k = call[w].job.key
                                            THEN revisions[k] \union {call[w].job.rev} ELSE revisions[k]
<1>1. call \in [Writers -> CallType] /\ revisions \in [Keys -> SUBSET Nat]
  BY DEF IInv, TypeOK, CallType
<1>2. call[w].job.key \in Keys
  BY HeldJob DEF Holding, Publish
<1> QED
  BY <1>1, <1>2 DEF Publish, CallType

LEMMA CollectIs ==
  ASSUME IInv, NEW w \in Writers, Collect(w)
  PROVE  /\ call'[w].at = "collected" /\ call'[w].job.rev = call[w].job.rev
         /\ call'[w].job.key = call[w].job.key
         /\ call'[w].job.to = Interested(call[w].job.key, call[w].job.rev)
         /\ \A v \in Writers : v # w => call'[v] = call[v]
<1>1. call \in [Writers -> CallType] /\ call[w].job \in Jobs
  BY HeldJob DEF IInv, TypeOK, CallType, Holding, Collect
<1>2. PICK j \in Jobs : j = call[w].job
  BY <1>1
<1>3. Interested(j.key, j.rev) \subseteq Watchers
  BY DEF Interested
<1>4. PICK I \in SUBSET Watchers : I = Interested(j.key, j.rev)
  BY <1>3
<1>5. PICK h : h = [j EXCEPT !.to = I]
  OBVIOUS
<1>6. h.rev = j.rev /\ h.key = j.key /\ h.to = I
  BY <1>5 DEF Jobs
<1>7. call' = [call EXCEPT ![w].at = "collected", ![w].job = h]
  BY <1>2, <1>4, <1>5 DEF Collect
<1>8. call'[w].at = "collected" /\ call'[w].job = h /\ \A v \in Writers : v # w => call'[v] = call[v]
  BY <1>1, <1>7 DEF CallType
<1> QED
  BY <1>2, <1>4, <1>6, <1>8

LEMMA NextStored ==
  ASSUME IInv, StoredInv, [Next]_vars
  PROVE  StoredInv'
<1>1. revision \in Nat /\ call \in [Writers -> CallType] /\ revisions \in [Keys -> SUBSET Nat]
  BY DEF IInv, TypeOK, CallType
<1>2. ASSUME NEW w \in Writers, NEW k \in Keys, Push(w, k) PROVE StoredInv'
  <2>1. /\ revision' = revision + 1 /\ revisions' = revisions
        /\ call'[w].at = "pushed" /\ call'[w].job.rev = revision + 1
        /\ \A v \in Writers : v # w => call'[v] = call[v]
    BY <1>1, <1>2 DEF Push
  <2>2. \A l \in Keys : revision + 1 \notin revisions[l]
    BY <1>1 DEF StoredInv
  <2>3. \A l \in Keys : \A r \in revisions[l] : r \in 1 .. revision + 1
    BY <1>1 DEF StoredInv
  <2>4. \A v \in Writers : call'[v].at = "pushed" =>
          \A l \in Keys : call'[v].job.rev \notin revisions[l]
    BY <2>1, <2>2 DEF StoredInv
  <2>5. \A v \in Writers : call'[v].at \in {"stored", "collected"} =>
          call'[v].job.rev \in revisions[call'[v].job.key]
    BY <2>1 DEF StoredInv
  <2> QED
    BY <2>1, <2>3, <2>4, <2>5 DEF StoredInv
<1>3. ASSUME NEW w \in Writers, Publish(w) PROVE StoredInv'
  <2>1. PICK q \in Nat, d \in Keys : q = call[w].job.rev /\ d = call[w].job.key
    BY <1>3, HeldJob DEF Holding, Publish
  <2>2. /\ call[w].at = "pushed" /\ q >= 1 /\ q <= revision /\ revision' = revision
    BY <1>3, <2>1, HeldJob DEF Holding, Publish
  <2>3. /\ call'[w].at = "stored" /\ call'[w].job = call[w].job
        /\ \A v \in Writers : v # w => call'[v] = call[v]
        /\ \A k \in Keys : revisions'[k] = IF k = d THEN revisions[k] \union {q} ELSE revisions[k]
    BY <1>3, <2>1, PublishIs
  <2>4. \A k \in Keys : q \notin revisions[k]
    BY <2>1, <2>2 DEF StoredInv
  <2>5. ASSUME NEW k \in Keys, NEW r
        PROVE  r \in revisions'[k] <=> r \in revisions[k] \/ (k = d /\ r = q)
    <3>1. CASE k = d
      BY <2>3, <3>1
    <3>2. CASE k # d
      BY <2>3, <3>2
    <3> QED
      BY <3>1, <3>2
  <2>6. ASSUME NEW k \in Keys, NEW r \in revisions'[k] PROVE r \in 1 .. revision'
    <3>1. r \in revisions[k] \/ r = q
      BY <2>6, <2>5
    <3> QED
      BY <1>1, <2>2, <3>1 DEF StoredInv
  <2>7. \A k, l \in Keys : k # l => revisions'[k] \cap revisions'[l] = {}
    BY <2>4, <2>5 DEF StoredInv
  <2>8. ASSUME NEW v \in Writers, call'[v].at = "pushed", NEW k \in Keys
        PROVE  call'[v].job.rev \notin revisions'[k]
    <3>1. v # w /\ call'[v] = call[v]
      BY <2>3, <2>8
    <3>2. call[v].job.rev # q
      BY <2>1, <2>2, <2>8, <3>1 DEF IInv, PendingInv, OnePlace, Holding
    <3> QED
      BY <2>8, <2>5, <3>1, <3>2 DEF StoredInv
  <2>9. ASSUME NEW v \in Writers, call'[v].at \in {"stored", "collected"}
        PROVE  call'[v].job.rev \in revisions'[call'[v].job.key]
    <3>1. CASE v = w
      BY <2>1, <2>3, <3>1
    <3>2. CASE v # w
      <4>1. call'[v] = call[v] /\ call[v].job.rev \in revisions[call[v].job.key]
        BY <2>3, <2>9, <3>2 DEF StoredInv
      <4>2. call[v].job.key \in Keys
        BY <2>9, <4>1, HeldJob DEF Holding
      <4> QED
        BY <2>3, <4>1, <4>2
    <3> QED
      BY <3>1, <3>2
  <2> QED
    BY <2>6, <2>7, <2>8, <2>9 DEF StoredInv
<1>4. ASSUME NEW w \in Writers, Collect(w) PROVE StoredInv'
  <2>1. /\ call'[w].at = "collected" /\ call'[w].job.rev = call[w].job.rev
        /\ call'[w].job.key = call[w].job.key /\ call[w].at = "stored"
        /\ \A v \in Writers : v # w => call'[v] = call[v]
        /\ UNCHANGED <<revision, revisions>>
    BY <1>4, CollectIs DEF Collect
  <2> QED
    BY <2>1 DEF StoredInv
<1>5. ASSUME NEW w \in Writers, Send(w) \/ Acked(w) PROVE StoredInv'
  <2>1. /\ \A v \in Writers : v # w => call'[v] = call[v]
        /\ UNCHANGED <<revision, revisions>>
    BY <1>1, <1>5 DEF Send, Acked
  <2>2. call'[w].at \in {"idle", "waiting"}
    <3>1. Idle.at = "idle" /\ [call[w] EXCEPT !.at = "waiting"].at = "waiting"
      BY <1>1 DEF Idle, CallType
    <3> QED
      BY <1>1, <1>5, <3>1 DEF Send, Acked
  <2> QED
    BY <2>1, <2>2 DEF StoredInv
<1>6. ASSUME UNCHANGED writerVars PROVE StoredInv'
  BY <1>6 DEF writerVars, StoredInv
<1>7. ASSUME ThreadStep PROVE UNCHANGED writerVars
  BY <1>7 DEF ThreadStep, Spool, Recv, Enqueue, SkipClosed, SentAll, Drain, StoreProgress
<1>8. ASSUME NEW x \in Watchers, ReceiverStep(x) PROVE UNCHANGED writerVars
  BY <1>8 DEF ReceiverStep, Register, Receive, Close
<1> QED
  BY <1>2, <1>3, <1>4, <1>5, <1>6, <1>7, <1>8 DEF Next, SetStep, vars

LEMMA AlwaysStored == Spec => []StoredInv
<1>1. StoredInv /\ IInv /\ [Next]_vars => StoredInv'
  BY NextStored
<1> QED
  BY <1>1, InitStored, AlwaysIInv, PTL DEF Spec

-------------------------------------------------------------------------------
(***************************************************************************)
(* The watches.                                                            *)
(***************************************************************************)
Places == {"none", "checked", "refused", "past", "open", "progress", "closed"}
StreamRec == [at : Places, rev : Nat, start : Nat, left : SUBSET Keys, past : Seq(Nat),
              max_event_stream_rev : Nat, asked : Nat, half : BOOLEAN]
OutRec == [kind : {"past", "event", "progress"}, rev : Nat]

StreamType ==
  /\ compacted \in Nat
  /\ stream \in [Watchers -> StreamRec]
  /\ out \in [Watchers -> Seq(OutRec)]

(* A watch that is past Store::watch's registration has it and its channel. *)
Running(x) == stream[x].at \in {"past", "open", "progress"}

PlacesInv ==
  \A x \in Watchers :
    /\ stream[x].at \in {"none", "checked"} \/ Running(x) => x \notin closed
    /\ Running(x) => registered[x] = stream[x].start
    /\ stream[x].at = "checked" /\ stream[x].rev > 0 => stream[x].left = Watched[x]

StreamBase == IInv /\ StoredInv /\ StartsKnown /\ StreamType

(* One lemma per step of a watch: the fields that it changes. *)
LEMMA BeginIs ==
  ASSUME StreamType, NEW x \in Watchers, NEW rev \in 0 .. MaxRev, WatchBegin(x, rev), revision \in Nat
  PROVE  /\ stream' \in [Watchers -> StreamRec]
         /\ \A y \in Watchers : y # x => stream'[y] = stream[y]
         /\ stream'[x].max_event_stream_rev = stream[x].max_event_stream_rev
         /\ stream[x].at = "none"
         /\ \/ /\ stream'[x].at = "checked" /\ stream'[x].rev = rev
               /\ rev > 0 => stream'[x].left = Watched[x]
            \/ stream'[x].at = "refused"
<1>1. stream \in [Watchers -> StreamRec] /\ rev \in Nat
  BY MaxRevAssumption DEF StreamType
<1>2. PICK s \in StreamRec : s = stream[x]
  BY <1>1
<1>3. CASE stream' = [stream EXCEPT ![x].at = "refused"]
  BY <1>1, <1>3 DEF StreamRec, Places, WatchBegin
<1>4. CASE stream' = [stream EXCEPT ![x].at = "checked", ![x].rev = rev,
                                    ![x].start = IF rev = 0 THEN revision ELSE rev,
                                    ![x].left = IF rev = 0 THEN {} ELSE Watched[x]]
  <2>1. PICK n \in Nat : n = IF rev = 0 THEN revision ELSE rev
    BY <1>1
  <2>2. PICK L \in SUBSET Keys : L = IF rev = 0 THEN {} ELSE Watched[x]
    BY WatchedAssumption
  <2>3. stream' = [stream EXCEPT ![x].at = "checked", ![x].rev = rev, ![x].start = n, ![x].left = L]
    BY <1>4, <2>1, <2>2, Zenon
  <2>4. stream' \in [Watchers -> StreamRec]
    <3>1. PICK e : e = [s EXCEPT !.at = "checked", !.rev = rev, !.start = n, !.left = L]
      OBVIOUS
    <3>2. e \in StreamRec
      BY <1>1, <3>1 DEF StreamRec, Places
    <3>3. stream' = [stream EXCEPT ![x] = e]
      BY <1>1, <1>2, <2>3, <3>1
    <3> QED
      BY <1>1, <3>2, <3>3
  <2>5. /\ \A y \in Watchers : y # x => stream'[y] = stream[y]
        /\ stream'[x].max_event_stream_rev = stream[x].max_event_stream_rev
        /\ stream'[x].at = "checked" /\ stream'[x].rev = rev /\ stream'[x].left = L
    BY <1>1, <2>3 DEF StreamRec, Places
  <2>6. rev > 0 => L = Watched[x]
    BY <1>1, <2>2
  <2>7. stream[x].at = "none"
    BY DEF WatchBegin
  <2> QED
    BY <2>4, <2>5, <2>6, <2>7
<1> QED
  BY <1>3, <1>4 DEF WatchBegin

(* Steps that change nothing but where the watch is. *)
LEMMA MovedIs ==
  ASSUME StreamType, NEW x \in Watchers, NEW p \in Places, stream' = [stream EXCEPT ![x].at = p]
  PROVE  /\ stream' \in [Watchers -> StreamRec]
         /\ \A y \in Watchers : y # x => stream'[y] = stream[y]
         /\ stream'[x].at = p
         /\ stream'[x].rev = stream[x].rev /\ stream'[x].start = stream[x].start
         /\ stream'[x].left = stream[x].left /\ stream'[x].past = stream[x].past
         /\ stream'[x].max_event_stream_rev = stream[x].max_event_stream_rev
<1>1. stream \in [Watchers -> StreamRec]
  BY DEF StreamType
<1> QED
  BY <1>1 DEF StreamRec

LEMMA RequestIs ==
  ASSUME StreamType, NEW x \in Watchers, StreamProgressRequest(x) \/ StreamHalfClosed(x)
  PROVE  /\ stream' \in [Watchers -> StreamRec]
         /\ \A y \in Watchers : y # x => stream'[y] = stream[y]
         /\ stream[x].at = "open" /\ stream'[x].at \in {"open", "progress"}
         /\ stream'[x].rev = stream[x].rev /\ stream'[x].start = stream[x].start
         /\ stream'[x].left = stream[x].left /\ stream'[x].past = stream[x].past
         /\ stream'[x].max_event_stream_rev = stream[x].max_event_stream_rev
<1>1. stream \in [Watchers -> StreamRec]
  BY DEF StreamType
<1>2. CASE StreamProgressRequest(x)
  <2>1. PICK n \in Nat : n = stream[x].asked + 1
    BY <1>1 DEF StreamRec
  <2>2. stream' = [stream EXCEPT ![x].at = "progress", ![x].asked = n]
    BY <1>2, <2>1 DEF StreamProgressRequest
  <2> QED
    BY <1>1, <1>2, <2>2, SMTT(30) DEF StreamRec, Places, StreamProgressRequest
<1>3. CASE StreamHalfClosed(x)
  BY <1>1, <1>3 DEF StreamRec, StreamHalfClosed
<1> QED
  BY <1>2, <1>3

LEMMA OpenIs ==
  ASSUME StreamType, NEW x \in Watchers, StreamOpen(x)
  PROVE  /\ stream' \in [Watchers -> StreamRec]
         /\ \A y \in Watchers : y # x => stream'[y] = stream[y]
         /\ stream'[x].at = "open"
         /\ stream'[x].rev = stream[x].rev /\ stream'[x].start = stream[x].start
         /\ stream'[x].max_event_stream_rev = stream[x].max_event_stream_rev
<1>1. stream \in [Watchers -> StreamRec]
  BY DEF StreamType
<1>2. <<>> \in Seq(Nat)
  OBVIOUS
<1>3. PICK e \in Seq(Nat) : e = <<>>
  BY <1>2
<1>4. stream' = [stream EXCEPT ![x].at = "open", ![x].past = e]
  BY <1>3 DEF StreamOpen
<1> QED
  BY <1>1, <1>4 DEF StreamRec, Places

(* The changes of a key that Store::watch finds are a finite set. *)
LEMMA PastChangesIs ==
  ASSUME StreamBase, NEW k \in Keys, NEW start \in Nat
  PROVE  /\ PastChanges(k, start) \in Seq(Nat)
         /\ \A r \in revisions[k] : r >= start /\ r > compacted =>
              \E i \in 1 .. Len(PastChanges(k, start)) : PastChanges(k, start)[i] = r
<1> DEFINE S == {r \in revisions[k] : r >= start /\ r > compacted}
<1>1. revisions[k] \in SUBSET Nat /\ revision \in Nat
  BY DEF StreamBase, IInv, TypeOK
<1>2. \A r \in S : r <= revision
  BY <1>1 DEF StreamBase, StoredInv
<1>3. S \in SUBSET Nat
  BY <1>1
<1>4. PastChanges(k, start) = OldestFirst(S)
  BY DEF PastChanges
<1>5. \A r \in revisions[k] : r >= start /\ r > compacted => r \in S
  OBVIOUS
<1> HIDE DEF S
<1>6. IsFiniteSet(S)
  BY <1>1, <1>2, <1>3, FS_BoundedSetOfNaturals
<1> QED
  BY <1>3, <1>4, <1>5, <1>6, OldestFirstIs

LEMMA ReadPastIs ==
  ASSUME StreamBase, NEW x \in Watchers, WatchReadPast(x)
  PROVE  /\ stream' \in [Watchers -> StreamRec]
         /\ \A y \in Watchers : y # x => stream'[y] = stream[y]
         /\ stream'[x].at = "past" /\ stream[x].at = "past"
         /\ stream'[x].rev = stream[x].rev /\ stream'[x].start = stream[x].start
         /\ stream'[x].max_event_stream_rev = stream[x].max_event_stream_rev
         /\ \E k \in stream[x].left :
              /\ k \in Keys
              /\ stream'[x].left = stream[x].left \ {k}
              /\ stream'[x].past = stream[x].past \o PastChanges(k, stream[x].start)
<1>1. stream \in [Watchers -> StreamRec]
  BY DEF StreamBase, StreamType
<1>2. PICK k \in stream[x].left :
        stream' = [stream EXCEPT ![x].left = @ \ {k},
                                 ![x].past = @ \o PastChanges(k, stream[x].start)]
  BY DEF WatchReadPast
<1>3. stream[x] \in StreamRec /\ k \in Keys /\ stream[x].start \in Nat /\ stream[x].past \in Seq(Nat)
      /\ stream[x].left \in SUBSET Keys
  BY <1>1 DEF StreamRec
<1>4. PastChanges(k, stream[x].start) \in Seq(Nat)
  BY <1>3, PastChangesIs
<1>5. PICK p \in Seq(Nat) : p = stream[x].past \o PastChanges(k, stream[x].start)
  BY <1>3, <1>4, ConcatProperties
<1>6. PICK L \in SUBSET Keys : L = stream[x].left \ {k}
  BY <1>3
<1>7. stream' = [stream EXCEPT ![x].left = L, ![x].past = p]
  BY <1>2, <1>5, <1>6
<1>8. stream' \in [Watchers -> StreamRec]
  BY <1>1, <1>7 DEF StreamRec
<1>9. /\ \A y \in Watchers : y # x => stream'[y] = stream[y]
      /\ stream'[x].at = stream[x].at
      /\ stream'[x].rev = stream[x].rev /\ stream'[x].start = stream[x].start
      /\ stream'[x].max_event_stream_rev = stream[x].max_event_stream_rev
      /\ stream'[x].left = L /\ stream'[x].past = p
  BY <1>1, <1>7 DEF StreamRec
<1> QED
  BY <1>3, <1>5, <1>6, <1>8, <1>9 DEF WatchReadPast

(* What recv_many takes is the front of the channel, and leaves the rest. *)
LEMMA TakenIs ==
  ASSUME IInv, NEW x \in Watchers, Receive(x)
  PROVE  \E n \in 1 .. Len(channel[x]) :
           /\ Taken(x) \in Seq(Nat) /\ Len(Taken(x)) = n
           /\ \A i \in 1 .. n : Taken(x)[i] = channel[x][i]
           /\ Len(channel'[x]) = Len(channel[x]) - n
           /\ \A i \in 1 .. Len(channel[x]) - n : channel'[x][i] = channel[x][i + n]
           /\ \A y \in Watchers : y # x => channel'[y] = channel[y]
<1>1. channel \in [Watchers -> Seq(Nat)]
  BY DEF IInv, TypeOK
<1>2. PICK c \in Seq(Nat) : c = channel[x]
  BY <1>1
<1>3. PICK m \in Nat : m = Len(c) /\ m >= 1
  <2>1. c # <<>>
    BY <1>2 DEF Receive
  <2> QED
    BY <2>1
<1>4. PICK n \in 1 .. m : n = IF m < RECV_LIMIT THEN m ELSE RECV_LIMIT
  BY <1>3, ChannelAssumption
<1>5. PICK t : t = SubSeq(c, 1, n)
  OBVIOUS
<1>6. Taken(x) = t
  BY <1>2, <1>3, <1>4, <1>5 DEF Taken
<1>7. t \in Seq(Nat) /\ Len(t) = n /\ \A i \in 1 .. n : t[i] = c[i]
  BY <1>3, <1>4, <1>5
<1>8. PICK d : d = SubSeq(c, n + 1, m)
  OBVIOUS
<1>9. d \in Seq(Nat) /\ Len(d) = m - n /\ \A i \in 1 .. m - n : d[i] = c[i + n]
  <2>1. \A i \in n + 1 .. m : c[i] \in Nat
    BY <1>3
  <2>2. /\ d \in Seq(Nat) /\ Len(d) = IF n + 1 <= m THEN m - (n + 1) + 1 ELSE 0
        /\ \A i \in 1 .. m - (n + 1) + 1 : d[i] = c[(n + 1) + i - 1]
    BY <1>8, <2>1, SubSeqProperties
  <2>3. Len(d) = m - n
    BY <2>2
  <2>4. ASSUME NEW i \in 1 .. m - n PROVE d[i] = c[i + n]
    <3>1. i \in 1 .. m - (n + 1) + 1 /\ (n + 1) + i - 1 = i + n
      OBVIOUS
    <3> QED
      BY <2>2, <3>1
  <2> QED
    BY <2>2, <2>3, <2>4
<1>10. channel' = [channel EXCEPT ![x] = d]
  BY <1>2, <1>3, <1>6, <1>7, <1>8 DEF Receive
<1>11. channel'[x] = d /\ \A y \in Watchers : y # x => channel'[y] = channel[y]
  BY <1>1, <1>10
<1>12. /\ n \in 1 .. Len(channel[x])
       /\ Taken(x) \in Seq(Nat) /\ Len(Taken(x)) = n
       /\ \A i \in 1 .. n : Taken(x)[i] = channel[x][i]
       /\ Len(channel'[x]) = Len(channel[x]) - n
       /\ \A i \in 1 .. Len(channel[x]) - n : channel'[x][i] = channel[x][i + n]
  BY <1>2, <1>3, <1>4, <1>6, <1>7, <1>9, <1>11, Zenon
<1> QED
  BY <1>11, <1>12

LEMMA ResponseIs ==
  ASSUME NEW kind \in {"past", "event", "progress"}, NEW revs \in Seq(Nat)
  PROVE  /\ Response(kind, revs) \in Seq(OutRec) /\ Len(Response(kind, revs)) = Len(revs)
         /\ \A i \in 1 .. Len(revs) : Response(kind, revs)[i].kind = kind
                                      /\ Response(kind, revs)[i].rev = revs[i]
<1>1. PICK n \in Nat : n = Len(revs)
  OBVIOUS
<1>2. revs \in [1 .. n -> Nat]
  BY <1>1
<1>3. PICK f : f = [i \in 1 .. n |-> [kind |-> kind, rev |-> revs[i]]]
  OBVIOUS
<1>4. Response(kind, revs) = f
  BY <1>1, <1>3 DEF Response
<1>5. f \in [1 .. n -> OutRec]
  BY <1>2, <1>3 DEF OutRec
<1>6. \A i \in 1 .. n : f[i].kind = kind /\ f[i].rev = revs[i]
  BY <1>3
<1> QED
  BY <1>1, <1>4, <1>5, <1>6

(***************************************************************************)
(* The stream of x has sent e after what it had sent before.               *)
(***************************************************************************)
Grew(x, e) ==
  /\ out' \in [Watchers -> Seq(OutRec)]
  /\ \A y \in Watchers : y # x => out'[y] = out[y]
  /\ Len(out[x]) \in Nat /\ Len(e) \in Nat
  /\ Len(out'[x]) = Len(out[x]) + Len(e)
  /\ \A i \in 1 .. Len(out[x]) : out'[x][i] = out[x][i]
  /\ \A i \in 1 .. Len(e) : out'[x][Len(out[x]) + i] = e[i]

LEMMA GrewBy ==
  ASSUME StreamType, NEW x \in Watchers, NEW e \in Seq(OutRec),
         out' = [out EXCEPT ![x] = out[x] \o e]
  PROVE  Grew(x, e)
<1>1. out \in [Watchers -> Seq(OutRec)]
  BY DEF StreamType
<1>2. PICK s \in Seq(OutRec) : s = out[x]
  BY <1>1
<1>3. PICK m \in Nat, n \in Nat : m = Len(s) /\ n = Len(e)
  OBVIOUS
<1>4. PICK t \in Seq(OutRec) : t = s \o e
  BY ConcatProperties
<1>5. Len(t) = m + n /\ \A i \in 1 .. m + n : t[i] = IF i <= m THEN s[i] ELSE e[i - m]
  BY <1>3, <1>4, ConcatProperties
<1>6. \A i \in 1 .. m : t[i] = s[i]
  BY <1>5
<1>7. ASSUME NEW i \in 1 .. n PROVE t[m + i] = e[i]
  <2>1. m + i \in 1 .. m + n /\ ~(m + i <= m) /\ (m + i) - m = i
    OBVIOUS
  <2> QED
    BY <1>5, <2>1
<1>8. out' = [out EXCEPT ![x] = t]
  BY <1>2, <1>4
<1>9. out' \in [Watchers -> Seq(OutRec)] /\ out'[x] = t /\ \A y \in Watchers : y # x => out'[y] = out[y]
  BY <1>1, <1>8
<1> QED
  BY <1>2, <1>3, <1>5, <1>6, <1>7, <1>9 DEF Grew

LEMMA OpenOut ==
  ASSUME StreamType, NEW x \in Watchers, StreamOpen(x)
  PROVE  \E e \in Seq(OutRec) :
           /\ Grew(x, e) /\ Len(e) = Len(stream[x].past)
           /\ \A i \in 1 .. Len(e) : e[i].kind = "past" /\ e[i].rev = stream[x].past[i]
<1>1. stream[x].past \in Seq(Nat)
  BY DEF StreamType, StreamRec
<1>2. PICK e \in Seq(OutRec) : e = Response("past", stream[x].past)
  BY <1>1, ResponseIs
<1>3. Len(e) = Len(stream[x].past)
      /\ \A i \in 1 .. Len(e) : e[i].kind = "past" /\ e[i].rev = stream[x].past[i]
  BY <1>1, <1>2, ResponseIs
<1>4. out' = [out EXCEPT ![x] = out[x] \o e]
  BY <1>2 DEF StreamOpen
<1> QED
  BY <1>3, <1>4, GrewBy

LEMMA EventsOut ==
  ASSUME IInv, StreamType, NEW x \in Watchers, StreamEvents(x)
  PROVE  \E e \in Seq(OutRec) :
           /\ Grew(x, e) /\ Len(e) = Len(Taken(x))
           /\ \A i \in 1 .. Len(e) : e[i].kind = "event" /\ e[i].rev = Taken(x)[i]
<1>1. Taken(x) \in Seq(Nat)
  BY TakenIs DEF StreamEvents
<1>2. PICK e \in Seq(OutRec) : e = Response("event", Taken(x))
  BY <1>1, ResponseIs
<1>3. Len(e) = Len(Taken(x))
      /\ \A i \in 1 .. Len(e) : e[i].kind = "event" /\ e[i].rev = Taken(x)[i]
  BY <1>1, <1>2, ResponseIs
<1>4. out' = [out EXCEPT ![x] = out[x] \o e]
  BY <1>2 DEF StreamEvents
<1> QED
  BY <1>3, <1>4, GrewBy

LEMMA ProgressOut ==
  ASSUME IInv, StreamType, NEW x \in Watchers, StreamProgress(x)
  PROVE  \E e \in Seq(OutRec) :
           /\ Grew(x, e) /\ Len(e) = 1 /\ e[1].kind = "progress"
           /\ e[1].rev \in {progress_rev, stream[x].max_event_stream_rev}
<1>1. progress_rev \in Nat
  BY DEF IInv, TypeOK
<1>2. stream[x].max_event_stream_rev \in Nat /\ out[x] \in Seq(OutRec)
  BY DEF StreamType, StreamRec
<1>3. PICK n \in Nat : /\ n = Max({progress_rev, stream[x].max_event_stream_rev})
                       /\ n \in {progress_rev, stream[x].max_event_stream_rev}
  BY <1>1, <1>2, MaxOfTwo
<1>4. PICK o \in OutRec : o = [kind |-> "progress", rev |-> n]
  BY DEF OutRec
<1>5. o.kind = "progress" /\ o.rev = n
  BY <1>4
<1>6. PICK e \in Seq(OutRec) : e = <<o>>
  <2>1. <<o>> \in Seq(OutRec)
    OBVIOUS
  <2> QED
    BY <2>1
<1>7. Len(e) = 1 /\ e[1] = o
  BY <1>6
<1>8. Append(out[x], o) = out[x] \o e
  BY <1>2, <1>6
<1>9. out' = [out EXCEPT ![x] = out[x] \o e]
  BY <1>3, <1>4, <1>8 DEF StreamProgress
<1> QED
  BY <1>3, <1>5, <1>7, <1>9, GrewBy

LEMMA EventsIs ==
  ASSUME IInv, StreamType, NEW x \in Watchers, StreamEvents(x)
  PROVE  /\ stream' \in [Watchers -> StreamRec]
         /\ \A y \in Watchers : y # x => stream'[y] = stream[y]
         /\ stream'[x].at = "open" /\ stream[x].at = "open"
         /\ stream'[x].rev = stream[x].rev /\ stream'[x].start = stream[x].start
         /\ stream'[x].max_event_stream_rev
              \in {stream[x].max_event_stream_rev, Taken(x)[Len(Taken(x))]}
<1>1. stream \in [Watchers -> StreamRec] /\ stream[x].max_event_stream_rev \in Nat
  BY DEF StreamType, StreamRec
<1>2. PICK n \in Nat : n = Taken(x)[Len(Taken(x))]
  <2>1. Taken(x) \in Seq(Nat) /\ Len(Taken(x)) \in 1 .. Len(channel[x])
    BY TakenIs DEF StreamEvents
  <2> QED
    BY <2>1
<1>3. PICK m \in Nat : /\ m = Max({stream[x].max_event_stream_rev, n})
                       /\ m \in {stream[x].max_event_stream_rev, n}
  BY <1>1, MaxOfTwo
<1>4. stream' = [stream EXCEPT ![x].max_event_stream_rev = m]
  BY <1>2, <1>3 DEF StreamEvents, Last
<1>5. stream[x].at = "open"
  BY DEF StreamEvents
<1> QED
  BY <1>1, <1>2, <1>3, <1>4, <1>5 DEF StreamRec

(***************************************************************************)
(* A step of one watch touches neither the writers nor the thread nor any  *)
(* other watch, and keeps the types.                                       *)
(***************************************************************************)
OthersKept(x) ==
  /\ UNCHANGED <<compacted, writerVars, queue, threadVars>>
  /\ \A y \in Watchers : y # x =>
       /\ stream'[y] = stream[y] /\ out'[y] = out[y]
       /\ registered'[y] = registered[y] /\ channel'[y] = channel[y]
       /\ y \in closed' <=> y \in closed

LEMMA WatchKeeps ==
  ASSUME StreamBase, NEW x \in Watchers, WatchStep(x) \/ StreamStep(x) \/ ClientStep(x)
  PROVE  OthersKept(x) /\ StreamType'
<1>1. StreamType /\ IInv /\ revision \in Nat
  BY DEF StreamBase, IInv, TypeOK
<1>2. /\ compacted \in Nat /\ stream \in [Watchers -> StreamRec] /\ out \in [Watchers -> Seq(OutRec)]
      /\ registered \in [Watchers -> Nat \union {None}] /\ channel \in [Watchers -> Seq(Nat)]
  BY DEF StreamBase, StreamType, IInv, TypeOK
<1>3. ASSUME NEW p \in Places, stream' = [stream EXCEPT ![x].at = p],
             UNCHANGED <<compacted, out, writerVars, queue, threadVars>>,
             \A y \in Watchers : y # x => /\ registered'[y] = registered[y]
                                          /\ channel'[y] = channel[y]
                                          /\ y \in closed' <=> y \in closed
      PROVE  OthersKept(x) /\ StreamType'
  <2>1. stream' \in [Watchers -> StreamRec] /\ \A y \in Watchers : y # x => stream'[y] = stream[y]
    BY <1>1, <1>3, MovedIs
  <2> QED
    BY <1>2, <1>3, <2>1 DEF OthersKept, StreamType
<1>4. ASSUME WatchRegister(x) PROVE OthersKept(x) /\ StreamType'
  BY <1>2, <1>3, <1>4 DEF WatchRegister, Register, Places
<1>5. ASSUME NEW u \in BOOLEAN, Close(x, u)
      PROVE  /\ UNCHANGED <<writerVars, queue, threadVars>>
             /\ \A y \in Watchers : y # x => /\ registered'[y] = registered[y]
                                             /\ channel'[y] = channel[y]
                                             /\ y \in closed' <=> y \in closed
  BY <1>2, <1>5 DEF Close
<1>6. ASSUME WatchSpansPrefixes(x) \/ StreamCancel(x) \/ StreamDropped(x)
      PROVE  OthersKept(x) /\ StreamType'
  BY <1>3, <1>5, <1>6 DEF WatchSpansPrefixes, StreamCancel, StreamDropped, Places
<1>7. ASSUME UNCHANGED <<vars, compacted>>, stream' \in [Watchers -> StreamRec],
             \A y \in Watchers : y # x => stream'[y] = stream[y],
             out' \in [Watchers -> Seq(OutRec)],
             \A y \in Watchers : y # x => out'[y] = out[y]
      PROVE  OthersKept(x) /\ StreamType'
  BY <1>2, <1>7 DEF OthersKept, StreamType, vars, watcherVars
<1>8. ASSUME WatchReadPast(x) PROVE OthersKept(x) /\ StreamType'
  BY <1>2, <1>7, <1>8, ReadPastIs DEF WatchReadPast
<1>9. ASSUME StreamOpen(x) PROVE OthersKept(x) /\ StreamType'
  <2>1. out' \in [Watchers -> Seq(OutRec)] /\ \A y \in Watchers : y # x => out'[y] = out[y]
    BY <1>1, <1>9, OpenOut DEF Grew
  <2> QED
    BY <1>1, <1>7, <1>9, <2>1, OpenIs DEF StreamOpen
<1>10. ASSUME StreamProgress(x) PROVE OthersKept(x) /\ StreamType'
  <2>1. out' \in [Watchers -> Seq(OutRec)] /\ \A y \in Watchers : y # x => out'[y] = out[y]
    BY <1>1, <1>10, ProgressOut DEF Grew
  <2>2. stream' \in [Watchers -> StreamRec] /\ \A y \in Watchers : y # x => stream'[y] = stream[y]
    BY <1>1, <1>10, MovedIs DEF StreamProgress, Places
  <2> QED
    BY <1>7, <1>10, <2>1, <2>2 DEF StreamProgress
<1>11. ASSUME StreamEvents(x) PROVE OthersKept(x) /\ StreamType'
  <2>1. out' \in [Watchers -> Seq(OutRec)] /\ \A y \in Watchers : y # x => out'[y] = out[y]
    BY <1>1, <1>11, EventsOut DEF Grew
  <2>2. stream' \in [Watchers -> StreamRec] /\ \A y \in Watchers : y # x => stream'[y] = stream[y]
    BY <1>1, <1>11, EventsIs
  <2>3. \A y \in Watchers : y # x => channel'[y] = channel[y]
    BY <1>1, <1>11, TakenIs DEF StreamEvents
  <2> QED
    BY <1>2, <1>11, <2>1, <2>2, <2>3 DEF StreamEvents, Receive, OthersKept, StreamType
<1>12. ASSUME StreamProgressRequest(x) \/ StreamHalfClosed(x) PROVE OthersKept(x) /\ StreamType'
  BY <1>1, <1>2, <1>7, <1>12, RequestIs DEF StreamProgressRequest, StreamHalfClosed
<1>13. ASSUME NEW rev \in 0 .. MaxRev, WatchBegin(x, rev) PROVE OthersKept(x) /\ StreamType'
  BY <1>1, <1>2, <1>7, <1>13, BeginIs DEF WatchBegin
<1> QED
  BY <1>4, <1>6, <1>8, <1>9, <1>10, <1>11, <1>12, <1>13 DEF WatchStep, StreamStep, ClientStep

LEMMA NextType == StreamBase /\ [StreamNext]_allVars => StreamType'
<1> SUFFICES ASSUME StreamBase, [StreamNext]_allVars PROVE StreamType'
  OBVIOUS
<1>1. ASSUME UNCHANGED streamVars PROVE StreamType'
  BY <1>1 DEF StreamBase, StreamType, streamVars
<1>2. ASSUME NEW rev \in 1 .. MaxRev, Compact(rev) PROVE StreamType'
  BY <1>2 DEF StreamBase, StreamType, Compact
<1> QED
  BY <1>1, <1>2, WatchKeeps DEF StreamNext, allVars

LEMMA InitType == StreamInit => StreamType
<1>1. NoStream \in StreamRec
  BY DEF NoStream, StreamRec, Places
<1> QED
  BY <1>1 DEF StreamInit, StreamType

LEMMA AlwaysBase == StreamSpec => []StreamBase
<1>1. StreamSpec => [](IInv /\ StoredInv /\ StartsKnown)
  BY StreamImplementsNotify, AlwaysIInv, AlwaysStored, AlwaysStarts, PTL
<1>2. (IInv /\ StoredInv /\ StartsKnown) /\ StreamType /\ [StreamNext]_allVars => StreamType'
  BY NextType DEF StreamBase
<1>3. (IInv /\ StoredInv /\ StartsKnown) /\ StreamType => StreamBase
  BY DEF StreamBase
<1> QED
  BY <1>1, <1>2, <1>3, InitType, PTL DEF StreamSpec

(* The watch of x is where its registration and its channel say. *)
LEMMA InitPlaces == StreamInit => PlacesInv
  BY DEF StreamInit, Init, NoStream, PlacesInv, Running

LEMMA NextPlaces == StreamBase /\ PlacesInv /\ [StreamNext]_allVars => PlacesInv'
<1> SUFFICES ASSUME StreamBase, PlacesInv, [StreamNext]_allVars PROVE PlacesInv'
  OBVIOUS
<1>1. StreamType /\ IInv /\ revision \in Nat
  BY DEF StreamBase, IInv, TypeOK
<1>2. /\ registered \in [Watchers -> Nat \union {None}] /\ stream \in [Watchers -> StreamRec]
  BY DEF StreamBase, StreamType, IInv, TypeOK
<1>3. ASSUME UNCHANGED <<stream, registered, closed>> PROVE PlacesInv'
  BY <1>3 DEF PlacesInv, Running
<1>4. ASSUME NEW w \in Writers, SetStep(w) PROVE UNCHANGED <<registered, closed>>
  BY <1>4 DEF SetStep, Push, Publish, Collect, Send, Acked, watcherVars
<1>5. ASSUME ThreadStep PROVE UNCHANGED <<registered, closed>>
  BY <1>5 DEF ThreadStep, Spool, Recv, Enqueue, SkipClosed, SentAll, Drain, StoreProgress, watcherVars
<1>6. ASSUME NEW rev \in 1 .. MaxRev, Compact(rev) PROVE PlacesInv'
  BY <1>3, <1>6 DEF Compact, vars, watcherVars
<1>7. ASSUME NEW x \in Watchers, WatchStep(x) \/ StreamStep(x) \/ ClientStep(x) PROVE PlacesInv'
  <2>1. OthersKept(x)
    BY <1>7, WatchKeeps
  <2> DEFINE P(y) == /\ stream[y].at \in {"none", "checked"} \/ Running(y) => y \notin closed
                     /\ Running(y) => registered[y] = stream[y].start
                     /\ stream[y].at = "checked" /\ stream[y].rev > 0 => stream[y].left = Watched[y]
  <2>2. P(x)
    BY DEF PlacesInv
  <2>3. ASSUME WatchRegister(x) PROVE P(x)'
    <3>1. stream'[x].at = "past" /\ stream'[x].start = stream[x].start /\ stream[x].at = "checked"
      BY <1>1, <2>3, MovedIs DEF WatchRegister, Places
    <3>2. registered'[x] = stream[x].start /\ closed' = closed
      BY <1>2, <2>3 DEF WatchRegister, Register
    <3> QED
      BY <2>2, <3>1, <3>2 DEF Running
  <2>4. ASSUME WatchSpansPrefixes(x) \/ StreamCancel(x) \/ StreamDropped(x) PROVE P(x)'
    <3>1. stream'[x].at \in {"refused", "closed"}
      BY <1>1, <2>4, MovedIs DEF WatchSpansPrefixes, StreamCancel, StreamDropped, Places
    <3> QED
      BY <3>1 DEF Running
  <2>5. ASSUME UNCHANGED <<registered, closed>>, Running(x), stream'[x].start = stream[x].start,
               stream'[x].at \in {"past", "open", "progress"}
        PROVE  P(x)'
    BY <2>2, <2>5 DEF Running
  <2>6. ASSUME WatchReadPast(x) PROVE P(x)'
    BY <2>5, <2>6, ReadPastIs DEF WatchReadPast, Running, vars, watcherVars
  <2>7. ASSUME StreamOpen(x) PROVE P(x)'
    BY <1>1, <2>5, <2>7, OpenIs DEF StreamOpen, Running, vars, watcherVars
  <2>8. ASSUME StreamEvents(x) PROVE P(x)'
    BY <1>1, <2>5, <2>8, EventsIs DEF StreamEvents, Receive, Running
  <2>9. ASSUME StreamProgress(x) PROVE P(x)'
    <3>1. stream'[x].at = "open" /\ stream'[x].start = stream[x].start
      BY <1>1, <2>9, MovedIs DEF StreamProgress, Places
    <3> QED
      BY <2>5, <2>9, <3>1 DEF StreamProgress, Running, vars, watcherVars
  <2>10. ASSUME StreamProgressRequest(x) \/ StreamHalfClosed(x) PROVE P(x)'
    BY <1>1, <2>5, <2>10, RequestIs DEF StreamProgressRequest, StreamHalfClosed, Running, vars, watcherVars
  <2>11. ASSUME NEW rev \in 0 .. MaxRev, WatchBegin(x, rev) PROVE P(x)'
    <3>1. UNCHANGED <<registered, closed>>
      BY <2>11 DEF WatchBegin, vars, watcherVars
    <3>2. /\ stream[x].at = "none"
          /\ \/ /\ stream'[x].at = "checked" /\ stream'[x].rev = rev
                /\ rev > 0 => stream'[x].left = Watched[x]
             \/ stream'[x].at = "refused"
      BY <1>1, <2>11, BeginIs
    <3> QED
      BY <2>2, <3>1, <3>2 DEF Running
  <2>12. P(x)'
    BY <1>7, <2>3, <2>4, <2>6, <2>7, <2>8, <2>9, <2>10, <2>11 DEF WatchStep, StreamStep, ClientStep
  <2>13. ASSUME NEW y \in Watchers, y # x PROVE P(y)'
    BY <2>1, <2>13 DEF OthersKept, PlacesInv, Running
  <2> QED
    BY <2>12, <2>13 DEF PlacesInv
<1> QED
  BY <1>3, <1>4, <1>5, <1>6, <1>7 DEF StreamNext, allVars, vars, watcherVars, streamVars

-------------------------------------------------------------------------------
(***************************************************************************)
(* What is on its way to a watch stays on its way until it is in the       *)
(* watch's channel, through every step of the writers and of the thread.   *)
(***************************************************************************)
WithWriter(x, r) ==
  \E w \in Writers : /\ call[w].job.rev = r
                     /\ \/ call[w].at = "stored"
                        \/ call[w].at = "collected" /\ x \in call[w].job.to
Queued(x, r) == \E i \in 1 .. Len(queue) : queue[i].rev = r /\ x \in queue[i].to
Spooled(x, r) == \E j \in spool : j.rev = r /\ x \in j.to
Sending(x, r) == thread = "send" /\ job.rev = r /\ x \in job.to

LEMMA WaysAre ==
  ASSUME NEW x, NEW r
  PROVE  OnItsWay(x, r) <=> WithWriter(x, r) \/ Queued(x, r) \/ Spooled(x, r) \/ Sending(x, r)
  BY Zenon DEF OnItsWay, WithWriter, Queued, Spooled, Sending

(***************************************************************************)
(* A call that collects the watchers finds the watch: it is registered,    *)
(* and the change is one of a key that it watches.                         *)
(***************************************************************************)
LEMMA WriterKeeps ==
  ASSUME StreamBase, NEW x \in Watchers, NEW k \in Watched[x], NEW r \in revisions[k],
         registered[x] \in Nat, registered[x] <= r,
         NEW w \in Writers, SetStep(w), OnItsWay(x, r)
  PROVE  OnItsWay(x, r)'
<1>1. /\ IInv /\ call \in [Writers -> CallType] /\ queue \in Seq(Jobs) /\ k \in Keys
  BY WatchedAssumption DEF StreamBase, IInv, TypeOK, CallType
<1>2. UNCHANGED <<spool, thread, job>>
  BY DEF SetStep, Push, Publish, Collect, Send, Acked, threadVars
<1>3. Spooled(x, r) => Spooled(x, r)'
  BY <1>2 DEF Spooled
<1>4. Sending(x, r) => Sending(x, r)'
  BY <1>2 DEF Sending
<1>5. \A v \in Writers : v # w => call'[v] = call[v]
  BY <1>1 DEF SetStep, Push, Publish, Collect, Send, Acked
<1>6. ASSUME queue' = queue,
             call[w].job.rev = r /\ (call[w].at = "stored" \/ (call[w].at = "collected" /\ x \in call[w].job.to)) =>
               WithWriter(x, r)'
      PROVE  OnItsWay(x, r)'
  <2>1. WithWriter(x, r) => WithWriter(x, r)'
    <3> SUFFICES ASSUME WithWriter(x, r) PROVE WithWriter(x, r)'
      OBVIOUS
    <3>1. PICK v \in Writers : /\ call[v].job.rev = r
                               /\ call[v].at = "stored" \/ (call[v].at = "collected" /\ x \in call[v].job.to)
      BY DEF WithWriter
    <3>2. CASE v = w
      BY <1>6, <3>1, <3>2
    <3>3. CASE v # w
      BY <1>5, <3>1, <3>3 DEF WithWriter
    <3> QED
      BY <3>2, <3>3
  <2>2. Queued(x, r) => Queued(x, r)'
    BY <1>6 DEF Queued
  <2>3. WithWriter(x, r)' \/ Queued(x, r)' \/ Spooled(x, r)' \/ Sending(x, r)'
    BY <1>3, <1>4, <2>1, <2>2, WaysAre
  <2> QED
    BY <2>3, Zenon DEF OnItsWay, WithWriter, Queued, Spooled, Sending
<1>7. ASSUME (\E l \in Keys : Push(w, l)) \/ Publish(w) \/ Acked(w) PROVE OnItsWay(x, r)'
  BY <1>6, <1>7 DEF Push, Publish, Acked
<1>8. ASSUME Collect(w) PROVE OnItsWay(x, r)'
  <2>1. /\ call'[w].at = "collected" /\ call'[w].job.rev = call[w].job.rev
        /\ call'[w].job.to = Interested(call[w].job.key, call[w].job.rev)
        /\ call[w].at = "stored" /\ queue' = queue
    BY <1>1, <1>8, CollectIs DEF Collect
  <2>2. ASSUME call[w].job.rev = r PROVE WithWriter(x, r)'
    <3>1. call[w].job.key \in Keys /\ r \in revisions[call[w].job.key]
      BY <1>1, <2>1, <2>2, HeldJob DEF Holding, StreamBase, StoredInv
    <3>2. call[w].job.key = k
      BY <1>1, <3>1 DEF StreamBase, StoredInv
    <3>3. x \in Interested(call[w].job.key, r)
      BY <3>2, NoneAssumption DEF Interested
    <3> QED
      BY <2>1, <2>2, <3>3 DEF WithWriter
  <2> QED
    BY <1>6, <2>1, <2>2
<1>9. ASSUME Send(w) PROVE OnItsWay(x, r)'
  <2>1. PICK n \in Nat : n = Len(queue)
    BY <1>1
  <2>2. PICK j \in Jobs : j = call[w].job
    BY <1>1, <1>9, HeldJob DEF Holding, Send
  <2>3. /\ queue' = Append(queue, j) /\ call[w].at = "collected"
    BY <1>9, <2>2 DEF Send
  <2>4. Len(queue') = n + 1 /\ queue'[n + 1] = j /\ \A i \in 1 .. n : queue'[i] = queue[i]
    BY <1>1, <2>1, <2>3
  <2>5. Queued(x, r) => Queued(x, r)'
    BY <2>1, <2>4 DEF Queued
  <2>6. ASSUME WithWriter(x, r) PROVE WithWriter(x, r)' \/ Queued(x, r)'
    <3>1. PICK v \in Writers : /\ call[v].job.rev = r
                               /\ call[v].at = "stored" \/ (call[v].at = "collected" /\ x \in call[v].job.to)
      BY <2>6 DEF WithWriter
    <3>2. CASE v = w
      <4>1. j.rev = r /\ x \in j.to
        BY <2>2, <2>3, <3>1, <3>2
      <4> QED
        BY <2>1, <2>4, <4>1 DEF Queued
    <3>3. CASE v # w
      BY <1>5, <3>1, <3>3 DEF WithWriter
    <3> QED
      BY <3>2, <3>3
  <2>7. WithWriter(x, r)' \/ Queued(x, r)' \/ Spooled(x, r)' \/ Sending(x, r)'
    BY <1>3, <1>4, <2>5, <2>6, WaysAre
  <2> QED
    BY <2>7, Zenon DEF OnItsWay, WithWriter, Queued, Spooled, Sending
<1> QED
  BY <1>7, <1>8, <1>9 DEF SetStep

(* The thread drops a job for a watch only once the channel has it. *)
LEMMA ThreadKeeps ==
  ASSUME IInv, NEW x \in Watchers, x \notin closed, NEW r, ThreadStep,
         OnItsWay(x, r) \/ InChannel(x, r)
  PROVE  OnItsWay(x, r)' \/ InChannel(x, r)'
<1>1. /\ queue \in Seq(Jobs) /\ spool \subseteq Jobs /\ channel \in [Watchers -> Seq(Nat)]
      /\ job \in Jobs \union {NoJob} /\ next_rev \in Nat
  BY DEF IInv, TypeOK
<1>2. call' = call
  BY DEF ThreadStep, Spool, Recv, Enqueue, SkipClosed, SentAll, Drain, StoreProgress, writerVars
<1>3. WithWriter(x, r) => WithWriter(x, r)'
  BY <1>2 DEF WithWriter
<1>4. SUFFICES WithWriter(x, r)' \/ Queued(x, r)' \/ Spooled(x, r)' \/ Sending(x, r)' \/ InChannel(x, r)'
  BY Zenon DEF OnItsWay, WithWriter, Queued, Spooled, Sending
<1>5. WithWriter(x, r) \/ Queued(x, r) \/ Spooled(x, r) \/ Sending(x, r) \/ InChannel(x, r)
  BY WaysAre
<1>6. ASSUME queue # <<>>, queue' = Tail(queue), Queued(x, r)
      PROVE  (Head(queue).rev = r /\ x \in Head(queue).to) \/ Queued(x, r)'
  <2>1. PICK i \in 1 .. Len(queue) : queue[i].rev = r /\ x \in queue[i].to
    BY <1>6 DEF Queued
  <2>2. CASE i = 1
    BY <1>1, <1>6, <2>1, <2>2, TailOfQueue
  <2>3. CASE i # 1
    <3>1. i - 1 \in 1 .. Len(queue') /\ queue'[i - 1] = queue[i]
      BY <1>1, <1>6, <2>1, <2>3
    <3> QED
      BY <2>1, <3>1 DEF Queued
  <2> QED
    BY <2>2, <2>3
<1>7. ASSUME Spool
      PROVE  WithWriter(x, r)' \/ Queued(x, r)' \/ Spooled(x, r)' \/ Sending(x, r)' \/ InChannel(x, r)'
  <2>1. PICK j : j = Head(queue)
    OBVIOUS
  <2>2. /\ queue # <<>> /\ queue' = Tail(queue) /\ spool' = spool \union {j}
        /\ UNCHANGED <<thread, job, channel>>
    BY <1>7, <2>1 DEF Spool, watcherVars
  <2>3. Spooled(x, r) => Spooled(x, r)'
    BY <2>2 DEF Spooled
  <2>4. Queued(x, r) => Spooled(x, r)' \/ Queued(x, r)'
    BY <1>6, <2>1, <2>2 DEF Spooled
  <2>5. (Sending(x, r) => Sending(x, r)') /\ (InChannel(x, r) => InChannel(x, r)')
    BY <2>2 DEF Sending, InChannel
  <2> QED
    BY <1>3, <1>5, <2>3, <2>4, <2>5
<1>8. ASSUME Recv
      PROVE  WithWriter(x, r)' \/ Queued(x, r)' \/ Spooled(x, r)' \/ Sending(x, r)' \/ InChannel(x, r)'
  <2>1. PICK j : j = Head(queue)
    OBVIOUS
  <2>2. /\ queue # <<>> /\ queue' = Tail(queue) /\ thread = "recv" /\ thread' = "send" /\ job' = j
        /\ UNCHANGED <<spool, channel>>
    BY <1>8, <2>1 DEF Recv, StartSend, watcherVars
  <2>3. Queued(x, r) => Sending(x, r)' \/ Queued(x, r)'
    BY <1>6, <2>1, <2>2 DEF Sending
  <2>4. ~Sending(x, r) /\ (Spooled(x, r) => Spooled(x, r)') /\ (InChannel(x, r) => InChannel(x, r)')
    BY <2>2 DEF Sending, Spooled, InChannel
  <2> QED
    BY <1>3, <1>5, <2>3, <2>4
<1>9. ASSUME NEW y \in Watchers, Enqueue(y)
      PROVE  WithWriter(x, r)' \/ Queued(x, r)' \/ Spooled(x, r)' \/ Sending(x, r)' \/ InChannel(x, r)'
  <2>1. job \in Jobs /\ thread = "send" /\ y \in job.to
    BY <1>9 DEF Enqueue, IInv, PendingInv, PendingInRange
  <2>2. PICK c \in Seq(Nat), n \in Nat, q \in Nat : c = channel[y] /\ n = Len(c) /\ q = job.rev
    BY <1>1, <2>1 DEF Jobs
  <2>3. channel' = [channel EXCEPT ![y] = Append(c, q)]
    BY <1>9, <2>2 DEF Enqueue
  <2>4. PICK d : d = Append(c, q)
    OBVIOUS
  <2>5. Len(d) = n + 1 /\ d[n + 1] = q /\ \A i \in 1 .. n : d[i] = c[i]
    BY <2>2, <2>4
  <2>6. channel'[y] = d /\ \A z \in Watchers : z # y => channel'[z] = channel[z]
    BY <1>1, <2>3, <2>4
  <2>7. ASSUME InChannel(x, r) PROVE InChannel(x, r)'
    <3>1. CASE x = y
      <4>1. PICK i \in 1 .. n : c[i] = r
        BY <2>2, <2>7, <3>1 DEF InChannel
      <4>2. i \in 1 .. n + 1 /\ d[i] = r
        BY <2>5, <4>1
      <4> QED
        BY <2>5, <2>6, <3>1, <4>2 DEF InChannel
    <3>2. CASE x # y
      BY <2>6, <2>7, <3>2 DEF InChannel
    <3> QED
      BY <3>1, <3>2
  <2>8. job'.rev = job.rev /\ job'.to = job.to \ {y} /\ thread' = thread /\ UNCHANGED <<queue, spool>>
    BY <1>9, <2>1 DEF Enqueue, Jobs
  <2>9. Sending(x, r) => Sending(x, r)' \/ InChannel(x, r)'
    <3>1. CASE x = y
      BY <2>2, <2>5, <2>6, <3>1 DEF Sending, InChannel
    <3>2. CASE x # y
      BY <2>8, <3>2 DEF Sending
    <3> QED
      BY <3>1, <3>2
  <2>10. (Queued(x, r) => Queued(x, r)') /\ (Spooled(x, r) => Spooled(x, r)')
    BY <2>8 DEF Queued, Spooled
  <2> QED
    BY <1>3, <1>5, <2>7, <2>9, <2>10
<1>10. ASSUME NEW y \in Watchers, SkipClosed(y)
       PROVE  WithWriter(x, r)' \/ Queued(x, r)' \/ Spooled(x, r)' \/ Sending(x, r)' \/ InChannel(x, r)'
  <2>1. job \in Jobs /\ x # y
    BY <1>10 DEF SkipClosed, IInv, PendingInv, PendingInRange
  <2>2. /\ job'.rev = job.rev /\ job'.to = job.to \ {y} /\ thread' = thread
        /\ UNCHANGED <<queue, spool, channel>>
    BY <1>10, <2>1 DEF SkipClosed, Jobs, watcherVars
  <2>3. (Sending(x, r) => Sending(x, r)') /\ (InChannel(x, r) => InChannel(x, r)')
    BY <2>1, <2>2 DEF Sending, InChannel
  <2>4. (Queued(x, r) => Queued(x, r)') /\ (Spooled(x, r) => Spooled(x, r)')
    BY <2>2 DEF Queued, Spooled
  <2> QED
    BY <1>3, <1>5, <2>3, <2>4
<1>11. ASSUME SentAll \/ StoreProgress
       PROVE  WithWriter(x, r)' \/ Queued(x, r)' \/ Spooled(x, r)' \/ Sending(x, r)' \/ InChannel(x, r)'
  <2>1. UNCHANGED <<queue, spool, channel>> /\ ~Sending(x, r)
    BY <1>11 DEF SentAll, StoreProgress, watcherVars, Sending
  <2>2. /\ (Queued(x, r) => Queued(x, r)') /\ (Spooled(x, r) => Spooled(x, r)')
        /\ (InChannel(x, r) => InChannel(x, r)')
    BY <2>1 DEF Queued, Spooled, InChannel
  <2> QED
    BY <1>3, <1>5, <2>1, <2>2
<1>12. ASSUME Drain
       PROVE  WithWriter(x, r)' \/ Queued(x, r)' \/ Spooled(x, r)' \/ Sending(x, r)' \/ InChannel(x, r)'
  <2>1. PICK j \in spool : job' = j /\ thread' = "send" /\ spool' = spool \ {j}
    BY <1>12 DEF Drain, StartSend
  <2>2. UNCHANGED <<queue, channel>> /\ thread = "drain"
    BY <1>12 DEF Drain, watcherVars
  <2>3. Spooled(x, r) => Spooled(x, r)' \/ Sending(x, r)'
    BY <2>1 DEF Spooled, Sending
  <2>4. ~Sending(x, r) /\ (Queued(x, r) => Queued(x, r)') /\ (InChannel(x, r) => InChannel(x, r)')
    BY <2>2 DEF Sending, Queued, InChannel
  <2> QED
    BY <1>3, <1>5, <2>3, <2>4
<1> QED
  BY <1>7, <1>8, <1>9, <1>10, <1>11, <1>12 DEF ThreadStep

-------------------------------------------------------------------------------
(***************************************************************************)
(* Nothing is missed.  While Store::watch still reads the items, a change  *)
(* may also be in an item that it has yet to read, or among the changes    *)
(* that it has read and that the stream will send first.                   *)
(***************************************************************************)
InPast(x, r) == \E i \in 1 .. Len(stream[x].past) : stream[x].past[i] = r

Covered(x, k, r) ==
  \/ Sent(x, r) \/ InChannel(x, r) \/ OnItsWay(x, r)
  \/ stream[x].at = "past" /\ (k \in stream[x].left \/ InPast(x, r))

MissOf(x) ==
  Running(x) /\ stream[x].rev > 0 =>
    \A k \in Watched[x] : \A r \in revisions[k] :
      r >= stream[x].start /\ r > compacted => Covered(x, k, r)

MissInv == \A x \in Watchers : MissOf(x)

LEMMA SentGrows ==
  ASSUME StreamType, NEW x \in Watchers, NEW e \in Seq(OutRec), Grew(x, e)
  PROVE  /\ \A r : Sent(x, r) => Sent(x, r)'
         /\ \A i \in 1 .. Len(e) : e[i].kind # "progress" => Sent(x, e[i].rev)'
<1>1. PICK m \in Nat, n \in Nat : m = Len(out[x]) /\ n = Len(e)
  BY DEF Grew
<1>2. /\ Len(out'[x]) = m + n /\ \A i \in 1 .. m : out'[x][i] = out[x][i]
      /\ \A i \in 1 .. n : out'[x][m + i] = e[i]
  BY <1>1 DEF Grew
<1>3. ASSUME NEW r, Sent(x, r) PROVE Sent(x, r)'
  <2>1. PICK i \in 1 .. m : IsEvent(out[x][i]) /\ out[x][i].rev = r
    BY <1>1, <1>3 DEF Sent
  <2>2. i \in 1 .. m + n /\ out'[x][i] = out[x][i]
    BY <1>2, <2>1
  <2> QED
    BY <1>2, <2>1, <2>2 DEF Sent, IsEvent
<1>4. ASSUME NEW i \in 1 .. n, e[i].kind # "progress" PROVE Sent(x, e[i].rev)'
  <2>1. m + i \in 1 .. m + n /\ e[i] \in OutRec
    BY <1>1
  <2>2. e[i].kind \in {"past", "event"}
    BY <1>4, <2>1 DEF OutRec
  <2>3. PICK o, q : o = e[i] /\ q = e[i].rev
    OBVIOUS
  <2>4. out'[x][m + i] = o /\ o.kind \in {"past", "event"} /\ o.rev = q
    BY <1>2, <2>2, <2>3
  <2>5. Sent(x, q)'
    BY <1>2, <2>1, <2>4 DEF Sent, IsEvent
  <2> QED
    BY <2>3, <2>5
<1> QED
  BY <1>1, <1>3, <1>4

LEMMA InitMiss == StreamInit => MissInv
  BY DEF StreamInit, NoStream, MissInv, MissOf, Running

LEMMA ServerMiss ==
  ASSUME StreamBase, PlacesInv, MissInv, UNCHANGED streamVars,
         (\E w \in Writers : SetStep(w)) \/ ThreadStep
  PROVE  MissInv'
<1> SUFFICES ASSUME NEW x \in Watchers, Running(x), stream[x].rev > 0,
                    NEW k \in Watched[x], NEW r \in revisions'[k],
                    r >= stream[x].start, r > compacted
             PROVE  Covered(x, k, r)'
  BY DEF MissInv, MissOf, Running, streamVars
<1>1. /\ IInv /\ k \in Keys /\ x \notin closed
      /\ registered[x] = stream[x].start /\ stream[x].start \in Nat
  BY WatchedAssumption DEF StreamBase, PlacesInv, StreamType, StreamRec
<1>2. r \in revisions[k] => Covered(x, k, r)
  BY DEF MissInv, MissOf
<1>3. SUFFICES ASSUME r \notin revisions[k] \/ OnItsWay(x, r) \/ InChannel(x, r)
               PROVE  OnItsWay(x, r)' \/ InChannel(x, r)'
  BY <1>2 DEF Covered, Sent, InPast, streamVars
<1>4. ASSUME NEW w \in Writers, SetStep(w) PROVE OnItsWay(x, r)' \/ InChannel(x, r)'
  <2>1. channel' = channel
    BY <1>4 DEF SetStep, Push, Publish, Collect, Send, Acked, watcherVars
  <2>2. CASE r \in revisions[k]
    <3>1. registered[x] <= r
      BY <1>1
    <3>2. OnItsWay(x, r) => OnItsWay(x, r)'
      BY <1>1, <1>4, <2>2, <3>1, WriterKeeps
    <3>3. InChannel(x, r) => InChannel(x, r)'
      BY <2>1 DEF InChannel
    <3> QED
      BY <1>3, <2>2, <3>2, <3>3
  <2>3. CASE r \notin revisions[k]
    <3>1. Publish(w)
      BY <1>4, <2>3 DEF SetStep, Push, Collect, Send, Acked
    <3>2. /\ call'[w].at = "stored" /\ call'[w].job = call[w].job
          /\ revisions'[k] = IF k = call[w].job.key
                             THEN revisions[k] \union {call[w].job.rev} ELSE revisions[k]
      BY <1>1, <3>1, PublishIs
    <3>3. call[w].job.rev = r
      BY <2>3, <3>2
    <3>4. WithWriter(x, r)'
      BY <3>2, <3>3 DEF WithWriter
    <3> QED
      BY <3>4, Zenon DEF OnItsWay, WithWriter
  <2> QED
    BY <2>2, <2>3
<1>5. ASSUME ThreadStep PROVE OnItsWay(x, r)' \/ InChannel(x, r)'
  <2>1. revisions' = revisions
    BY <1>5 DEF ThreadStep, Spool, Recv, Enqueue, SkipClosed, SentAll, Drain, StoreProgress, writerVars
  <2> QED
    BY <1>1, <1>3, <1>5, <2>1, ThreadKeeps
<1> QED
  BY <1>4, <1>5

(* A step of the watch itself moves a change from one place to the next. *)
LEMMA WatchMiss ==
  ASSUME StreamBase, PlacesInv, MissInv, NEW x \in Watchers,
         WatchStep(x) \/ StreamStep(x) \/ ClientStep(x)
  PROVE  MissInv'
<1>1. StreamType /\ IInv /\ OthersKept(x) /\ revision \in Nat
  BY WatchKeeps DEF StreamBase, IInv, TypeOK
<1>2. \A y, r : OnItsWay(y, r)' <=> OnItsWay(y, r)
  BY <1>1 DEF OthersKept, OnItsWay, writerVars, threadVars
<1>3. revisions' = revisions /\ compacted' = compacted
  BY <1>1 DEF OthersKept, writerVars
<1>4. ASSUME NEW y \in Watchers, y # x PROVE MissOf(y)'
  <2>1. stream'[y] = stream[y] /\ out'[y] = out[y] /\ channel'[y] = channel[y]
    BY <1>1, <1>4 DEF OthersKept
  <2>2. MissOf(y)
    BY DEF MissInv
  <2>3. \A r : (Sent(y, r) => Sent(y, r)') /\ (InChannel(y, r) => InChannel(y, r)')
               /\ (InPast(y, r) => InPast(y, r)')
    BY <2>1 DEF Sent, IsEvent, InChannel, InPast
  <2> QED
    BY <1>2, <1>3, <2>1, <2>2, <2>3 DEF MissOf, Running, Covered
<1>5. MissOf(x)
  BY DEF MissInv
<1>6. ASSUME stream'[x].at \notin {"past", "open", "progress"} PROVE MissOf(x)'
  BY <1>6 DEF MissOf, Running
<1>7. ASSUME WatchSpansPrefixes(x) \/ StreamCancel(x) \/ StreamDropped(x) PROVE MissOf(x)'
  <2>1. stream'[x].at \in {"refused", "closed"}
    BY <1>1, <1>7, MovedIs DEF WatchSpansPrefixes, StreamCancel, StreamDropped, Places
  <2> QED
    BY <1>6, <2>1
<1>8. ASSUME NEW rev \in 0 .. MaxRev, WatchBegin(x, rev) PROVE MissOf(x)'
  <2>1. stream'[x].at \in {"checked", "refused"}
    BY <1>1, <1>8, BeginIs
  <2> QED
    BY <1>6, <2>1
<1>9. ASSUME WatchRegister(x) PROVE MissOf(x)'
  <2>1. /\ stream'[x].at = "past" /\ stream'[x].rev = stream[x].rev
        /\ stream'[x].left = stream[x].left /\ stream[x].at = "checked"
    BY <1>1, <1>9, MovedIs DEF WatchRegister, Places
  <2>2. stream[x].rev > 0 => stream[x].left = Watched[x]
    BY <2>1 DEF PlacesInv
  <2> QED
    BY <2>1, <2>2 DEF MissOf, Covered
<1>10. ASSUME Running(x), stream'[x].rev = stream[x].rev, stream'[x].start = stream[x].start,
              \A k \in Watched[x] : \A r \in revisions[k] :
                Covered(x, k, r) /\ r >= stream[x].start /\ r > compacted => Covered(x, k, r)'
       PROVE  MissOf(x)'
  BY <1>3, <1>5, <1>10 DEF MissOf
<1>11. ASSUME WatchReadPast(x) PROVE MissOf(x)'
  <2>1. /\ stream'[x].at = "past" /\ stream[x].at = "past"
        /\ stream'[x].rev = stream[x].rev /\ stream'[x].start = stream[x].start
    BY <1>11, ReadPastIs
  <2>2. PICK l \in stream[x].left :
          /\ l \in Keys
          /\ stream'[x].left = stream[x].left \ {l}
          /\ stream'[x].past = stream[x].past \o PastChanges(l, stream[x].start)
    BY <1>11, ReadPastIs
  <2>3. PICK p \in Seq(Nat), n \in Nat : p = stream[x].past /\ n = stream[x].start
    BY <1>1 DEF StreamType, StreamRec
  <2>4. PICK q \in Seq(Nat) : q = PastChanges(l, n)
    BY <2>2, PastChangesIs
  <2>5. \A r \in revisions[l] : r >= n /\ r > compacted => \E i \in 1 .. Len(q) : q[i] = r
    BY <2>2, <2>4, PastChangesIs
  <2>6. PICK t \in Seq(Nat) : t = p \o q
    BY ConcatProperties
  <2>7. PICK a \in Nat, b \in Nat : a = Len(p) /\ b = Len(q)
    OBVIOUS
  <2>8. Len(t) = a + b /\ \A i \in 1 .. a + b : t[i] = IF i <= a THEN p[i] ELSE q[i - a]
    BY <2>6, <2>7, ConcatProperties
  <2>9. stream'[x].past = t
    BY <2>2, <2>3, <2>4, <2>6
  <2>10. ASSUME NEW r, InPast(x, r) PROVE InPast(x, r)'
    <3>1. PICK i \in 1 .. a : p[i] = r
      BY <2>3, <2>7, <2>10 DEF InPast
    <3>2. i \in 1 .. a + b /\ t[i] = r
      BY <2>8, <3>1
    <3> QED
      BY <2>8, <2>9, <3>2 DEF InPast
  <2>11. ASSUME NEW r \in revisions[l], r >= n, r > compacted PROVE InPast(x, r)'
    <3>1. PICK i \in 1 .. b : q[i] = r
      BY <2>5, <2>7, <2>11
    <3>2. a + i \in 1 .. a + b /\ ~(a + i <= a) /\ (a + i) - a = i
      OBVIOUS
    <3>3. t[a + i] = r
      BY <2>8, <3>1, <3>2
    <3> QED
      BY <2>8, <2>9, <3>2, <3>3 DEF InPast
  <2>12. \A r : (Sent(x, r) => Sent(x, r)') /\ (InChannel(x, r) => InChannel(x, r)')
    BY <1>11 DEF WatchReadPast, vars, watcherVars, Sent, IsEvent, InChannel
  <2>13. ASSUME NEW k \in Watched[x], NEW r \in revisions[k], Covered(x, k, r), r >= n, r > compacted
         PROVE  Covered(x, k, r)'
    <3>1. CASE k = l
      BY <2>1, <2>11, <2>13, <3>1 DEF Covered
    <3>2. CASE k # l
      BY <1>2, <2>1, <2>2, <2>10, <2>12, <2>13, <3>2 DEF Covered
    <3> QED
      BY <3>1, <3>2
  <2> QED
    BY <1>10, <2>1, <2>3, <2>13 DEF Running
<1>12. ASSUME StreamOpen(x) PROVE MissOf(x)'
  <2>1. PICK e \in Seq(OutRec) :
          /\ Grew(x, e) /\ Len(e) = Len(stream[x].past)
          /\ \A i \in 1 .. Len(e) : e[i].kind = "past" /\ e[i].rev = stream[x].past[i]
    BY <1>1, <1>12, OpenOut
  <2>2. \A r : Sent(x, r) => Sent(x, r)'
    BY <1>1, <2>1, SentGrows
  <2>3. ASSUME NEW r, InPast(x, r) PROVE Sent(x, r)'
    <3>1. PICK i \in 1 .. Len(e) : stream[x].past[i] = r
      BY <2>1, <2>3 DEF InPast
    <3>2. e[i].kind # "progress" /\ e[i].rev = r
      BY <2>1, <3>1
    <3>3. Sent(x, e[i].rev)'
      BY <1>1, <2>1, <3>2, SentGrows
    <3> QED
      BY <3>2, <3>3
  <2>4. \A r : InChannel(x, r) => InChannel(x, r)'
    BY <1>12 DEF StreamOpen, vars, watcherVars, InChannel
  <2>5. stream[x].at = "past" /\ stream[x].left = {}
    BY <1>12 DEF StreamOpen
  <2>6. stream'[x].rev = stream[x].rev /\ stream'[x].start = stream[x].start
    BY <1>1, <1>12, OpenIs
  <2>7. \A k, r : Covered(x, k, r) => Covered(x, k, r)'
    BY <1>2, <2>2, <2>3, <2>4, <2>5 DEF Covered
  <2> QED
    BY <1>10, <2>5, <2>6, <2>7 DEF Running
<1>13. ASSUME StreamEvents(x) PROVE MissOf(x)'
  <2>1. PICK e \in Seq(OutRec) :
          /\ Grew(x, e) /\ Len(e) = Len(Taken(x))
          /\ \A i \in 1 .. Len(e) : e[i].kind = "event" /\ e[i].rev = Taken(x)[i]
    BY <1>1, <1>13, EventsOut
  <2>2. \A r : Sent(x, r) => Sent(x, r)'
    BY <1>1, <2>1, SentGrows
  <2>3. PICK n \in 1 .. Len(channel[x]) :
          /\ Len(Taken(x)) = n
          /\ \A i \in 1 .. n : Taken(x)[i] = channel[x][i]
          /\ Len(channel'[x]) = Len(channel[x]) - n
          /\ \A i \in 1 .. Len(channel[x]) - n : channel'[x][i] = channel[x][i + n]
    BY <1>1, <1>13, TakenIs DEF StreamEvents
  <2>4. PICK m \in Nat : m = Len(channel[x])
    BY DEF StreamBase, IInv, TypeOK
  <2>5. ASSUME NEW r, InChannel(x, r) PROVE Sent(x, r)' \/ InChannel(x, r)'
    <3>1. PICK i \in 1 .. m : channel[x][i] = r
      BY <2>4, <2>5 DEF InChannel
    <3>2. CASE i <= n
      <4>1. i \in 1 .. Len(e)
        BY <2>1, <2>3, <2>4, <3>1, <3>2
      <4>2. e[i].kind # "progress" /\ e[i].rev = r
        BY <2>1, <2>3, <2>4, <3>1, <3>2, <4>1
      <4>3. Sent(x, e[i].rev)'
        BY <1>1, <2>1, <4>1, <4>2, SentGrows
      <4> QED
        BY <4>2, <4>3
    <3>3. CASE i > n
      <4>1. i - n \in 1 .. m - n /\ (i - n) + n = i
        BY <2>3, <2>4, <3>1, <3>3
      <4>2. channel'[x][i - n] = r
        BY <2>3, <2>4, <3>1, <4>1
      <4> QED
        BY <2>3, <2>4, <4>1, <4>2 DEF InChannel
    <3> QED
      BY <2>3, <2>4, <3>2, <3>3
  <2>6. /\ stream[x].at = "open"
        /\ stream'[x].rev = stream[x].rev /\ stream'[x].start = stream[x].start
    BY <1>1, <1>13, EventsIs
  <2>7. \A k, r : Covered(x, k, r) => Covered(x, k, r)'
    BY <1>2, <2>2, <2>5, <2>6 DEF Covered
  <2> QED
    BY <1>10, <2>6, <2>7 DEF Running
<1>14. ASSUME StreamProgress(x) PROVE MissOf(x)'
  <2>1. PICK e \in Seq(OutRec) : Grew(x, e)
    BY <1>1, <1>14, ProgressOut
  <2>2. \A r : Sent(x, r) => Sent(x, r)'
    BY <1>1, <2>1, SentGrows
  <2>3. /\ stream[x].at = "progress" /\ channel' = channel
        /\ stream'[x].rev = stream[x].rev /\ stream'[x].start = stream[x].start
    BY <1>1, <1>14, MovedIs DEF StreamProgress, Places, vars, watcherVars
  <2>4. \A k, r : Covered(x, k, r) => Covered(x, k, r)'
    BY <1>2, <2>2, <2>3 DEF Covered, InChannel
  <2> QED
    BY <1>10, <2>3, <2>4 DEF Running
<1>15. ASSUME StreamProgressRequest(x) \/ StreamHalfClosed(x) PROVE MissOf(x)'
  <2>1. /\ stream[x].at = "open"
        /\ stream'[x].rev = stream[x].rev /\ stream'[x].start = stream[x].start
    BY <1>1, <1>15, RequestIs
  <2>2. UNCHANGED <<channel, out>>
    BY <1>15 DEF StreamProgressRequest, StreamHalfClosed, vars, watcherVars
  <2>3. \A k, r : Covered(x, k, r) => Covered(x, k, r)'
    BY <1>2, <2>1, <2>2 DEF Covered, InChannel, Sent, IsEvent
  <2> QED
    BY <1>10, <2>1, <2>3 DEF Running
<1>16. MissOf(x)'
  BY <1>7, <1>8, <1>9, <1>11, <1>12, <1>13, <1>14, <1>15 DEF WatchStep, StreamStep, ClientStep
<1> QED
  BY <1>4, <1>16 DEF MissInv

LEMMA NextMiss == StreamBase /\ PlacesInv /\ MissInv /\ [StreamNext]_allVars => MissInv'
<1> SUFFICES ASSUME StreamBase, PlacesInv, MissInv, [StreamNext]_allVars PROVE MissInv'
  OBVIOUS
<1>1. ASSUME UNCHANGED <<vars, stream, out>>, compacted' \in Nat, compacted' >= compacted
      PROVE  MissInv'
  <2>1. /\ revisions' = revisions /\ stream' = stream
        /\ \A x, k, r : Covered(x, k, r) => Covered(x, k, r)'
    BY <1>1 DEF Covered, Sent, IsEvent, InChannel, OnItsWay, InPast, vars, writerVars, threadVars,
                watcherVars
  <2>2. compacted \in Nat /\ \A k \in Keys : revisions[k] \in SUBSET Nat
    BY DEF StreamBase, StreamType, IInv, TypeOK
  <2>3. ASSUME NEW x \in Watchers PROVE MissOf(x)'
    <3>1. \A k \in Watched[x] : \A r \in revisions[k] : r > compacted' => r > compacted
      BY <1>1, <2>2, WatchedAssumption
    <3> QED
      BY <2>1, <3>1 DEF MissInv, MissOf, Running
  <2> QED
    BY <2>3 DEF MissInv
<1>2. ASSUME NEW rev \in 1 .. MaxRev, Compact(rev) PROVE MissInv'
  <2>1. compacted \in Nat /\ compacted' \in Nat /\ compacted' >= compacted
    BY <1>2 DEF StreamBase, StreamType, Compact
  <2> QED
    BY <1>1, <1>2, <2>1 DEF Compact
<1>3. ASSUME UNCHANGED allVars PROVE MissInv'
  <2>1. compacted \in Nat
    BY DEF StreamBase, StreamType
  <2> QED
    BY <1>1, <1>3, <2>1 DEF allVars, streamVars
<1> QED
  BY <1>2, <1>3, ServerMiss, WatchMiss DEF StreamNext

LEMMA AlwaysMiss == StreamSpec => [](StreamBase /\ PlacesInv /\ MissInv)
  BY AlwaysBase, InitPlaces, NextPlaces, InitMiss, NextMiss, PTL DEF StreamSpec

LEMMA MissImplies == MissInv => NoMissedEvent
<1> SUFFICES ASSUME MissInv, NEW x \in Watchers, Live(x), stream[x].rev > 0, NEW r \in Owed(x)
             PROVE  Sent(x, r) \/ InChannel(x, r) \/ OnItsWay(x, r)
  BY DEF NoMissedEvent
<1>1. PICK k \in Watched[x] : r \in revisions[k]
  BY DEF Owed
<1>2. r >= stream[x].start /\ r > compacted
  BY DEF Owed
<1>3. Covered(x, k, r) /\ stream[x].at # "past"
  BY <1>1, <1>2 DEF MissInv, MissOf, Live, Running
<1> QED
  BY <1>3 DEF Covered

(***************************************************************************)
(* No change falls between the past changes and the channel: registering   *)
(* before reading the items, and writing the item before collecting the    *)
(* watchers, is enough for any number of writers, keys and watches.        *)
(***************************************************************************)
THEOREM NothingIsMissed == StreamSpec => []NoMissedEvent
  BY AlwaysMiss, MissImplies, PTL

-------------------------------------------------------------------------------
(***************************************************************************)
(* The order of what a stream has sent.  Everything that it has sent live, *)
(* and the progress that it has reported, is behind the notify thread, or  *)
(* is what the thread is sending and has already enqueued for it.          *)
(***************************************************************************)
Behindhand(x, n) == n <= next_rev /\ (n = next_rev => thread = "send" /\ x \notin job.to)

OutBehind(x) ==
  /\ Behindhand(x, stream[x].max_event_stream_rev)
  /\ \A i \in 1 .. Len(out[x]) : out[x][i].kind # "past" => Behindhand(x, out[x][i].rev)

OutOrdered(x) ==
  \A i \in 1 .. Len(out[x]) : out[x][i].kind = "event" =>
    /\ \A j \in i + 1 .. Len(out[x]) : out[x][j].kind = "event" => out[x][i].rev < out[x][j].rev
    /\ \A j \in 1 .. Len(channel[x]) : out[x][i].rev < channel[x][j]

OrderInv == \A x \in Watchers : OutBehind(x) /\ OutOrdered(x)

LEMMA InitOrder == StreamInit => OrderInv
<1> SUFFICES ASSUME StreamInit, NEW x \in Watchers PROVE OutBehind(x) /\ OutOrdered(x)
  BY DEF OrderInv
<1>1. stream[x].max_event_stream_rev = 0 /\ out[x] = <<>> /\ next_rev = 1
  BY DEF StreamInit, Init, NoStream
<1> QED
  BY <1>1 DEF OutBehind, OutOrdered, Behindhand

(* What is behind the thread stays behind it. *)
LEMMA StaysBehind ==
  ASSUME IInv, NEW x \in Watchers, NEW n \in Nat, Behindhand(x, n),
         (\E w \in Writers : SetStep(w)) \/ ThreadStep
  PROVE  Behindhand(x, n)'
<1>1. next_rev \in Nat
  BY DEF IInv, TypeOK
<1>2. ASSUME UNCHANGED <<next_rev, thread, job>> PROVE Behindhand(x, n)'
  BY <1>2 DEF Behindhand
<1>3. ASSUME NEW w \in Writers, SetStep(w) PROVE Behindhand(x, n)'
  BY <1>2, <1>3 DEF SetStep, Push, Publish, Collect, Send, Acked, threadVars
<1>4. ASSUME Spool PROVE Behindhand(x, n)'
  BY <1>2, <1>4 DEF Spool
<1>5. ASSUME Recv \/ Drain \/ StoreProgress PROVE Behindhand(x, n)'
  BY <1>5 DEF Recv, Drain, StoreProgress, Behindhand
<1>6. ASSUME NEW y \in Watchers, Enqueue(y) \/ SkipClosed(y) PROVE Behindhand(x, n)'
  <2>1. job \in Jobs
    BY <1>6 DEF Enqueue, SkipClosed, IInv, PendingInv, PendingInRange
  <2>2. job'.to = job.to \ {y} /\ UNCHANGED <<next_rev, thread>>
    BY <1>6, <2>1 DEF Enqueue, SkipClosed, Jobs
  <2> QED
    BY <2>2 DEF Behindhand
<1>7. ASSUME SentAll PROVE Behindhand(x, n)'
  BY <1>1, <1>7 DEF SentAll, Behindhand
<1> QED
  BY <1>3, <1>4, <1>5, <1>6, <1>7 DEF ThreadStep

LEMMA ServerOrder ==
  ASSUME StreamBase, OrderInv, UNCHANGED streamVars,
         (\E w \in Writers : SetStep(w)) \/ ThreadStep
  PROVE  OrderInv'
<1> SUFFICES ASSUME NEW x \in Watchers PROVE OutBehind(x)' /\ OutOrdered(x)'
  BY DEF OrderInv
<1>1. /\ IInv /\ stream[x].max_event_stream_rev \in Nat /\ out[x] \in Seq(OutRec)
      /\ channel \in [Watchers -> Seq(Nat)] /\ next_rev \in Nat
  BY DEF StreamBase, StreamType, StreamRec, IInv, TypeOK
<1>2. ASSUME NEW i \in 1 .. Len(out[x]) PROVE out[x][i].rev \in Nat
  <2>1. out[x][i] \in OutRec
    BY <1>1
  <2> QED
    BY <2>1 DEF OutRec
<1>3. OutBehind(x) /\ OutOrdered(x) /\ stream' = stream /\ out' = out
  BY DEF OrderInv, streamVars
<1>4. PICK m \in Nat : m = stream[x].max_event_stream_rev
  BY <1>1
<1>5. Behindhand(x, m)'
  BY <1>1, <1>3, <1>4, StaysBehind DEF OutBehind
<1>6. ASSUME NEW i \in 1 .. Len(out[x]), out[x][i].kind # "past", NEW n, n = out[x][i].rev
      PROVE  Behindhand(x, n)'
  <2>1. n \in Nat /\ Behindhand(x, n)
    BY <1>2, <1>3, <1>6 DEF OutBehind
  <2> QED
    BY <1>1, <2>1, StaysBehind
<1>7. OutBehind(x)'
  BY <1>3, <1>4, <1>5, <1>6 DEF OutBehind, Behindhand
<1>8. ASSUME channel'[x] = channel[x] PROVE OutOrdered(x)'
  BY <1>3, <1>8 DEF OutOrdered
<1>9. ASSUME NEW w \in Writers, SetStep(w) PROVE OutOrdered(x)'
  BY <1>8, <1>9 DEF SetStep, Push, Publish, Collect, Send, Acked, watcherVars
<1>10. ASSUME Spool \/ Recv \/ SentAll \/ Drain \/ StoreProgress PROVE OutOrdered(x)'
  BY <1>8, <1>10 DEF Spool, Recv, SentAll, Drain, StoreProgress, watcherVars
<1>11. ASSUME NEW y \in Watchers, SkipClosed(y) PROVE OutOrdered(x)'
  BY <1>8, <1>11 DEF SkipClosed, watcherVars
<1>12. ASSUME NEW y \in Watchers, Enqueue(y) PROVE OutOrdered(x)'
  <2>1. CASE x # y
    BY <1>1, <1>8, <1>12, <2>1 DEF Enqueue
  <2>2. CASE x = y
    <3>1. PICK c \in Seq(Nat), n \in Nat : c = channel[x] /\ n = Len(c)
      BY <1>1
    <3>2. job.rev = next_rev /\ x \in job.to
      BY <1>1, <1>12, <2>2 DEF Enqueue, IInv, PendingInv, PendingInRange
    <3>3. PICK d : d = Append(c, next_rev)
      OBVIOUS
    <3>4. channel'[x] = d
      BY <1>1, <1>12, <2>2, <3>1, <3>2, <3>3 DEF Enqueue
    <3>5. Len(d) = n + 1 /\ d[n + 1] = next_rev /\ \A i \in 1 .. n : d[i] = c[i]
      BY <1>1, <3>1, <3>3
    <3>6. ASSUME NEW i \in 1 .. Len(out[x]), out[x][i].kind = "event", NEW j \in 1 .. n + 1
          PROVE  out[x][i].rev < d[j]
      <4>1. CASE j = n + 1
        <5>1. PICK q \in Nat : q = out[x][i].rev
          BY <1>2
        <5>2. Behindhand(x, q)
          BY <1>3, <3>6, <5>1 DEF OutBehind
        <5>3. q < next_rev
          BY <1>1, <3>2, <5>2 DEF Behindhand
        <5> QED
          BY <3>5, <4>1, <5>1, <5>3
      <4>2. CASE j # n + 1
        <5>1. j \in 1 .. n
          BY <4>2
        <5> QED
          BY <1>3, <3>1, <3>5, <3>6, <5>1 DEF OutOrdered
      <4> QED
        BY <4>1, <4>2
    <3> QED
      BY <1>3, <3>4, <3>5, <3>6 DEF OutOrdered
  <2> QED
    BY <2>1, <2>2
<1> QED
  BY <1>7, <1>9, <1>10, <1>11, <1>12 DEF ThreadStep

(* Every response of a stream is an old one or one of those it just sent. *)
LEMMA GrewEntries ==
  ASSUME NEW x \in Watchers, NEW e, Grew(x, e), NEW j \in 1 .. Len(out'[x])
  PROVE  \/ j \in 1 .. Len(out[x]) /\ out'[x][j] = out[x][j]
         \/ /\ j - Len(out[x]) \in 1 .. Len(e) /\ out'[x][j] = e[j - Len(out[x])]
            /\ j > Len(out[x])
<1>1. PICK m \in Nat, n \in Nat : m = Len(out[x]) /\ n = Len(e)
  BY DEF Grew
<1>2. j \in 1 .. m + n
  BY <1>1 DEF Grew
<1>3. CASE j <= m
  BY <1>1, <1>2, <1>3 DEF Grew
<1>4. CASE j > m
  <2>1. j - m \in 1 .. n /\ m + (j - m) = j
    BY <1>2, <1>4
  <2> QED
    BY <1>1, <1>4, <2>1 DEF Grew
<1> QED
  BY <1>2, <1>3, <1>4

LEMMA GrewBehind ==
  ASSUME StreamBase, NEW x \in Watchers, OthersKept(x), OutBehind(x), NEW e \in Seq(OutRec), Grew(x, e),
         \A i \in 1 .. Len(e) : e[i].kind # "past" => Behindhand(x, e[i].rev),
         Behindhand(x, stream'[x].max_event_stream_rev)
  PROVE  OutBehind(x)'
<1>1. UNCHANGED <<next_rev, thread, job>>
  BY DEF OthersKept, threadVars
<1>2. ASSUME NEW j \in 1 .. Len(out'[x]), out'[x][j].kind # "past"
      PROVE  Behindhand(x, out'[x][j].rev)
  BY <1>2, GrewEntries DEF OutBehind
<1> QED
  BY <1>1, <1>2 DEF OutBehind, Behindhand

LEMMA WatchOrder ==
  ASSUME StreamBase, OrderInv, NEW x \in Watchers,
         WatchStep(x) \/ StreamStep(x) \/ ClientStep(x)
  PROVE  OrderInv'
<1>1. /\ StreamType /\ IInv /\ OthersKept(x) /\ revision \in Nat /\ next_rev \in Nat
      /\ progress_rev \in Nat /\ channel \in [Watchers -> Seq(Nat)]
  BY WatchKeeps DEF StreamBase, IInv, TypeOK
<1>2. UNCHANGED <<next_rev, thread, job>>
  BY <1>1 DEF OthersKept, threadVars
<1>3. OutBehind(x) /\ OutOrdered(x)
  BY DEF OrderInv
<1>4. ASSUME NEW y \in Watchers, y # x PROVE OutBehind(y)' /\ OutOrdered(y)'
  <2>1. stream'[y] = stream[y] /\ out'[y] = out[y] /\ channel'[y] = channel[y]
    BY <1>1, <1>4 DEF OthersKept
  <2> QED
    BY <1>2, <2>1 DEF OrderInv, OutBehind, OutOrdered, Behindhand
<1>5. ASSUME out' = out, stream'[x].max_event_stream_rev = stream[x].max_event_stream_rev,
             channel'[x] = channel[x] \/ channel'[x] = <<>>
      PROVE  OutBehind(x)' /\ OutOrdered(x)'
  BY <1>2, <1>3, <1>5 DEF OutBehind, OutOrdered, Behindhand
<1>6. ASSUME WatchSpansPrefixes(x) \/ StreamCancel(x) \/ StreamDropped(x) \/ WatchRegister(x)
      PROVE  OutBehind(x)' /\ OutOrdered(x)'
  <2>1. stream'[x].max_event_stream_rev = stream[x].max_event_stream_rev
    BY <1>1, <1>6, MovedIs DEF WatchSpansPrefixes, StreamCancel, StreamDropped, WatchRegister, Places
  <2> QED
    BY <1>1, <1>5, <1>6, <2>1 DEF WatchSpansPrefixes, StreamCancel, StreamDropped, WatchRegister,
                                  Close, Register
<1>7. ASSUME WatchReadPast(x) PROVE OutBehind(x)' /\ OutOrdered(x)'
  BY <1>5, <1>7, ReadPastIs DEF WatchReadPast, vars, watcherVars
<1>8. ASSUME NEW rev \in 0 .. MaxRev, WatchBegin(x, rev) PROVE OutBehind(x)' /\ OutOrdered(x)'
  BY <1>1, <1>5, <1>8, BeginIs DEF WatchBegin, vars, watcherVars
<1>9. ASSUME StreamProgressRequest(x) \/ StreamHalfClosed(x) PROVE OutBehind(x)' /\ OutOrdered(x)'
  BY <1>1, <1>5, <1>9, RequestIs DEF StreamProgressRequest, StreamHalfClosed, vars, watcherVars
<1>10. ASSUME NEW e \in Seq(OutRec), Grew(x, e), \A i \in 1 .. Len(e) : e[i].kind # "event",
              channel'[x] = channel[x]
       PROVE  OutOrdered(x)'
  <2>1. ASSUME NEW i \in 1 .. Len(out'[x]), out'[x][i].kind = "event"
        PROVE  i \in 1 .. Len(out[x]) /\ out'[x][i] = out[x][i]
    BY <1>10, <2>1, GrewEntries
  <2>2. Len(out[x]) \in Nat /\ Len(out'[x]) \in Nat
    BY <1>10 DEF Grew
  <2>3. ASSUME NEW i \in 1 .. Len(out'[x]), out'[x][i].kind = "event",
               NEW j \in i + 1 .. Len(out'[x]), out'[x][j].kind = "event"
        PROVE  out'[x][i].rev < out'[x][j].rev
    <3>1. j \in 1 .. Len(out'[x])
      BY <2>2
    <3>2. j \in i + 1 .. Len(out[x]) /\ i \in 1 .. Len(out[x]) /\ out'[x][i] = out[x][i] /\ out'[x][j] = out[x][j]
      BY <2>1, <2>2, <2>3, <3>1
    <3> QED
      BY <1>3, <2>3, <3>2 DEF OutOrdered
  <2>4. ASSUME NEW i \in 1 .. Len(out'[x]), out'[x][i].kind = "event", NEW j \in 1 .. Len(channel[x])
        PROVE  out'[x][i].rev < channel[x][j]
    BY <1>3, <2>1, <2>4 DEF OutOrdered
  <2> QED
    BY <1>10, <2>3, <2>4 DEF OutOrdered
<1>11. ASSUME StreamOpen(x) PROVE OutBehind(x)' /\ OutOrdered(x)'
  <2>1. PICK e \in Seq(OutRec) : Grew(x, e) /\ \A i \in 1 .. Len(e) : e[i].kind = "past"
    BY <1>1, <1>11, OpenOut
  <2>2. /\ stream'[x].max_event_stream_rev = stream[x].max_event_stream_rev
        /\ channel' = channel
    BY <1>1, <1>11, OpenIs DEF StreamOpen, vars, watcherVars
  <2>3. OutOrdered(x)'
    BY <1>10, <2>1, <2>2
  <2>4. Behindhand(x, stream'[x].max_event_stream_rev)
    BY <1>3, <2>2 DEF OutBehind
  <2>5. OutBehind(x)'
    BY <1>1, <1>3, <2>1, <2>4, GrewBehind
  <2> QED
    BY <2>3, <2>5
<1>12. ASSUME StreamProgress(x) PROVE OutBehind(x)' /\ OutOrdered(x)'
  <2>1. PICK e \in Seq(OutRec) :
          /\ Grew(x, e) /\ Len(e) = 1 /\ e[1].kind = "progress"
          /\ e[1].rev \in {progress_rev, stream[x].max_event_stream_rev}
    BY <1>1, <1>12, ProgressOut
  <2>2. /\ stream'[x].max_event_stream_rev = stream[x].max_event_stream_rev
        /\ channel' = channel
    BY <1>1, <1>12, MovedIs DEF StreamProgress, Places, vars, watcherVars
  <2>3. Behindhand(x, progress_rev)
    BY <1>1 DEF IInv, PendingInv, Behind, Behindhand
  <2>4. Behindhand(x, e[1].rev) /\ Behindhand(x, stream'[x].max_event_stream_rev)
    BY <1>3, <2>1, <2>2, <2>3 DEF OutBehind
  <2>5. \A i \in 1 .. Len(e) : i = 1
    BY <2>1
  <2>6. OutOrdered(x)'
    BY <1>10, <2>1, <2>2, <2>5
  <2>7. OutBehind(x)'
    BY <1>1, <1>3, <2>1, <2>4, <2>5, GrewBehind
  <2> QED
    BY <2>6, <2>7
<1>13. ASSUME StreamEvents(x) PROVE OutBehind(x)' /\ OutOrdered(x)'
  <2>1. PICK e \in Seq(OutRec) :
          /\ Grew(x, e) /\ Len(e) = Len(Taken(x))
          /\ \A i \in 1 .. Len(e) : e[i].kind = "event" /\ e[i].rev = Taken(x)[i]
    BY <1>1, <1>13, EventsOut
  <2>2. PICK n \in 1 .. Len(channel[x]) :
          /\ Len(Taken(x)) = n
          /\ \A i \in 1 .. n : Taken(x)[i] = channel[x][i]
          /\ Len(channel'[x]) = Len(channel[x]) - n
          /\ \A i \in 1 .. Len(channel[x]) - n : channel'[x][i] = channel[x][i + n]
    BY <1>1, <1>13, TakenIs DEF StreamEvents
  <2>3. PICK c \in Seq(Nat), l \in Nat : c = channel[x] /\ l = Len(c)
    BY <1>1
  <2>4. n \in 1 .. l /\ Len(e) = n /\ \A i \in 1 .. n : e[i].kind = "event" /\ e[i].rev = c[i]
    BY <2>1, <2>2, <2>3
  <2>5. \A i, j \in 1 .. l : i < j => c[i] < c[j]
    BY <1>1, <2>3 DEF IInv, ChannelsOrdered
  <2>6. \A i \in 1 .. l : Behindhand(x, c[i])
    BY <1>1, <2>3 DEF IInv, ChannelsBehind, Behindhand
  <2>7. Behindhand(x, stream'[x].max_event_stream_rev)
    <3>1. stream'[x].max_event_stream_rev \in {stream[x].max_event_stream_rev, Taken(x)[Len(Taken(x))]}
      BY <1>1, <1>13, EventsIs
    <3>2. Taken(x)[Len(Taken(x))] = c[n]
      BY <2>2, <2>3, <2>4
    <3> QED
      BY <1>3, <2>4, <2>6, <3>1, <3>2 DEF OutBehind
  <2>8. \A i \in 1 .. Len(e) : Behindhand(x, e[i].rev)
    BY <2>4, <2>6
  <2>9. OutBehind(x)'
    BY <1>1, <1>3, <2>1, <2>7, <2>8, GrewBehind
  <2>10. PICK m \in Nat : m = Len(out[x]) /\ Len(out'[x]) = m + n
    BY <2>1, <2>4 DEF Grew
  <2>11. \A j \in 1 .. m + n : \/ j \in 1 .. m /\ out'[x][j] = out[x][j]
                               \/ j - m \in 1 .. n /\ j > m /\ out'[x][j] = e[j - m]
    BY <2>1, <2>4, <2>10, GrewEntries
  <2>12. ASSUME NEW i \in 1 .. m + n, out'[x][i].kind = "event",
                NEW j \in i + 1 .. m + n, out'[x][j].kind = "event"
         PROVE  out'[x][i].rev < out'[x][j].rev
    <3>1. j \in 1 .. m + n /\ i < j
      OBVIOUS
    <3>2. CASE j \in 1 .. m /\ out'[x][j] = out[x][j]
      <4>1. i \in 1 .. m /\ ~(i > m) /\ j \in i + 1 .. m
        BY <3>1, <3>2
      <4>2. out'[x][i] = out[x][i]
        BY <2>11, <4>1
      <4> QED
        BY <1>3, <2>10, <2>12, <3>2, <4>1, <4>2 DEF OutOrdered
    <3>3. CASE j - m \in 1 .. n /\ j > m /\ out'[x][j] = e[j - m]
      <4>1. out'[x][j].rev = c[j - m] /\ j - m \in 1 .. l
        BY <2>4, <3>3
      <4>2. CASE i \in 1 .. m /\ out'[x][i] = out[x][i]
        BY <1>3, <2>3, <2>10, <2>12, <4>1, <4>2 DEF OutOrdered
      <4>3. CASE i - m \in 1 .. n /\ i > m /\ out'[x][i] = e[i - m]
        <5>1. out'[x][i].rev = c[i - m] /\ i - m \in 1 .. l /\ i - m < j - m
          BY <2>4, <3>1, <4>3
        <5> QED
          BY <2>5, <4>1, <5>1
      <4> QED
        BY <2>11, <4>2, <4>3
    <3> QED
      BY <2>11, <3>1, <3>2, <3>3
  <2>13. ASSUME NEW i \in 1 .. m + n, out'[x][i].kind = "event", NEW j \in 1 .. l - n
         PROVE  out'[x][i].rev < channel'[x][j]
    <3>1. channel'[x][j] = c[j + n] /\ j + n \in 1 .. l
      BY <2>2, <2>3, <2>4, SMTT(30)
    <3>2. CASE i \in 1 .. m /\ out'[x][i] = out[x][i]
      BY <1>3, <2>3, <2>10, <2>13, <3>1, <3>2 DEF OutOrdered
    <3>3. CASE i - m \in 1 .. n /\ i > m /\ out'[x][i] = e[i - m]
      <4>1. out'[x][i].rev = c[i - m] /\ i - m \in 1 .. l /\ i - m < j + n
        BY <2>4, <3>3
      <4> QED
        BY <2>5, <3>1, <4>1
    <3> QED
      BY <2>11, <3>2, <3>3
  <2>14. Len(channel'[x]) = l - n
    BY <2>2, <2>3
  <2>15. OutOrdered(x)'
    BY <2>10, <2>12, <2>13, <2>14 DEF OutOrdered
  <2> QED
    BY <2>9, <2>15
<1>14. OutBehind(x)' /\ OutOrdered(x)'
  BY <1>6, <1>7, <1>8, <1>9, <1>11, <1>12, <1>13 DEF WatchStep, StreamStep, ClientStep
<1> QED
  BY <1>4, <1>14 DEF OrderInv

LEMMA NextOrder == StreamBase /\ OrderInv /\ [StreamNext]_allVars => OrderInv'
<1> SUFFICES ASSUME StreamBase, OrderInv, [StreamNext]_allVars PROVE OrderInv'
  OBVIOUS
<1>1. ASSUME UNCHANGED <<vars, stream, out>> PROVE OrderInv'
  BY <1>1 DEF OrderInv, OutBehind, OutOrdered, Behindhand, vars, threadVars, watcherVars
<1>2. ASSUME NEW rev \in 1 .. MaxRev, Compact(rev) PROVE OrderInv'
  BY <1>1, <1>2 DEF Compact
<1>3. ASSUME UNCHANGED allVars PROVE OrderInv'
  BY <1>1, <1>3 DEF allVars, streamVars
<1> QED
  BY <1>2, <1>3, ServerOrder, WatchOrder DEF StreamNext

LEMMA AlwaysOrder == StreamSpec => [](StreamBase /\ OrderInv)
  BY AlwaysBase, InitOrder, NextOrder, PTL DEF StreamSpec

(***************************************************************************)
(* The live events of every stream come in revision order and once, from   *)
(* the first one sent to the last in the channel, for every channel size   *)
(* and every limit of recv_many.                                           *)
(***************************************************************************)
THEOREM EventsStayOrdered == StreamSpec => []LiveEventsOrdered
<1>1. StreamBase /\ OrderInv => LiveEventsOrdered
  BY DEF StreamBase, IInv, OrderInv, OutOrdered, LiveEventsOrdered
<1> QED
  BY <1>1, AlwaysOrder, PTL

(***************************************************************************)
(* What is still on its way is ahead of everything that is behind: the     *)
(* revision being sent is nowhere but with the thread, and the thread has  *)
(* enqueued it for every watch that is behind it.                          *)
(***************************************************************************)
LEMMA WayIsAhead ==
  ASSUME IInv, NEW x \in Watchers, NEW n \in Nat, Behindhand(x, n),
         NEW r \in Nat, r <= n, OnItsWay(x, r)
  PROVE  FALSE
<1>1. next_rev \in Nat /\ PendingInRange /\ SendingOnce
  BY DEF IInv, TypeOK, PendingInv
<1>2. r <= next_rev /\ (r = next_rev => thread = "send" /\ x \notin job.to)
  BY <1>1 DEF Behindhand
<1>3. ASSUME WithWriter(x, r) PROVE FALSE
  <2>1. PICK w \in Writers : call[w].job.rev = r /\ Holding(w)
    BY <1>3 DEF WithWriter, Holding
  <2> QED
    BY <1>1, <1>2, <2>1 DEF PendingInRange, SendingOnce
<1>4. ASSUME Queued(x, r) PROVE FALSE
  BY <1>1, <1>2, <1>4 DEF Queued, PendingInRange, SendingOnce
<1>5. ASSUME Spooled(x, r) PROVE FALSE
  BY <1>1, <1>2, <1>5 DEF Spooled, PendingInRange, SendingOnce
<1>6. ASSUME Sending(x, r) PROVE FALSE
  BY <1>1, <1>2, <1>6 DEF Sending, PendingInRange
<1> QED
  BY <1>3, <1>4, <1>5, <1>6, WaysAre

(***************************************************************************)
(* A progress response covers its revision, although the revision is       *)
(* loaded after the channel was polled and while the thread and the        *)
(* writers go on: every stored change up to it that the watch has to       *)
(* deliver has been sent or is in the stream's channel.                    *)
(***************************************************************************)
THEOREM ProgressIsCovered == StreamSpec => []ProgressCovers
<1>1. StreamBase /\ OrderInv /\ NoMissedEvent => ProgressCovers
  <2> SUFFICES ASSUME StreamBase, OrderInv, NoMissedEvent,
                      NEW x \in Watchers, Live(x), stream[x].rev > 0,
                      NEW i \in 1 .. Len(out[x]), out[x][i].kind = "progress",
                      NEW r \in Owed(x), r <= out[x][i].rev
               PROVE  Sent(x, r) \/ InChannel(x, r)
    BY DEF ProgressCovers
  <2>1. Sent(x, r) \/ InChannel(x, r) \/ OnItsWay(x, r)
    BY DEF NoMissedEvent
  <2>2. PICK n \in Nat : n = out[x][i].rev
    <3>1. out[x] \in Seq(OutRec)
      BY DEF StreamBase, StreamType
    <3>2. out[x][i] \in OutRec
      BY <3>1
    <3> QED
      BY <3>2 DEF OutRec
  <2>3. Behindhand(x, n)
    BY <2>2 DEF OrderInv, OutBehind
  <2>4. r \in Nat
    <3>1. PICK k \in Watched[x] : r \in revisions[k]
      BY DEF Owed
    <3> QED
      BY <3>1, WatchedAssumption DEF StreamBase, IInv, TypeOK
  <2>5. ~OnItsWay(x, r)
    BY <2>2, <2>3, <2>4, WayIsAhead DEF StreamBase
  <2> QED
    BY <2>1, <2>5
<1> QED
  BY <1>1, AlwaysOrder, NothingIsMissed, PTL

===============================================================================
