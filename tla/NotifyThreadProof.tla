--------------------------- MODULE NotifyThreadProof ---------------------------
(***************************************************************************)
(* Proofs about NotifyThread: for any writers, keys, watchers and channel  *)
(* sizes, the thread publishes sound progress, keeps every channel and the *)
(* WAL in revision order and never waits for a revision nobody will send.  *)
(***************************************************************************)
EXTENDS NotifyThread, SequenceTheorems, TLAPS

(***************************************************************************)
(* The inductive invariant.  A revision that has been assigned and not yet *)
(* sent is in exactly one place: with a writer, in the queue, in the spool *)
(* or with the thread.                                                     *)
(***************************************************************************)
(* Nothing that is pending is below next_rev or above the newest revision. *)
PendingInRange ==
  /\ \A w \in Writers : Holding(w) => call[w].job \in Jobs /\ call[w].job.rev \in next_rev .. revision
  /\ \A i \in 1 .. Len(queue) : queue[i].rev \in next_rev .. revision
  /\ \A j \in spool : j.rev \in next_rev .. revision
  /\ thread = "send" => job \in Jobs /\ job.rev = next_rev /\ next_rev <= revision

(* Two places never hold the same revision. *)
OnePlace ==
  /\ \A v, w \in Writers : v # w /\ Holding(v) /\ Holding(w) => call[v].job.rev # call[w].job.rev
  /\ \A i, k \in 1 .. Len(queue) : i # k => queue[i].rev # queue[k].rev
  /\ \A i, j \in spool : i # j => i.rev # j.rev
  /\ \A w \in Writers, i \in 1 .. Len(queue) : Holding(w) => call[w].job.rev # queue[i].rev
  /\ \A w \in Writers, j \in spool : Holding(w) => call[w].job.rev # j.rev
  /\ \A i \in 1 .. Len(queue), j \in spool : queue[i].rev # j.rev

(* What the thread is sending is nowhere else. *)
SendingOnce ==
  thread = "send" =>
    /\ \A w \in Writers : Holding(w) => call[w].job.rev # next_rev
    /\ \A i \in 1 .. Len(queue) : queue[i].rev # next_rev
    /\ \A j \in spool : j.rev # next_rev

(* progress_rev and the WAL follow next_rev. *)
Behind ==
  /\ progress_rev < next_rev
  /\ appended = IF thread = "send" THEN next_rev ELSE next_rev - 1

PendingInv ==
  /\ PendingInRange
  /\ OnePlace
  /\ SendingOnce
  /\ Behind
  /\ AwaitedIsComing

(* A channel holds older revisions, or the one being sent once it is enqueued. *)
ChannelsBehind ==
  \A x \in Watchers : \A i \in 1 .. Len(channel[x]) :
    /\ channel[x][i] <= next_rev
    /\ channel[x][i] = next_rev => thread = "send" /\ x \notin job.to

IInv ==
  /\ TypeOK
  /\ PendingInv
  /\ ChannelsBehind
  /\ ChannelsOrdered

-------------------------------------------------------------------------------
LEMMA InitIInv == Init => IInv
<1> SUFFICES ASSUME Init PROVE IInv
  OBVIOUS
<1> USE DEF Init
<1>1. Idle \in [at : {"idle", "pushed", "stored", "collected", "waiting"}, job : Jobs \union {NoJob}]
  BY DEF Idle
<1>2. \A w \in Writers : ~Holding(w)
  BY DEF Holding, Idle
<1>3. TypeOK
  BY <1>1 DEF TypeOK
<1>4. PendingInv
  BY <1>2 DEF PendingInv, PendingInRange, OnePlace, SendingOnce, Behind, AwaitedIsComing
<1>5. ChannelsBehind /\ ChannelsOrdered
  BY DEF ChannelsBehind, ChannelsOrdered
<1> QED
  BY <1>3, <1>4, <1>5 DEF IInv

(***************************************************************************)
(* Steps that leave every revision where it is.                            *)
(***************************************************************************)
LEMMA SamePlaces ==
  ASSUME PendingInv, UNCHANGED <<revision, queue, spool, next_rev, appended>>,
         thread' = thread, job'.rev = job.rev,
         thread = "send" => job' \in Jobs,
         progress_rev' = progress_rev,
         \A w \in Writers : /\ Holding(w)' <=> Holding(w)
                            /\ Holding(w) => call'[w].job \in Jobs /\ call'[w].job.rev = call[w].job.rev
  PROVE  PendingInv'
<1>1. PendingInRange'
  BY DEF PendingInv, PendingInRange
<1>2. OnePlace' /\ SendingOnce'
  BY DEF PendingInv, OnePlace, SendingOnce
<1>3. Behind'
  BY DEF PendingInv, Behind
<1>4. AwaitedIsComing'
  BY DEF PendingInv, AwaitedIsComing
<1> QED
  BY <1>1, <1>2, <1>3, <1>4 DEF PendingInv

(* Steps that leave the channels alone and send nothing. *)
LEMMA SameChannels ==
  ASSUME ChannelsBehind, ChannelsOrdered, UNCHANGED <<channel, thread, job, next_rev>>
  PROVE  ChannelsBehind' /\ ChannelsOrdered'
  BY DEF ChannelsBehind, ChannelsOrdered

(* The record of a call. *)
CallType == [at : {"idle", "pushed", "stored", "collected", "waiting"}, job : Jobs \union {NoJob}]

LEMMA PushIInv ==
  ASSUME IInv, NEW w \in Writers, NEW k \in Keys, Push(w, k)
  PROVE  IInv'
<1> DEFINE j == [rev |-> revision + 1, key |-> k, to |-> {}]
<1>1. call \in [Writers -> CallType] /\ revision \in Nat /\ next_rev \in 1 .. revision + 1
  BY DEF IInv, TypeOK, CallType
<1>2. j \in Jobs /\ j.rev = revision + 1
  BY <1>1 DEF Jobs
<1> HIDE DEF j
<1>3. /\ call' = [call EXCEPT ![w] = [at |-> "pushed", job |-> j]]
      /\ revision' = revision + 1
      /\ ~Holding(w)
      /\ UNCHANGED <<revisions, queue, threadVars, watcherVars>>
  BY DEF Push, Holding, j
<1>4. /\ call'[w].job = j /\ Holding(w)'
      /\ \A v \in Writers : v # w => call'[v] = call[v] /\ (Holding(v)' <=> Holding(v))
  BY <1>1, <1>3 DEF Holding
<1>5. TypeOK'
  BY <1>1, <1>2, <1>3 DEF IInv, TypeOK, CallType, threadVars, watcherVars
<1>6. PendingInRange'
  BY <1>1, <1>2, <1>3, <1>4 DEF IInv, PendingInv, PendingInRange, threadVars
<1>7. OnePlace'
  BY <1>1, <1>2, <1>3, <1>4 DEF IInv, PendingInv, PendingInRange, OnePlace, threadVars
<1>8. SendingOnce' /\ Behind'
  BY <1>1, <1>2, <1>3, <1>4 DEF IInv, PendingInv, PendingInRange, SendingOnce, Behind, threadVars
<1>9. AwaitedIsComing'
  <2> SUFFICES ASSUME NEW r \in next_rev' .. revision'
               PROVE  \/ \E v \in Writers : Holding(v)' /\ call'[v].job.rev = r
                      \/ \E i \in 1 .. Len(queue') : queue'[i].rev = r
                      \/ \E i \in spool' : i.rev = r
                      \/ thread' = "send" /\ job'.rev = r
    BY DEF AwaitedIsComing
  <2>1. CASE r = revision + 1
    BY <1>2, <1>4, <2>1
  <2>2. CASE r # revision + 1
    <3>1. r \in next_rev .. revision
      BY <1>1, <1>3, <2>2 DEF threadVars
    <3> QED
      BY <1>3, <1>4, <3>1 DEF IInv, PendingInv, AwaitedIsComing, threadVars
  <2> QED
    BY <2>1, <2>2
<1>10. ChannelsBehind' /\ ChannelsOrdered'
  BY <1>3, SameChannels DEF IInv, threadVars, watcherVars
<1> QED
  BY <1>5, <1>6, <1>7, <1>8, <1>9, <1>10 DEF IInv, PendingInv

(* A writer goes on with the revision it holds: Publish and Collect. *)
LEMMA HoldingIInv ==
  ASSUME IInv, NEW w \in Writers, Publish(w) \/ Collect(w)
  PROVE  IInv'
<1>1. call \in [Writers -> CallType] /\ Holding(w) /\ call[w].job \in Jobs
  BY DEF IInv, TypeOK, CallType, PendingInv, PendingInRange, Holding, Publish, Collect
<1>2. /\ UNCHANGED <<revision, queue, threadVars, watcherVars>>
      /\ \A v \in Writers : v # w => call'[v] = call[v]
  BY <1>1 DEF Publish, Collect
<1>3. /\ call' \in [Writers -> CallType]
      /\ call'[w].at \in {"stored", "collected"}
      /\ call'[w].job \in Jobs
      /\ call'[w].job.rev = call[w].job.rev
  <2>1. CASE Publish(w)
    BY <1>1, <2>1 DEF Publish, CallType
  <2>2. CASE Collect(w)
    <3> DEFINE j == [call[w].job EXCEPT !.to = Interested(call[w].job.key, call[w].job.rev)]
    <3>1. Interested(call[w].job.key, call[w].job.rev) \subseteq Watchers
      BY DEF Interested
    <3>2. j \in Jobs /\ j.rev = call[w].job.rev
      BY <1>1, <3>1 DEF Jobs
    <3> HIDE DEF j
    <3>3. call' = [call EXCEPT ![w].at = "collected", ![w].job = j]
      BY <2>2 DEF Collect, j
    <3>4. call'[w].at = "collected" /\ call'[w].job = j
      BY <1>1, <3>3 DEF CallType
    <3>5. call' \in [Writers -> CallType]
      BY <1>1, <3>2, <3>3, ZenonT(40) DEF CallType
    <3> QED
      BY <3>2, <3>4, <3>5
  <2> QED
    BY <2>1, <2>2
<1>4. revisions' \in [Keys -> SUBSET Nat]
  <2>1. call[w].job.rev \in Nat /\ revisions \in [Keys -> SUBSET Nat]
    BY <1>1 DEF Jobs, IInv, TypeOK
  <2> QED
    BY <2>1 DEF Publish, Collect
<1>5. TypeOK'
  BY <1>2, <1>3, <1>4 DEF IInv, TypeOK, CallType, threadVars, watcherVars
<1>6. \A v \in Writers : /\ Holding(v)' <=> Holding(v)
                         /\ Holding(v) => call'[v].job \in Jobs /\ call'[v].job.rev = call[v].job.rev
  BY <1>1, <1>2, <1>3 DEF Holding, IInv, PendingInv, PendingInRange
<1>7. PendingInv'
  <2>1. thread = "send" => job \in Jobs
    BY DEF IInv, PendingInv, PendingInRange
  <2> QED
    BY <1>2, <1>6, <2>1, SamePlaces DEF IInv, threadVars
<1>8. ChannelsBehind' /\ ChannelsOrdered'
  BY <1>2, SameChannels DEF IInv, threadVars, watcherVars
<1> QED
  BY <1>5, <1>7, <1>8 DEF IInv

LEMMA AckedIInv ==
  ASSUME IInv, NEW w \in Writers, Acked(w)
  PROVE  IInv'
<1>1. call \in [Writers -> CallType] /\ ~Holding(w) /\ Idle \in CallType
  BY DEF IInv, TypeOK, CallType, Holding, Acked, Idle
<1>2. /\ UNCHANGED <<revision, revisions, queue, threadVars, watcherVars>>
      /\ \A v \in Writers : v # w => call'[v] = call[v]
      /\ call' \in [Writers -> CallType]
      /\ call'[w] = Idle
  BY <1>1 DEF Acked
<1>3. TypeOK'
  BY <1>2 DEF IInv, TypeOK, CallType, threadVars, watcherVars
<1>4. \A v \in Writers : /\ Holding(v)' <=> Holding(v)
                         /\ Holding(v) => call'[v].job \in Jobs /\ call'[v].job.rev = call[v].job.rev
  BY <1>1, <1>2 DEF Holding, Idle, IInv, PendingInv, PendingInRange
<1>5. PendingInv'
  <2>1. thread = "send" => job \in Jobs
    BY DEF IInv, PendingInv, PendingInRange
  <2> QED
    BY <1>2, <1>4, <2>1, SamePlaces DEF IInv, threadVars
<1>6. ChannelsBehind' /\ ChannelsOrdered'
  BY <1>2, SameChannels DEF IInv, threadVars, watcherVars
<1> QED
  BY <1>3, <1>5, <1>6 DEF IInv

LEMMA SendIInv ==
  ASSUME IInv, NEW w \in Writers, Send(w)
  PROVE  IInv'
<1> DEFINE j == call[w].job
           n == Len(queue)
<1>1. call \in [Writers -> CallType] /\ Holding(w) /\ j \in Jobs /\ queue \in Seq(Jobs) /\ n \in Nat
  BY DEF IInv, TypeOK, CallType, PendingInv, PendingInRange, Holding, Send
<1>2. /\ UNCHANGED <<revision, revisions, threadVars, watcherVars>>
      /\ \A v \in Writers : v # w => call'[v] = call[v] /\ (Holding(v)' <=> Holding(v))
      /\ queue' = Append(queue, j)
  BY <1>1 DEF Send, Holding
<1>3. call' \in [Writers -> CallType] /\ ~Holding(w)'
  <2>1. Idle \in CallType /\ Idle.at = "idle"
    BY DEF Idle, CallType
  <2>2. [call[w] EXCEPT !.at = "waiting"] \in CallType /\ [call[w] EXCEPT !.at = "waiting"].at = "waiting"
    BY <1>1 DEF CallType
  <2>3. CASE Sync
    BY <1>1, <2>2, <2>3 DEF Send, Holding
  <2>4. CASE ~Sync
    BY <1>1, <2>1, <2>4 DEF Send, Holding
  <2> QED
    BY <2>3, <2>4
<1>4. /\ queue' \in Seq(Jobs) /\ Len(queue') = n + 1
      /\ \A i \in 1 .. n : queue'[i] = queue[i]
      /\ queue'[n + 1] = j
  BY <1>1, <1>2
<1>5. TypeOK'
  BY <1>2, <1>3, <1>4 DEF IInv, TypeOK, CallType, threadVars, watcherVars
<1> HIDE DEF n, j
<1>6. j.rev = call[w].job.rev /\ n = Len(queue)
  BY DEF j, n
<1>7. PendingInRange'
  BY <1>1, <1>2, <1>3, <1>4, <1>6 DEF IInv, PendingInv, PendingInRange, threadVars
<1>8. OnePlace'
  <2>1. \A v \in Writers : Holding(v)' => v # w /\ Holding(v) /\ call'[v].job.rev = call[v].job.rev
    BY <1>2, <1>3
  <2>2. ASSUME NEW i \in 1 .. Len(queue')
        PROVE  \/ i \in 1 .. n /\ queue'[i].rev = queue[i].rev
               \/ i = n + 1 /\ queue'[i].rev = j.rev
    <3>1. i \in 1 .. n \/ i = n + 1
      BY <1>1, <1>4
    <3> QED
      BY <1>4, <3>1
  <2>3. spool' = spool
    BY <1>2 DEF threadVars
  <2> USE DEF IInv, PendingInv, OnePlace
  <2>4. \A u, v \in Writers : u # v /\ Holding(u)' /\ Holding(v)' => call'[u].job.rev # call'[v].job.rev
    BY <2>1
  <2>5. \A i, k \in 1 .. Len(queue') : i # k => queue'[i].rev # queue'[k].rev
    BY <1>1, <1>6, <2>2
  <2>6. \A u \in Writers, i \in 1 .. Len(queue') : Holding(u)' => call'[u].job.rev # queue'[i].rev
    BY <1>1, <1>6, <2>1, <2>2
  <2>7. \A u \in Writers, k \in spool' : Holding(u)' => call'[u].job.rev # k.rev
    BY <2>1, <2>3
  <2>8. \A i \in 1 .. Len(queue'), k \in spool' : queue'[i].rev # k.rev
    BY <1>1, <1>6, <2>2, <2>3
  <2> QED
    BY <2>3, <2>4, <2>5, <2>6, <2>7, <2>8
<1>9. SendingOnce' /\ Behind'
  BY <1>1, <1>2, <1>3, <1>4, <1>6 DEF IInv, PendingInv, SendingOnce, Behind, threadVars
<1>10. AwaitedIsComing'
  <2> SUFFICES ASSUME NEW r \in next_rev .. revision
               PROVE  \/ \E v \in Writers : Holding(v)' /\ call'[v].job.rev = r
                      \/ \E i \in 1 .. Len(queue') : queue'[i].rev = r
                      \/ \E i \in spool' : i.rev = r
                      \/ thread' = "send" /\ job'.rev = r
    BY <1>2 DEF AwaitedIsComing, threadVars
  <2>1. CASE r = j.rev
    <3>1. n + 1 \in 1 .. Len(queue') /\ queue'[n + 1].rev = r
      BY <1>1, <1>4, <2>1
    <3> QED
      BY <3>1
  <2>2. CASE r # j.rev
    <3>1. \A i \in 1 .. n : i \in 1 .. Len(queue') /\ queue'[i] = queue[i]
      BY <1>1, <1>4
    <3> QED
      BY <1>2, <1>6, <2>2, <3>1 DEF IInv, PendingInv, AwaitedIsComing, threadVars
  <2> QED
    BY <2>1, <2>2
<1>11. ChannelsBehind' /\ ChannelsOrdered'
  BY <1>2, SameChannels DEF IInv, threadVars, watcherVars
<1> QED
  BY <1>5, <1>7, <1>8, <1>9, <1>10, <1>11 DEF IInv, PendingInv

-------------------------------------------------------------------------------
(* The queue without its head. *)
LEMMA TailOfQueue ==
  ASSUME NEW S, NEW q \in Seq(S), q # <<>>
  PROVE  /\ Head(q) = q[1] /\ Len(q) >= 1 /\ Head(q) \in S
         /\ Tail(q) \in Seq(S) /\ Len(Tail(q)) = Len(q) - 1
         /\ \A i \in 1 .. Len(Tail(q)) : i + 1 \in 2 .. Len(q) /\ Tail(q)[i] = q[i + 1]
  OBVIOUS

LEMMA SpoolIInv ==
  ASSUME IInv, Spool
  PROVE  IInv'
<1> DEFINE j == Head(queue)
<1>1. /\ j = queue[1] /\ Len(queue) >= 1 /\ j \in Jobs /\ Len(queue) \in Nat
      /\ queue' \in Seq(Jobs) /\ Len(queue') = Len(queue) - 1
      /\ \A i \in 1 .. Len(queue') : i + 1 \in 2 .. Len(queue) /\ queue'[i] = queue[i + 1]
  BY TailOfQueue DEF IInv, TypeOK, Spool
<1> HIDE DEF j
<1>2. /\ UNCHANGED <<writerVars, thread, job, next_rev, progress_rev, appended, watcherVars>>
      /\ spool' = spool \union {j}
      /\ thread = "recv"
  BY DEF Spool, j
<1>3. TypeOK'
  BY <1>1, <1>2 DEF IInv, TypeOK, writerVars, watcherVars
<1>4. \A v \in Writers : call'[v] = call[v] /\ (Holding(v)' <=> Holding(v))
  BY <1>2 DEF Holding, writerVars
<1>5. \A i \in 1 .. Len(queue') : i + 1 \in 1 .. Len(queue) /\ i + 1 # 1 /\ queue'[i].rev = queue[i + 1].rev
  BY <1>1
<1>6. 1 \in 1 .. Len(queue) /\ queue[1].rev = j.rev
  BY <1>1
<1>7. PendingInRange'
  BY <1>2, <1>4, <1>5, <1>6 DEF IInv, PendingInv, PendingInRange, writerVars
<1>8. OnePlace'
  <2>1. \A i, k \in 1 .. Len(queue') : i # k => i + 1 # k + 1
    OBVIOUS
  <2>2. \A i \in spool' : i \in spool \/ (i = j /\ i.rev = queue[1].rev)
    <3>1. \A i \in spool' : i \in spool \/ i = j
      BY <1>2
    <3> QED
      BY <1>6, <3>1
  <2> USE DEF IInv, PendingInv, OnePlace
  <2>3. \A v, w \in Writers : v # w /\ Holding(v)' /\ Holding(w)' => call'[v].job.rev # call'[w].job.rev
    BY <1>4
  <2>4. \A i, k \in 1 .. Len(queue') : i # k => queue'[i].rev # queue'[k].rev
    BY <1>5, <2>1
  <2>5. \A i, k \in spool' : i # k => i.rev # k.rev
    BY <1>6, <2>2
  <2>6. \A w \in Writers, i \in 1 .. Len(queue') : Holding(w)' => call'[w].job.rev # queue'[i].rev
    BY <1>4, <1>5
  <2>7. \A w \in Writers, k \in spool' : Holding(w)' => call'[w].job.rev # k.rev
    BY <1>4, <1>6, <2>2
  <2>8. \A i \in 1 .. Len(queue'), k \in spool' : queue'[i].rev # k.rev
    BY <1>5, <1>6, <2>2
  <2> QED
    BY <2>3, <2>4, <2>5, <2>6, <2>7, <2>8
<1>9. SendingOnce' /\ Behind'
  BY <1>2 DEF IInv, PendingInv, SendingOnce, Behind, writerVars
<1>10. AwaitedIsComing'
  <2> SUFFICES ASSUME NEW r \in next_rev .. revision
               PROVE  \/ \E v \in Writers : Holding(v)' /\ call'[v].job.rev = r
                      \/ \E i \in 1 .. Len(queue') : queue'[i].rev = r
                      \/ \E i \in spool' : i.rev = r
                      \/ thread' = "send" /\ job'.rev = r
    BY <1>2 DEF AwaitedIsComing, writerVars
  <2>1. ASSUME NEW i \in 1 .. Len(queue), queue[i].rev = r
        PROVE  \/ \E k \in 1 .. Len(queue') : queue'[k].rev = r
               \/ \E k \in spool' : k.rev = r
    <3>1. CASE i = 1
      BY <1>2, <1>6, <2>1, <3>1
    <3>2. CASE i # 1
      <4>1. i - 1 \in 1 .. Len(queue') /\ (i - 1) + 1 = i
        BY <1>1, <3>2
      <4> QED
        BY <1>5, <2>1, <4>1
    <3> QED
      BY <3>1, <3>2
  <2> QED
    BY <1>2, <1>4, <2>1 DEF IInv, PendingInv, AwaitedIsComing
<1>11. ChannelsBehind' /\ ChannelsOrdered'
  BY <1>2, SameChannels DEF IInv, watcherVars
<1> QED
  BY <1>3, <1>7, <1>8, <1>9, <1>10, <1>11 DEF IInv, PendingInv

LEMMA RecvIInv ==
  ASSUME IInv, Recv
  PROVE  IInv'
<1> DEFINE j == Head(queue)
<1>1. /\ j = queue[1] /\ Len(queue) >= 1 /\ j \in Jobs /\ Len(queue) \in Nat
      /\ queue' \in Seq(Jobs) /\ Len(queue') = Len(queue) - 1
      /\ \A i \in 1 .. Len(queue') : i + 1 \in 2 .. Len(queue) /\ queue'[i] = queue[i + 1]
  BY TailOfQueue DEF IInv, TypeOK, Recv
<1> HIDE DEF j
<1>2. /\ UNCHANGED <<writerVars, spool, next_rev, progress_rev, watcherVars>>
      /\ thread = "recv" /\ thread' = "send" /\ job' = j /\ appended' = j.rev /\ j.rev <= next_rev
  BY DEF Recv, StartSend, j
<1>3. 1 \in 1 .. Len(queue) /\ queue[1].rev = j.rev
  BY <1>1
<1>4. j.rev = next_rev /\ next_rev <= revision /\ next_rev \in Nat
  <2>1. j.rev \in next_rev .. revision
    BY <1>3 DEF IInv, PendingInv, PendingInRange
  <2> QED
    BY <1>2, <2>1 DEF IInv, TypeOK
<1>5. TypeOK'
  BY <1>1, <1>2, <1>4 DEF IInv, TypeOK, writerVars, watcherVars
<1>6. \A v \in Writers : call'[v] = call[v] /\ (Holding(v)' <=> Holding(v))
  BY <1>2 DEF Holding, writerVars
<1>7. \A i \in 1 .. Len(queue') : i + 1 \in 1 .. Len(queue) /\ i + 1 # 1 /\ queue'[i].rev = queue[i + 1].rev
  BY <1>1
<1>8. PendingInRange'
  BY <1>1, <1>2, <1>4, <1>6, <1>7 DEF IInv, PendingInv, PendingInRange, writerVars
<1>9. OnePlace'
  <2>1. \A i, k \in 1 .. Len(queue') : i # k => i + 1 # k + 1
    OBVIOUS
  <2> QED
    BY <1>2, <1>6, <1>7, <2>1 DEF IInv, PendingInv, OnePlace
<1>10. SendingOnce' /\ Behind'
  BY <1>2, <1>3, <1>4, <1>6, <1>7 DEF IInv, PendingInv, OnePlace, SendingOnce, Behind
<1>11. AwaitedIsComing'
  <2> SUFFICES ASSUME NEW r \in next_rev .. revision
               PROVE  \/ \E v \in Writers : Holding(v)' /\ call'[v].job.rev = r
                      \/ \E i \in 1 .. Len(queue') : queue'[i].rev = r
                      \/ \E i \in spool' : i.rev = r
                      \/ thread' = "send" /\ job'.rev = r
    BY <1>2 DEF AwaitedIsComing, writerVars
  <2>1. ASSUME NEW i \in 1 .. Len(queue), queue[i].rev = r
        PROVE  \/ \E k \in 1 .. Len(queue') : queue'[k].rev = r
               \/ thread' = "send" /\ job'.rev = r
    <3>1. CASE i = 1
      BY <1>2, <1>3, <2>1, <3>1
    <3>2. CASE i # 1
      <4>1. i - 1 \in 1 .. Len(queue') /\ (i - 1) + 1 = i
        BY <1>1, <3>2
      <4> QED
        BY <1>7, <2>1, <4>1
    <3> QED
      BY <3>1, <3>2
  <2> QED
    BY <1>2, <1>6, <2>1 DEF IInv, PendingInv, AwaitedIsComing
<1>12. ChannelsBehind' /\ ChannelsOrdered'
  BY <1>2 DEF IInv, ChannelsBehind, ChannelsOrdered, watcherVars
<1> QED
  BY <1>5, <1>8, <1>9, <1>10, <1>11, <1>12 DEF IInv, PendingInv

LEMMA DrainIInv ==
  ASSUME IInv, Drain
  PROVE  IInv'
<1>1. PICK j \in spool : /\ j.rev = next_rev /\ spool' = spool \ {j}
                         /\ thread' = "send" /\ job' = j /\ appended' = j.rev
  BY DEF Drain, StartSend
<1>2. UNCHANGED <<writerVars, queue, next_rev, progress_rev, watcherVars>> /\ thread = "drain"
  BY DEF Drain
<1>3. j \in Jobs /\ next_rev <= revision /\ next_rev \in Nat /\ revision \in Nat
  BY <1>1 DEF IInv, TypeOK, PendingInv, PendingInRange
<1>4. TypeOK'
  BY <1>1, <1>2, <1>3 DEF IInv, TypeOK, writerVars, watcherVars
<1>5. \A v \in Writers : call'[v] = call[v] /\ (Holding(v)' <=> Holding(v))
  BY <1>2 DEF Holding, writerVars
<1>6. PendingInRange'
  BY <1>1, <1>2, <1>3, <1>5 DEF IInv, PendingInv, PendingInRange, writerVars
<1>7. OnePlace'
  BY <1>1, <1>2, <1>5 DEF IInv, PendingInv, OnePlace
<1>8. SendingOnce' /\ Behind'
  BY <1>1, <1>2, <1>5 DEF IInv, PendingInv, OnePlace, SendingOnce, Behind
<1>9. AwaitedIsComing'
  <2>1. \A i \in spool : i \in spool' \/ i.rev = next_rev
    BY <1>1
  <2> QED
    BY <1>1, <1>2, <1>5, <2>1 DEF IInv, PendingInv, AwaitedIsComing, writerVars
<1>10. ChannelsBehind' /\ ChannelsOrdered'
  BY <1>2 DEF IInv, ChannelsBehind, ChannelsOrdered, watcherVars
<1> QED
  BY <1>4, <1>6, <1>7, <1>8, <1>9, <1>10 DEF IInv, PendingInv

LEMMA SentAllIInv ==
  ASSUME IInv, SentAll
  PROVE  IInv'
<1>1. /\ thread = "send" /\ thread' = "drain" /\ job' = NoJob /\ next_rev' = next_rev + 1
      /\ UNCHANGED <<writerVars, queue, spool, progress_rev, appended, watcherVars>>
  BY DEF SentAll
<1>2. job.rev = next_rev /\ next_rev <= revision /\ next_rev \in Nat /\ revision \in Nat
  BY <1>1 DEF IInv, TypeOK, PendingInv, PendingInRange
<1>3. TypeOK'
  BY <1>1, <1>2 DEF IInv, TypeOK, writerVars, watcherVars
<1>4. \A v \in Writers : call'[v] = call[v] /\ (Holding(v)' <=> Holding(v))
  BY <1>1 DEF Holding, writerVars
<1>5. PendingInRange'
  BY <1>1, <1>2, <1>4 DEF IInv, PendingInv, PendingInRange, SendingOnce, writerVars
<1>6. OnePlace' /\ SendingOnce'
  BY <1>1, <1>4 DEF IInv, PendingInv, OnePlace, SendingOnce
<1>7. Behind'
  BY <1>1, <1>2 DEF IInv, TypeOK, PendingInv, Behind
<1>8. AwaitedIsComing'
  <2>1. \A r \in next_rev' .. revision' : r \in next_rev .. revision /\ r # job.rev
    BY <1>1, <1>2 DEF writerVars
  <2> QED
    BY <1>1, <1>4, <2>1 DEF IInv, PendingInv, AwaitedIsComing
<1>9. ChannelsBehind' /\ ChannelsOrdered'
  <2>1. \A x \in Watchers : \A i \in 1 .. Len(channel[x]) : channel[x][i] \in Nat
    BY DEF IInv, TypeOK
  <2> QED
    BY <1>1, <1>2, <2>1 DEF IInv, ChannelsBehind, ChannelsOrdered, watcherVars
<1> QED
  BY <1>3, <1>5, <1>6, <1>7, <1>8, <1>9 DEF IInv, PendingInv

LEMMA StoreProgressIInv ==
  ASSUME IInv, StoreProgress
  PROVE  IInv'
<1>1. /\ thread = "drain" /\ thread' = "recv" /\ progress_rev' = next_rev - 1
      /\ UNCHANGED <<writerVars, queue, spool, job, next_rev, appended, watcherVars>>
  BY DEF StoreProgress
<1>2. \A v \in Writers : call'[v] = call[v] /\ (Holding(v)' <=> Holding(v))
  BY <1>1 DEF Holding, writerVars
<1>3. TypeOK'
  BY <1>1 DEF IInv, TypeOK, writerVars, watcherVars
<1>4. PendingInRange' /\ OnePlace' /\ SendingOnce'
  BY <1>1, <1>2 DEF IInv, PendingInv, PendingInRange, OnePlace, SendingOnce, writerVars
<1>5. Behind'
  BY <1>1 DEF IInv, TypeOK, PendingInv, Behind
<1>6. AwaitedIsComing'
  BY <1>1, <1>2 DEF IInv, PendingInv, AwaitedIsComing, writerVars
<1>7. ChannelsBehind' /\ ChannelsOrdered'
  BY <1>1 DEF IInv, ChannelsBehind, ChannelsOrdered, watcherVars
<1> QED
  BY <1>3, <1>4, <1>5, <1>6, <1>7 DEF IInv, PendingInv

(***************************************************************************)
(* do_send visits the watchers: job keeps its revision and loses one of    *)
(* them.                                                                   *)
(***************************************************************************)
LEMMA VisitedPending ==
  ASSUME IInv, NEW x \in Watchers, thread = "send", job' = [job EXCEPT !.to = @ \ {x}],
         UNCHANGED <<writerVars, queue, spool, thread, next_rev, progress_rev, appended>>
  PROVE  PendingInv' /\ job' \in Jobs /\ job.rev = next_rev /\ job'.to = job.to \ {x}
<1>1. job \in Jobs /\ job.rev = next_rev
  BY DEF IInv, PendingInv, PendingInRange
<1>2. job' \in Jobs /\ job'.rev = job.rev /\ job'.to = job.to \ {x}
  BY <1>1 DEF Jobs
<1>3. \A v \in Writers : /\ Holding(v)' <=> Holding(v)
                         /\ Holding(v) => call'[v].job \in Jobs /\ call'[v].job.rev = call[v].job.rev
  BY DEF Holding, writerVars, IInv, PendingInv, PendingInRange
<1>4. PendingInv'
  BY <1>2, <1>3, SamePlaces DEF IInv, writerVars
<1> QED
  BY <1>1, <1>2, <1>4

LEMMA SkipClosedIInv ==
  ASSUME IInv, NEW x \in Watchers, SkipClosed(x)
  PROVE  IInv'
<1>1. PendingInv' /\ job' \in Jobs /\ job'.to = job.to \ {x}
  BY VisitedPending DEF SkipClosed
<1>2. TypeOK'
  BY <1>1 DEF IInv, TypeOK, SkipClosed, writerVars, watcherVars
<1>3. ChannelsBehind' /\ ChannelsOrdered'
  BY <1>1 DEF IInv, ChannelsBehind, ChannelsOrdered, SkipClosed, watcherVars
<1> QED
  BY <1>1, <1>2, <1>3 DEF IInv

LEMMA EnqueueIInv ==
  ASSUME IInv, NEW x \in Watchers, Enqueue(x)
  PROVE  IInv'
<1> DEFINE c == channel[x]
           n == Len(c)
<1>1. PendingInv' /\ job' \in Jobs /\ job.rev = next_rev /\ job'.to = job.to \ {x}
  BY VisitedPending DEF Enqueue
<1>2. channel \in [Watchers -> Seq(Nat)] /\ c \in Seq(Nat) /\ n \in Nat /\ next_rev \in Nat
  BY DEF IInv, TypeOK
<1>3. /\ \A y \in Watchers : y # x => channel'[y] = channel[y]
      /\ channel'[x] = Append(c, next_rev)
      /\ channel' \in [Watchers -> Seq(Nat)]
  BY <1>1, <1>2 DEF Enqueue
<1>4. /\ Len(channel'[x]) = n + 1 /\ channel'[x][n + 1] = next_rev
      /\ \A i \in 1 .. n : channel'[x][i] = c[i]
  BY <1>2, <1>3
<1>5. \A i \in 1 .. n : c[i] < next_rev /\ c[i] \in Nat
  BY <1>2 DEF IInv, ChannelsBehind, Enqueue
<1>6. TypeOK'
  BY <1>1, <1>3 DEF IInv, TypeOK, Enqueue, writerVars
<1>7. ChannelsBehind'
  <2> SUFFICES ASSUME NEW y \in Watchers, NEW i \in 1 .. Len(channel'[y])
               PROVE  /\ channel'[y][i] <= next_rev'
                      /\ channel'[y][i] = next_rev' => thread' = "send" /\ y \notin job'.to
    BY DEF ChannelsBehind
  <2>1. CASE y # x
    BY <1>1, <1>3, <2>1 DEF IInv, ChannelsBehind, Enqueue
  <2>2. CASE y = x
    <3>1. channel'[y][i] <= next_rev
      <4>1. i \in 1 .. n \/ i = n + 1
        BY <1>2, <1>4, <2>2
      <4> QED
        BY <1>2, <1>4, <1>5, <2>2, <4>1, SMTT(30)
    <3> QED
      BY <1>1, <2>2, <3>1 DEF Enqueue
  <2> QED
    BY <2>1, <2>2
<1>8. ChannelsOrdered'
  <2> SUFFICES ASSUME NEW y \in Watchers, NEW i \in 1 .. Len(channel'[y]),
                      NEW k \in 1 .. Len(channel'[y]), i < k
               PROVE  channel'[y][i] < channel'[y][k]
    BY DEF ChannelsOrdered
  <2>1. CASE y # x
    BY <1>3, <2>1 DEF IInv, ChannelsOrdered
  <2>2. CASE y = x
    <3>1. i \in 1 .. n /\ (k \in 1 .. n \/ k = n + 1)
      BY <1>2, <1>4, <2>2
    <3> QED
      BY <1>4, <1>5, <2>2, <3>1 DEF IInv, ChannelsOrdered
  <2> QED
    BY <2>1, <2>2
<1> QED
  BY <1>1, <1>6, <1>7, <1>8 DEF IInv

-------------------------------------------------------------------------------
(* Taking events off a channel leaves a suffix of it. *)
LEMMA ReceiverIInv ==
  ASSUME IInv, NEW x \in Watchers, ReceiverStep(x)
  PROVE  IInv'
<1>1. UNCHANGED <<writerVars, queue, threadVars>>
  BY DEF ReceiverStep, Register, Receive, Close
<1>2. PendingInv'
  <2>1. \A v \in Writers : /\ Holding(v)' <=> Holding(v)
                           /\ Holding(v) => call'[v].job \in Jobs /\ call'[v].job.rev = call[v].job.rev
    BY <1>1 DEF Holding, writerVars, IInv, PendingInv, PendingInRange
  <2>2. thread = "send" => job \in Jobs
    BY DEF IInv, PendingInv, PendingInRange
  <2> QED
    BY <1>1, <2>1, <2>2, SamePlaces DEF IInv, writerVars, threadVars
<1>3. /\ registered' \in [Watchers -> Nat \union {None}]
      /\ closed' \subseteq Watchers
  <2> USE DEF IInv, TypeOK
  <2>1. ASSUME NEW start \in 0 .. MaxRev, Register(x, start)
        PROVE  registered' \in [Watchers -> Nat \union {None}] /\ closed' \subseteq Watchers
    BY <2>1, MaxRevAssumption DEF Register
  <2>2. CASE Receive(x)
    BY <2>2 DEF Receive
  <2>3. ASSUME NEW unwatch \in BOOLEAN, Close(x, unwatch)
        PROVE  registered' \in [Watchers -> Nat \union {None}] /\ closed' \subseteq Watchers
    <3>1. registered' = [registered EXCEPT ![x] = None] \/ registered' = registered
      BY <2>3 DEF Close
    <3>2. closed' = closed \union {x}
      BY <2>3 DEF Close
    <3> QED
      BY <3>1, <3>2
  <2> QED
    BY <2>1, <2>2, <2>3 DEF ReceiverStep
<1>4. PICK n \in Nat :
        /\ n <= Len(channel[x])
        /\ channel' = [channel EXCEPT ![x] = SubSeq(channel[x], n + 1, Len(channel[x]))]
  <2>1. channel \in [Watchers -> Seq(Nat)]
    BY DEF IInv, TypeOK
  <2>2. channel[x] \in Seq(Nat) /\ Len(channel[x]) \in Nat
    BY <2>1
  <2>3. CASE \E start \in 0 .. MaxRev : Register(x, start)
    <3>1. SubSeq(channel[x], 0 + 1, Len(channel[x])) = channel[x]
      BY <2>2
    <3>2. channel' = channel
      BY <2>3 DEF Register
    <3>3. [channel EXCEPT ![x] = channel[x]] = channel
      BY <2>1
    <3>4. channel' = [channel EXCEPT ![x] = SubSeq(channel[x], 0 + 1, Len(channel[x]))]
      BY <3>1, <3>2, <3>3, Zenon
    <3>5. 0 <= Len(channel[x])
      BY <2>2
    <3> QED
      BY <3>4, <3>5
  <2>4. CASE Receive(x)
    <3>1. Len(Taken(x)) \in Nat /\ Len(Taken(x)) <= Len(channel[x])
      BY <2>2, ChannelAssumption, SubSeqProperties DEF Taken
    <3> QED
      BY <2>4, <3>1 DEF Receive
  <2>5. CASE \E unwatch \in BOOLEAN : Close(x, unwatch)
    <3>1. SubSeq(channel[x], Len(channel[x]) + 1, Len(channel[x])) = <<>>
      BY <2>2
    <3>2. channel' = [channel EXCEPT ![x] = <<>>]
      BY <2>5 DEF Close
    <3>3. channel' = [channel EXCEPT ![x] = SubSeq(channel[x], Len(channel[x]) + 1, Len(channel[x]))]
      BY <3>1, <3>2, Zenon
    <3>4. Len(channel[x]) <= Len(channel[x])
      BY <2>2
    <3> QED
      BY <2>2, <3>3, <3>4
  <2> QED
    BY <2>3, <2>4, <2>5 DEF ReceiverStep
<1>5. /\ channel' \in [Watchers -> Seq(Nat)]
      /\ \A y \in Watchers : y # x => channel'[y] = channel[y]
      /\ \A i \in 1 .. Len(channel'[x]) : /\ i + n \in 1 .. Len(channel[x])
                                          /\ channel'[x][i] = channel[x][i + n]
  <2>1. channel \in [Watchers -> Seq(Nat)] /\ channel[x] \in Seq(Nat) /\ Len(channel[x]) \in Nat
    BY DEF IInv, TypeOK
  <2>2. channel'[x] = SubSeq(channel[x], n + 1, Len(channel[x]))
    BY <1>4, <2>1
  <2>3. /\ channel'[x] \in Seq(Nat)
        /\ Len(channel'[x]) = Len(channel[x]) - n
        /\ \A i \in 1 .. Len(channel[x]) - n : channel'[x][i] = channel[x][i + n]
    BY <1>4, <2>1, <2>2
  <2> QED
    BY <1>4, <2>1, <2>3
<1>6. TypeOK'
  BY <1>1, <1>3, <1>5 DEF IInv, TypeOK, writerVars, threadVars
<1>7. ChannelsBehind'
  BY <1>1, <1>5 DEF IInv, ChannelsBehind, threadVars
<1>8. ChannelsOrdered'
  <2> SUFFICES ASSUME NEW y \in Watchers, NEW i \in 1 .. Len(channel'[y]),
                      NEW k \in 1 .. Len(channel'[y]), i < k
               PROVE  channel'[y][i] < channel'[y][k]
    BY DEF ChannelsOrdered
  <2>1. CASE y # x
    BY <1>5, <2>1 DEF IInv, ChannelsOrdered
  <2>2. CASE y = x
    <3>1. i + n < k + n
      OBVIOUS
    <3> QED
      BY <1>5, <2>2, <3>1 DEF IInv, ChannelsOrdered
  <2> QED
    BY <2>1, <2>2
<1> QED
  BY <1>2, <1>6, <1>7, <1>8 DEF IInv

(***************************************************************************)
(* The invariant is inductive.                                             *)
(***************************************************************************)
LEMMA NextIInv == IInv /\ [Next]_vars => IInv'
<1> SUFFICES ASSUME IInv, [Next]_vars PROVE IInv'
  OBVIOUS
<1>1. CASE UNCHANGED vars
  BY <1>1 DEF IInv, TypeOK, PendingInv, PendingInRange, OnePlace, SendingOnce, Behind,
              AwaitedIsComing, ChannelsBehind, ChannelsOrdered, Holding,
              vars, writerVars, threadVars, watcherVars
<1>2. ASSUME NEW w \in Writers, SetStep(w) PROVE IInv'
  BY <1>2, PushIInv, HoldingIInv, SendIInv, AckedIInv DEF SetStep
<1>3. CASE ThreadStep
  BY <1>3, SpoolIInv, RecvIInv, EnqueueIInv, SkipClosedIInv, SentAllIInv, DrainIInv,
     StoreProgressIInv DEF ThreadStep
<1> QED
  BY <1>1, <1>2, <1>3, ReceiverIInv DEF Next

LEMMA AlwaysIInv == Spec => []IInv
  BY InitIInv, NextIInv, PTL DEF Spec

(* Every reachable state is well typed: next_rev, progress_rev and what the *)
(* WAL was given never pass the newest revision.                            *)
THEOREM TypeCorrect == Spec => []TypeOK
<1>1. IInv => TypeOK
  BY DEF IInv
<1> QED
  BY <1>1, AlwaysIInv, PTL

(* No revision up to progress_rev is still on its way to a channel. *)
THEOREM ProgressIsSound == Spec => []ProgressSound
<1>1. IInv => ProgressSound
  <2> SUFFICES ASSUME IInv PROVE ProgressSound
    OBVIOUS
  <2>1. progress_rev < next_rev /\ progress_rev \in Int /\ next_rev \in Int /\ revision \in Int
    BY DEF IInv, TypeOK, PendingInv, Behind
  <2>2. \A r \in next_rev .. revision : r > progress_rev
    BY <2>1
  <2> QED
    BY <2>1, <2>2 DEF IInv, PendingInv, PendingInRange, ProgressSound
<1> QED
  BY <1>1, AlwaysIInv, PTL

(* Every channel carries increasing revisions, in whatever order jobs arrive. *)
THEOREM ChannelsAreOrdered == Spec => []ChannelsOrdered
<1>1. IInv => ChannelsOrdered
  BY DEF IInv
<1> QED
  BY <1>1, AlwaysIInv, PTL

(* The thread never waits for a revision that nobody will send. *)
THEOREM AwaitedComes == Spec => []AwaitedIsComing
<1>1. IInv => AwaitedIsComing
  BY DEF IInv, PendingInv
<1> QED
  BY <1>1, AlwaysIInv, PTL

(* The WAL is given the revisions one by one, as its comment demands. *)
THEOREM AppendsInOrder == Spec => AppendInRevOrder
<1> DEFINE Step == appended' # appended => appended' = appended + 1
<1>1. IInv /\ IInv' /\ [Next]_vars => [Step]_vars
  <2> SUFFICES ASSUME IInv, IInv', Next, appended' # appended PROVE appended' = appended + 1
    BY DEF vars
  <2>1. Recv \/ Drain
    BY DEF Next, SetStep, ThreadStep, ReceiverStep, Push, Publish, Collect, Send, Acked, Spool,
           Enqueue, SkipClosed, SentAll, StoreProgress, Register, Receive, Close, threadVars
  <2>2. thread # "send" /\ thread' = "send" /\ next_rev' = next_rev
    BY <2>1 DEF Recv, Drain, StartSend
  <2>3. appended = next_rev - 1 /\ appended' = next_rev
    BY <2>2 DEF IInv, PendingInv, Behind
  <2> QED
    BY <2>3 DEF IInv, TypeOK
<1> QED
  BY <1>1, AlwaysIInv, PTL DEF Spec, AppendInRevOrder
===============================================================================
