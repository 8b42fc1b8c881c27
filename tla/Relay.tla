--------------------------------- MODULE Relay ---------------------------------
(***************************************************************************)
(* dist-scheduler/cmd: how a pod travels down the tree of SchedulerSet and *)
(* is scheduled by every process on the way.                               *)
(*                                                                         *)
(* ProcessOne is called for a pod from the podQueue (of the leader, by the *)
(* goroutines of Run) or from a NewPod stream (UnmarshalPodRaw).  It       *)
(* relays the pod to the sub-members, hands it to one of the process's     *)
(* kube-schedulers, and waits at most 1s for the sub-members' answers.     *)
(* Each such call is a task.  A NewPod stream goes from a process to one   *)
(* sub-member and carries one clientIndex; its server handles one pod at a *)
(* time and answers when ProcessOne returns.                               *)
(*                                                                         *)
(* What the processes know of members and leader, which SchedulerSet lets  *)
(* change, stays as it is while the few pods of an instance travel; the    *)
(* processes need not agree on the leader.  That clientCacheLock is held   *)
(* while a stream is opened is left out: it delays the sends of others.    *)
(***************************************************************************)
EXTENDS SchedulerSet, Functions

CONSTANTS
  Views,       \* what the processes take for the leader: a set of functions
  Pods,        \* the pods to be scheduled
  MaxTasks,    \* bound: calls of ProcessOne
  Runners,     \* numConcurrentSchedulers: goroutines of Run in each process
  Schedulers,  \* the kube-schedulers of a process
  WaitPercent, \* --wait-for-subschedulers, in percent
  Window,      \* the messages a stream takes before SendMsg blocks, gRPC's flow control
  CanFail,     \* whether streams may break
  None

ASSUME PodsAssumption == None \notin Pods /\ None \notin Nat \X Nat \X Nat
ASSUME BoundsAssumption == MaxTasks \in Nat /\ Runners \in Nat /\ WaitPercent \in Nat
ASSUME ViewsAssumption == Views \subseteq [Procs -> Members0 \union {NoLeader}]
ASSUME WindowAssumption == Window \in Nat \ {0}

Tasks == 1 .. MaxTasks

VARIABLES
  queue,       \* podQueue of each process
  enqueued,    \* history: the pods the webhook has been called for
  task,        \* the calls of ProcessOne
  free,        \* concurrentCounter.free of each process
  total,       \* concurrentCounter.total
  stream,      \* the streams in clientCache
  stack,       \* schedulerStack of each process
  nextPod,     \* Scheduler.nextPod
  panicked,    \* history: NextPod or ProcessOne has panicked
  calm         \* history: the processes agree on the leader and nothing has failed

taskVars == <<queue, enqueued, task, free, total, stream, stack, nextPod, panicked>>
vars == <<setVars, taskVars, calm>>

Unused == [at |-> "unused", proc |-> 0, pod |-> None, from |-> None, index |-> 0,
           todo |-> {}, latch |-> 0, kube |-> None, one |-> "none"]
(* ProcessOne of p is called for the pod x from the stream k, or from the queue *)
Called(p, x, k, i) ==
  [at |-> "get", proc |-> p, pod |-> x, from |-> k, index |-> i,
   todo |-> {}, latch |-> 0, kube |-> None, one |-> "none"]
Opened == [state |-> "up", wire |-> <<>>, pending |-> {}]

(* the processes agree on a leader among them *)
Agreed == \E l \in Members0 : \A p \in Procs : leader[p] = l

(* while a new leader is being elected the processes may disagree about it;
   the leases play no part *)
Init ==
  /\ ViewInit
  /\ leader \in Views
  /\ leases = <<CHOOSE l \in Members0 : TRUE>>
  /\ queue = [p \in Procs |-> <<>>]
  /\ enqueued = {}
  /\ task = [t \in Tasks |-> Unused]
  /\ free = [p \in Procs |-> {}]
  /\ total = [p \in Procs |-> 0]
  /\ stream = <<>>
  /\ stack = [p \in Procs |-> Schedulers]
  /\ nextPod = [p \in Procs |-> [s \in Schedulers |-> None]]
  /\ panicked = FALSE
  /\ calm = Agreed

Orphan == <<0, 0, 0>>   \* the stream a task came from is gone

Active(t) == task[t].at \notin {"unused", "done"}
Free(t) == task[t].at = "unused" /\ \A u \in 1 .. t - 1 : task[u].at # "unused"

(***************************************************************************)
(* Where tasks come from.                                                  *)
(***************************************************************************)
(* handleWebhook of the process that takes itself for the leader *)
Enqueue(p, x) ==
  /\ leader[p] = p
  /\ x \notin enqueued
  /\ queue' = [queue EXCEPT ![p] = Append(@, x)]
  /\ enqueued' = enqueued \union {x}
  /\ UNCHANGED <<setVars, task, free, total, stream, stack, nextPod, panicked, calm>>

(* a goroutine i of Run that is not in ProcessOne takes a pod from the queue *)
RunOne(p, i, t) ==
  /\ Free(t)
  /\ queue[p] # <<>>
  /\ \A u \in Tasks : ~(Active(u) /\ task[u].proc = p /\ task[u].from = None /\ task[u].index = i)
  /\ task' = [task EXCEPT ![t] = Called(p, Head(queue[p]), None, i)]
  /\ queue' = [queue EXCEPT ![p] = Tail(@)]
  /\ UNCHANGED <<setVars, enqueued, free, total, stream, stack, nextPod, panicked, calm>>

(* A plausible bug: an index already in use, when none was given back. *)
GotLast(p) ==
  IF free[p] = {} THEN (IF total[p] = 0 THEN 0 ELSE total[p] - 1)
                  ELSE CHOOSE i \in free[p] : \A j \in free[p] : i <= j

(* concurrentCounter.Get: the smallest index that was given back, or a new one *)
Got(p) ==
  IF free[p] = {} THEN total[p]
                  ELSE CHOOSE i \in free[p] : \A j \in free[p] : i <= j

(* NewPod receives: UnmarshalPodRaw takes an index and calls ProcessOne *)
ReceivePod(k, t) ==
  LET p == k[2]
  IN  /\ Free(t)
      /\ stream[k].wire # <<>>
      /\ \A u \in Tasks : ~(Active(u) /\ task[u].from = k)
      /\ task' = [task EXCEPT ![t] = Called(p, task[Head(stream[k].wire)].pod, k, Got(p))]
      /\ free' = [free EXCEPT ![p] = @ \ {Got(p)}]
      /\ total' = [total EXCEPT ![p] = IF free[p] = {} THEN @ + 1 ELSE @]
      /\ UNCHANGED <<setVars, queue, enqueued, stream, stack, nextPod, panicked, calm>>

(***************************************************************************)
(* RelayPod.                                                               *)
(***************************************************************************)
(* NewCountDownLatch *)
LatchCount(n) == IF WaitPercent > 99 THEN n ELSE (n * WaitPercent) \div 100

(* the sub-members to send the pod to *)
RelayPod(t) ==
  /\ task[t].at = "get"
  /\ GetSubMembers(task[t].proc)
  /\ LET M == subMembers'[task[t].proc]
     IN  task' = [task EXCEPT ![t].at = IF M = {} THEN "pop" ELSE "send",
                              ![t].todo = M,
                              ![t].latch = LatchCount(Cardinality(M))]
  /\ UNCHANGED <<queue, enqueued, free, total, stream, stack, nextPod, panicked, calm>>

(* getRawPod fails for a pod from the queue, which marshalPod cannot encode *)
RelayFails(t) ==
  /\ CanFail
  /\ task[t].at = "get"
  /\ task[t].from = None
  /\ GetSubMembers(task[t].proc)
  /\ subMembers'[task[t].proc] # {}
  /\ task' = [task EXCEPT ![t].at = "done"]
  /\ calm' = FALSE
  /\ UNCHANGED <<queue, enqueued, free, total, stream, stack, nextPod, panicked>>

(* the task after its message to q has been sent or given up *)
Sent(t, q, done) ==
  task' = [task EXCEPT ![t].todo = @ \ {q},
                       ![t].latch = @ - done,
                       ![t].at = IF task[t].todo = {q} THEN "pop" ELSE "send"]

StreamTo(t, q) == <<task[t].proc, q, task[t].index>>

(* clientCache with cs for the stream k *)
Cached(k, cs) == [j \in DOMAIN stream \union {k} |-> IF j = k THEN cs ELSE stream[j]]

(***************************************************************************)
(* sendPodToEndpoint: opens the stream if there is none in the cache, and  *)
(* waits, without a deadline, while too many messages are on the way.  A   *)
(* stream that has broken may still take the message, and loses it.        *)
(***************************************************************************)
SendPod(t, q) ==
  LET k == StreamTo(t, q)
  IN  /\ task[t].at = "send"
      /\ q \in task[t].todo
      /\ k \in DOMAIN stream => Len(stream[k].wire) < Window
      /\ Sent(t, q, 0)
      /\ LET cs == IF k \in DOMAIN stream THEN stream[k] ELSE Opened
         IN  stream' = Cached(k, IF cs.state = "broken" THEN cs
                                 ELSE [cs EXCEPT !.wire = Append(@, t), !.pending = @ \union {t}])
      /\ UNCHANGED <<setVars, queue, enqueued, free, total, stack, nextPod, panicked, calm>>

(* A plausible bug: a failed send counted where it fails and by the caller. *)
SendFailsTwice(t, q) ==
  LET k == StreamTo(t, q)
  IN  /\ CanFail
      /\ task[t].at = "send"
      /\ q \in task[t].todo
      /\ k \in DOMAIN stream => stream[k].state = "broken"
      /\ Sent(t, q, 2)
      /\ stream' = Restrict(stream, DOMAIN stream \ {k})
      /\ calm' = FALSE
      /\ UNCHANGED <<setVars, queue, enqueued, free, total, stack, nextPod, panicked>>

(* NewClient, NewPod or SendMsg fails: wg.Done(), and a broken stream leaves the cache *)
SendFails(t, q) ==
  LET k == StreamTo(t, q)
  IN  /\ CanFail
      /\ task[t].at = "send"
      /\ q \in task[t].todo
      /\ k \in DOMAIN stream => stream[k].state = "broken"
      /\ Sent(t, q, 1)
      /\ stream' = Restrict(stream, DOMAIN stream \ {k})
      /\ calm' = FALSE
      /\ UNCHANGED <<setVars, queue, enqueued, free, total, stack, nextPod, panicked>>

(* receiverLoop ends, the messages on the way and the answers to them are lost *)
StreamBreaks(k) ==
  /\ CanFail
  /\ stream[k].state = "up"
  /\ stream' = [stream EXCEPT ![k] = [Opened EXCEPT !.state = "broken"]]
  /\ task' = [t \in Tasks |-> IF task[t].from = k THEN [task[t] EXCEPT !.from = Orphan]
                                                  ELSE task[t]]
  /\ calm' = FALSE
  /\ UNCHANGED <<setVars, queue, enqueued, free, total, stack, nextPod, panicked>>

(***************************************************************************)
(* Scheduling the pod here.                                                *)
(***************************************************************************)
(* --relay-only, set for the relays *)
SkipScheduling(t) ==
  /\ task[t].at = "pop"
  /\ task[t].proc \in Relays
  /\ task' = [task EXCEPT ![t].at = "wait"]
  /\ UNCHANGED <<setVars, queue, enqueued, free, total, stream, stack, nextPod, panicked, calm>>

(* Stack.Pop waits for a kube-scheduler, which then gets the pod *)
PopScheduler(t) ==
  LET p == task[t].proc
  IN  /\ task[t].at = "pop"
      /\ p \notin Relays
      /\ \E s \in stack[p] :
           /\ stack' = [stack EXCEPT ![p] = @ \ {s}]
           /\ panicked' = (panicked \/ nextPod[p][s] # None)
           /\ nextPod' = [nextPod EXCEPT ![p][s] = task[t].pod]
           /\ task' = [task EXCEPT ![t].at = "schedule", ![t].kube = s, ![t].one = "next"]
      /\ UNCHANGED <<setVars, queue, enqueued, free, total, stream, calm>>

(* ScheduleOne, in a goroutine of its own, begins with NextPod *)
NextPod(t) ==
  LET p == task[t].proc
      s == task[t].kube
  IN  /\ task[t].one = "next"
      /\ panicked' = (panicked \/ nextPod[p][s] = None)
      /\ nextPod' = [nextPod EXCEPT ![p][s] = None]
      /\ task' = [task EXCEPT ![t].one = "cycle"]
      /\ UNCHANGED <<setVars, queue, enqueued, free, total, stream, stack, calm>>

(***************************************************************************)
(* Permit, podScheduleFailure or the end of ScheduleOne puts a token into  *)
(* schedulerDoneChan.  Those that come second and third, at most, are read *)
(* by nobody and fit into the channel's capacity of 4.                     *)
(***************************************************************************)
SchedulerDone(t) ==
  /\ task[t].one = "cycle"
  /\ task' = [task EXCEPT ![t].one = "done"]
  /\ UNCHANGED <<setVars, queue, enqueued, free, total, stream, stack, nextPod, panicked, calm>>

(* A plausible bug: the kube-scheduler given back as soon as it is started. *)
PushSchedulerAtOnce(t) ==
  /\ task[t].at = "schedule"
  /\ stack' = [stack EXCEPT ![task[t].proc] = @ \union {task[t].kube}]
  /\ task' = [task EXCEPT ![t].at = "wait"]
  /\ UNCHANGED <<setVars, queue, enqueued, free, total, stream, nextPod, panicked, calm>>

(* the first token: the kube-scheduler can be used again *)
PushScheduler(t) ==
  /\ task[t].at = "schedule"
  /\ task[t].one = "done"
  /\ stack' = [stack EXCEPT ![task[t].proc] = @ \union {task[t].kube}]
  /\ task' = [task EXCEPT ![t].at = "wait"]
  /\ UNCHANGED <<setVars, queue, enqueued, free, total, stream, nextPod, panicked, calm>>

(* concurrentCounter.Free *)
Freed(p, i) == [free EXCEPT ![p] = @ \union {i}]

(***************************************************************************)
(* ProcessOne returns.  For a pod from a stream the index is given back    *)
(* and NewPod sends the answer; receiverLoop counts it for the task that   *)
(* waits.  An answer that takes its time is a ProcessOne that does.        *)
(***************************************************************************)
Return(t) ==
  LET p == task[t].proc
      k == task[t].from
  IN  /\ free' = IF k = None THEN free ELSE Freed(p, task[t].index)
      /\ IF k \in {None, Orphan}
         THEN /\ task' = [task EXCEPT ![t].at = "done"]
              /\ UNCHANGED stream
         ELSE LET parent == Head(stream[k].wire)
              IN  /\ task' = [task EXCEPT ![t].at = "done", ![parent].latch = @ - 1]
                  /\ stream' = [stream EXCEPT ![k].wire = Tail(@), ![k].pending = @ \ {parent}]
      /\ UNCHANGED <<setVars, queue, enqueued, total, stack, nextPod, panicked>>

(* the latch is open *)
WaitDone(t) ==
  /\ task[t].at = "wait"
  /\ task[t].latch <= 0
  /\ Return(t)
  /\ UNCHANGED calm

(* A plausible bug: a wait without a deadline. *)
WaitForEver(t) ==
  /\ task[t].at = "wait"
  /\ task[t].latch < 0
  /\ Return(t)
  /\ calm' = FALSE

(* after 1s *)
WaitTimeout(t) ==
  /\ task[t].at = "wait"
  /\ task[t].latch > 0
  /\ Return(t)
  /\ calm' = FALSE

TaskStep(t) ==
  \/ RelayPod(t) \/ RelayFails(t)
  \/ SkipScheduling(t) \/ PopScheduler(t) \/ PushScheduler(t)
  \/ WaitDone(t) \/ WaitTimeout(t)

SendStep(t) == \E q \in Procs : SendPod(t, q) \/ SendFails(t, q)

ScheduleStep(t) == NextPod(t) \/ SchedulerDone(t)

Next ==
  \/ \E p \in Procs, x \in Pods : Enqueue(p, x)
  \/ \E t \in Tasks :
       \/ \E p \in Procs, i \in 0 .. Runners - 1 : RunOne(p, i, t)
       \/ \E k \in DOMAIN stream : ReceivePod(k, t)
       \/ TaskStep(t) \/ SendStep(t) \/ ScheduleStep(t)
  \/ \E k \in DOMAIN stream : StreamBreaks(k)

(***************************************************************************)
(* The goroutines of ProcessOne and ScheduleOne run on, the 1s timer       *)
(* expires, and kube-scheduler comes to the end of its cycle.              *)
(***************************************************************************)
ProcessFairness == \A t \in Tasks : WF_vars(TaskStep(t)) /\ WF_vars(ScheduleStep(t))

(***************************************************************************)
(* Of the network: a send to a stream with room for it goes through or     *)
(* fails in the end, and when pods are on the way one is received.  A send *)
(* to a stream without room waits, which nothing bounds: SendMsg has no    *)
(* deadline.                                                               *)
(***************************************************************************)
NetworkFairness ==
  /\ \A t \in Tasks : WF_vars(SendStep(t))
  /\ WF_vars(\E t \in Tasks : \E k \in DOMAIN stream : ReceivePod(k, t))

Fairness == ProcessFairness /\ NetworkFairness

Spec == Init /\ [][Next]_vars /\ Fairness

-------------------------------------------------------------------------------
(***************************************************************************)
(* Properties.                                                             *)
(***************************************************************************)
(***************************************************************************)
(* The WaitGroup counts exactly the sub-members that have yet to be tried  *)
(* or to answer, and those whose answer a broken stream has lost: it never *)
(* goes below zero, which would panic.                                     *)
(***************************************************************************)
LatchCounts ==
  WaitPercent > 99 =>
    \A t \in Tasks :
      LET waiting == Cardinality(task[t].todo)
                       + Cardinality({k \in DOMAIN stream : t \in stream[k].pending})
      IN  IF calm THEN task[t].latch = waiting ELSE task[t].latch >= waiting

(***************************************************************************)
(* A kube-scheduler is given a pod only when it has taken the one before,  *)
(* and finds one when it looks: the panics of ProcessOne and NextPod are   *)
(* out of reach.                                                           *)
(***************************************************************************)
HandoverIsSafe ==
  /\ ~panicked
  /\ \A p \in Procs : \A s \in stack[p] : nextPod[p][s] = None

(***************************************************************************)
(* The indices that UnmarshalPodRaw gives to the calls in progress in a    *)
(* process are different, and no more are in use than calls ever were.     *)
(***************************************************************************)
StreamIndicesDiffer ==
  \A t, u \in Tasks :
    /\ t # u /\ Active(t) /\ Active(u)
    /\ task[t].proc = task[u].proc
    /\ task[t].from # None /\ task[u].from # None
    => task[t].index # task[u].index

Visits(p, x) == {t \in Tasks : task[t].proc = p /\ task[t].pod = x}

(***************************************************************************)
(* If all agree and nothing fails, a pod visits no process twice, and when *)
(* the call that took it from the queue returns it has visited all.        *)
(***************************************************************************)
PodVisitsAll ==
  calm =>
    \A x \in Pods :
      /\ \A p \in Procs : Cardinality(Visits(p, x)) <= 1
      /\ \A t \in Tasks : task[t].pod = x /\ task[t].from = None /\ task[t].at = "done" =>
           \A p \in Members0 : Visits(p, x) # {}

(***************************************************************************)
(* ProcessOne returns.  Once it has sent the pod on it does so whatever    *)
(* the views and failures, even if the pod goes round in a circle whose    *)
(* streams wait for each other: it gives its kube-scheduler back before it *)
(* waits for its sub-members, and waits no longer than 1s.  And if the     *)
(* processes agree on the leader it also comes to the end of its sends,    *)
(* though each may wait for a process further down to take the pod before. *)
(***************************************************************************)
ProcessOneReturns ==
  \A t \in Tasks :
    task[t].at \in {"pop", "schedule", "wait"} \/ (Agreed /\ Active(t)) ~> task[t].at = "done"

===============================================================================
