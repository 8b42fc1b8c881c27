----------------------------- MODULE NotifyThread -----------------------------
(***************************************************************************)
(* mem_etcd/src/store.rs: how a change of a key reaches the WAL and the    *)
(* watchers' channels.  Any number of Store::set calls run at once; each   *)
(* is given a revision, makes its value visible, collects the watchers to  *)
(* notify and sends a job.  Jobs arrive out of revision order; one thread  *)
(* puts them back in order, appends each to the WAL, enqueues it on every  *)
(* watcher's bounded channel and publishes how far it got (progress_rev).  *)
(*                                                                         *)
(* Keys are keys that exist already, so that Store::set takes the path     *)
(* that holds the item's lock; revisions count from there.  The receiving  *)
(* ends (watch, unwatch, the gRPC stream) are the environment here and are *)
(* detailed in WatchStream.                                                *)
(***************************************************************************)
EXTENDS Integers, Sequences

CONSTANTS
  Writers,              \* tasks inside Store::set
  Keys,                 \* keys, ordered as the btree orders them
  Watchers,             \* watcher ids
  Watched,              \* the keys each watcher watches
  WATCH_CHANNEL_SIZE,   \* capacity of a watcher's channel (10000 in Store)
  RECV_LIMIT,           \* events a stream takes at once (1000 in recv_many)
  Sync,                 \* default_mode = WalMode::Sync
  MaxRev,               \* bound: how many revisions a behaviour contains
  None                  \* no job, no start revision

ASSUME KeysAssumption == Keys \subseteq Nat
ASSUME WatchedAssumption == Watched \in [Watchers -> SUBSET Keys]
ASSUME SyncAssumption == Sync \in BOOLEAN
ASSUME ChannelAssumption == WATCH_CHANNEL_SIZE \in Nat \ {0} /\ RECV_LIMIT \in Nat \ {0}
ASSUME MaxRevAssumption == MaxRev \in Nat
ASSUME NoneAssumption == None \notin Nat

VARIABLES
  revision,       \* values_by_revision.latest_revision()
  revisions,      \* TreeItem.revisions of every key
  call,           \* Store::set in progress, per writer
  queue,          \* the unbounded channel notify_tx
  spool,          \* job_spool
  thread,         \* what the notify thread is doing
  job,            \* the job do_send is working on
  next_rev,       \* the revision the notify thread waits for
  progress_rev,   \* rev_written
  appended,       \* the revision last given to WalManager::append
  registered,     \* Store.watchers: the start_revision of each watcher
  channel,        \* each watcher's channel
  closed          \* watchers whose receiver has been dropped

writerVars == <<revision, revisions, call>>
threadVars == <<spool, thread, job, next_rev, progress_rev, appended>>
watcherVars == <<registered, channel, closed>>
vars == <<writerVars, queue, threadVars, watcherVars>>

Jobs == [rev : Nat, key : Keys, to : SUBSET Watchers]
NoJob == [rev |-> 0, key |-> 0, to |-> {}]
Idle == [at |-> "idle", job |-> NoJob]

Init ==
  /\ revision = 0
  /\ revisions = [k \in Keys |-> {}]
  /\ call = [w \in Writers |-> Idle]
  /\ queue = <<>>
  /\ spool = {}
  /\ thread = "recv"
  /\ job = NoJob
  /\ next_rev = 1
  /\ progress_rev = 0
  /\ appended = 0
  /\ registered = [x \in Watchers |-> None]
  /\ channel = [x \in Watchers |-> <<>>]
  /\ closed = {}

(***************************************************************************)
(* Store::set on an existing key.                                          *)
(***************************************************************************)
Locked(k) == \E w \in Writers : call[w].at = "pushed" /\ call[w].job.key = k

(* Take the item's write lock and push the placeholder value. *)
Push(w, k) ==
  /\ call[w].at = "idle"
  /\ revision < MaxRev
  /\ ~Locked(k)
  /\ revision' = revision + 1
  /\ call' = [call EXCEPT ![w] = [at |-> "pushed",
                                  job |-> [rev |-> revision + 1, key |-> k, to |-> {}]]]
  /\ UNCHANGED <<revisions, queue, threadVars, watcherVars>>

(* Set the value, record the revision in the item, drop the item's lock. *)
Publish(w) ==
  /\ call[w].at = "pushed"
  /\ call' = [call EXCEPT ![w].at = "stored"]
  /\ revisions' = [revisions EXCEPT ![call[w].job.key] = @ \union {call[w].job.rev}]
  /\ UNCHANGED <<revision, queue, threadVars, watcherVars>>

(* A plausible bug: a watcher's start revision taken as exclusive. *)
InterestedAfter(k, r) ==
  {x \in Watchers : registered[x] # None /\ registered[x] < r /\ k \in Watched[x]}

(* The watchers that notify_watchers selects for revision r of key k. *)
Interested(k, r) ==
  {x \in Watchers : registered[x] # None /\ registered[x] <= r /\ k \in Watched[x]}

(* notify_watchers, under the read lock of watchers. *)
Collect(w) ==
  /\ call[w].at = "stored"
  /\ call' = [call EXCEPT ![w].at = "collected",
                          ![w].job.to = Interested(call[w].job.key, call[w].job.rev)]
  /\ UNCHANGED <<revision, revisions, queue, threadVars, watcherVars>>

(* notify_tx.send(job); in Sync mode the call then waits for the WAL. *)
Send(w) ==
  /\ call[w].at = "collected"
  /\ queue' = Append(queue, call[w].job)
  /\ call' = [call EXCEPT ![w] = IF Sync THEN [@ EXCEPT !.at = "waiting"] ELSE Idle]
  /\ UNCHANGED <<revision, revisions, threadVars, watcherVars>>

(* wal_handled.notified(): the WAL (see Wal) has written what it was given. *)
Acked(w) ==
  /\ call[w].at = "waiting"
  /\ appended >= call[w].job.rev
  /\ call' = [call EXCEPT ![w] = Idle]
  /\ UNCHANGED <<revision, revisions, queue, threadVars, watcherVars>>

(***************************************************************************)
(* The notify thread.                                                      *)
(***************************************************************************)
(* do_send begins by appending to the WAL *)
StartSend(j) ==
  /\ thread' = "send"
  /\ job' = j
  /\ appended' = j.rev

(* A plausible bug: a revision from the future skipped. *)
SpoolDropped ==
  /\ thread = "recv"
  /\ queue # <<>>
  /\ Head(queue).rev > next_rev
  /\ queue' = Tail(queue)
  /\ UNCHANGED <<writerVars, threadVars, watcherVars>>

(* blocking_recv: a revision from the future is spooled. *)
Spool ==
  /\ thread = "recv"
  /\ queue # <<>>
  /\ Head(queue).rev > next_rev
  /\ spool' = spool \union {Head(queue)}
  /\ queue' = Tail(queue)
  /\ UNCHANGED <<writerVars, thread, job, next_rev, progress_rev, appended, watcherVars>>

(* A plausible bug: progress published before the job's channels have it. *)
RecvProgressFirst ==
  /\ thread = "recv"
  /\ queue # <<>>
  /\ Head(queue).rev <= next_rev
  /\ StartSend(Head(queue))
  /\ queue' = Tail(queue)
  /\ progress_rev' = next_rev
  /\ UNCHANGED <<writerVars, spool, next_rev, watcherVars>>

(* A plausible bug: jobs sent as they come, without looking at the revision. *)
RecvUnordered ==
  /\ thread = "recv"
  /\ queue # <<>>
  /\ StartSend(Head(queue))
  /\ queue' = Tail(queue)
  /\ UNCHANGED <<writerVars, spool, next_rev, progress_rev, watcherVars>>

(* The awaited revision: do_send. *)
Recv ==
  /\ thread = "recv"
  /\ queue # <<>>
  /\ Head(queue).rev <= next_rev
  /\ StartSend(Head(queue))
  /\ queue' = Tail(queue)
  /\ UNCHANGED <<writerVars, spool, next_rev, progress_rev, watcherVars>>

(* try_send to a channel with room, or blocking_send once there is room *)
Enqueue(x) ==
  /\ thread = "send"
  /\ x \in job.to
  /\ x \notin closed
  /\ Len(channel[x]) < WATCH_CHANNEL_SIZE
  /\ channel' = [channel EXCEPT ![x] = Append(@, job.rev)]
  /\ job' = [job EXCEPT !.to = @ \ {x}]
  /\ UNCHANGED <<writerVars, queue, spool, thread, next_rev, progress_rev, appended,
                 registered, closed>>

(* the receiver is gone: skip it *)
SkipClosed(x) ==
  /\ thread = "send"
  /\ x \in job.to
  /\ x \in closed
  /\ job' = [job EXCEPT !.to = @ \ {x}]
  /\ UNCHANGED <<writerVars, queue, spool, thread, next_rev, progress_rev, appended,
                 watcherVars>>

SentAll ==
  /\ thread = "send"
  /\ job.to = {}
  /\ job' = NoJob
  /\ next_rev' = next_rev + 1
  /\ thread' = "drain"
  /\ UNCHANGED <<writerVars, queue, spool, progress_rev, appended, watcherVars>>

IsFirst(j) == \A i \in spool : j.rev <= i.rev

(* The head of the heap is the awaited revision: send it too. *)
Drain ==
  /\ thread = "drain"
  /\ \E j \in spool :
       /\ IsFirst(j)
       /\ j.rev = next_rev
       /\ StartSend(j)
       /\ spool' = spool \ {j}
  /\ UNCHANGED <<writerVars, queue, next_rev, progress_rev, watcherVars>>

StoreProgress ==
  /\ thread = "drain"
  /\ \A j \in spool : IsFirst(j) => j.rev # next_rev
  /\ progress_rev' = next_rev - 1
  /\ thread' = "recv"
  /\ UNCHANGED <<writerVars, queue, spool, job, next_rev, appended, watcherVars>>

(***************************************************************************)
(* The receiving ends, as far as this module sees them.                    *)
(***************************************************************************)
Register(x, start) ==
  /\ registered[x] = None
  /\ registered' = [registered EXCEPT ![x] = start]
  /\ UNCHANGED <<writerVars, queue, threadVars, channel, closed>>

(* recv_many takes what is there, up to its limit *)
Taken(x) == SubSeq(channel[x], 1, IF Len(channel[x]) < RECV_LIMIT THEN Len(channel[x])
                                                                  ELSE RECV_LIMIT)

Receive(x) ==
  /\ channel[x] # <<>>
  /\ channel' = [channel EXCEPT ![x] = SubSeq(@, Len(Taken(x)) + 1, Len(@))]
  /\ UNCHANGED <<writerVars, queue, threadVars, registered, closed>>

(* The receiver is dropped, with or without unwatch. *)
Close(x, unwatch) ==
  /\ x \notin closed
  /\ closed' = closed \union {x}
  /\ channel' = [channel EXCEPT ![x] = <<>>]
  /\ registered' = IF unwatch THEN [registered EXCEPT ![x] = None] ELSE registered
  /\ UNCHANGED <<writerVars, queue, threadVars>>

SetStep(w) ==
  \/ \E k \in Keys : Push(w, k)
  \/ Publish(w)
  \/ Collect(w)
  \/ Send(w)
  \/ Acked(w)

ThreadStep ==
  \/ Spool
  \/ Recv
  \/ \E x \in Watchers : Enqueue(x) \/ SkipClosed(x)
  \/ SentAll
  \/ Drain
  \/ StoreProgress

ReceiverStep(x) ==
  \/ \E start \in 0 .. MaxRev : Register(x, start)
  \/ Receive(x)
  \/ \E unwatch \in BOOLEAN : Close(x, unwatch)

Next ==
  \/ \E w \in Writers : SetStep(w)
  \/ ThreadStep
  \/ \E x \in Watchers : ReceiverStep(x)

Spec == Init /\ [][Next]_vars

-------------------------------------------------------------------------------
(***************************************************************************)
(* Properties.                                                             *)
(***************************************************************************)
(* Types of the shared state, the calls in progress and the thread. *)
TypeOK ==
  /\ revision \in Nat
  /\ revisions \in [Keys -> SUBSET Nat]
  /\ call \in [Writers -> [at : {"idle", "pushed", "stored", "collected", "waiting"},
                           job : Jobs \union {NoJob}]]
  /\ queue \in Seq(Jobs)
  /\ spool \subseteq Jobs
  /\ thread \in {"recv", "send", "drain"}
  /\ job \in Jobs \union {NoJob}
  /\ next_rev \in 1 .. revision + 1
  /\ progress_rev \in 0 .. revision
  /\ appended \in 0 .. revision
  /\ registered \in [Watchers -> Nat \union {None}]
  /\ channel \in [Watchers -> Seq(Nat)]
  /\ closed \subseteq Watchers

(* The call holds a revision that it has not yet handed to the thread. *)
Holding(w) == call[w].at \in {"pushed", "stored", "collected"}

(***************************************************************************)
(* progress_rev is sound: "This must only be updated after all do_send()   *)
(* calls enqueue the message onto their channels".  No revision up to      *)
(* progress_rev is still with a writer, in the queue, in the spool or in   *)
(* the hands of the thread.                                                *)
(***************************************************************************)
ProgressSound ==
  /\ \A w \in Writers : Holding(w) => call[w].job.rev > progress_rev
  /\ \A i \in 1 .. Len(queue) : queue[i].rev > progress_rev
  /\ \A j \in spool : j.rev > progress_rev
  /\ thread = "send" => job.rev > progress_rev

(***************************************************************************)
(* Every watcher's channel carries its revisions in increasing order,      *)
(* although the jobs arrive in any order.                                  *)
(***************************************************************************)
ChannelsOrdered ==
  \A x \in Watchers : \A i, j \in 1 .. Len(channel[x]) :
    i < j => channel[x][i] < channel[x][j]

(***************************************************************************)
(* "append is to be called in rev order" (wal.rs): the revision given to   *)
(* WalManager::append is always the successor of the one before.           *)
(***************************************************************************)
AppendInRevOrder == [][appended' # appended => appended' = appended + 1]_vars

(***************************************************************************)
(* The thread never waits for a revision that nobody will send: whatever   *)
(* lies between next_rev and the newest revision is with a writer, queued, *)
(* spooled or being sent.                                                  *)
(***************************************************************************)
AwaitedIsComing ==
  \A r \in next_rev .. revision :
    \/ \E w \in Writers : Holding(w) /\ call[w].job.rev = r
    \/ \E i \in 1 .. Len(queue) : queue[i].rev = r
    \/ \E j \in spool : j.rev = r
    \/ thread = "send" /\ job.rev = r
===============================================================================
