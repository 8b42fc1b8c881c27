# TLA+ models of k8s-1m

k8s-1m runs Kubernetes clusters of a million nodes. Two programs of it carry
logic of their own: `mem_etcd`, an in-memory replacement of etcd written in
Rust, and `dist-scheduler`, a sharded Kubernetes scheduler written in Go. This
directory models them in TLA+: the modules, the configurations that TLC checks,
and theorems whose proofs TLAPS checks. `PROJECT.json` lists every run, the
source lines each definition models, the hazards each property is for and what
the runs found.

`mem_etcd` is modelled from the calls of the etcd API down to the files of the
write-ahead log (the services, the multi-version store and its ranges, the
revision log, the notification thread, the watch streams, the WAL and its
replay); of `dist-scheduler`, the path of a pod (the relay tree, the relay and
`ProcessOne`, the evaluation of scores) and how the leader shares out the nodes.

## The system

### mem_etcd

| Part | State | Operations | Talks to |
|---|---|---|---|
| `BlockDeque` (`block_deque.rs`) | blocks behind an `RwLock`; the atomics `length` and `start_offset` | `push`, `set`, `get`, `remove_before`, `latest_revision` | called by `Store` for every revision |
| `Store` (`store.rs`) | `tree_map` and `prefix_map` to the items of the keys, one lock per item; `values_by_revision` | `set`, `delete`, `range`, `watch`, `unwatch`, `compact` | sends a job per revision to the notify thread |
| notify thread (`store.rs`) | `job_spool`, `next_rev`, `progress_rev` | puts jobs back into revision order | appends to the WAL, enqueues on every watcher's bounded channel |
| `WatchService` (`watch_service.rs`) | per stream: `max_event_stream_rev` | sends past changes, then events and progress responses | reads its channel and the client's messages |
| `WalManager` (`wal.rs`) | per prefix: a queue, a flag `is_writing`, a file | `append`; a pool of writer threads; `load_wal_dir` at boot | wakes the puts that wait in fsync mode |
| `KvService`, `MaintenanceService` (`kv_service.rs`, `maintenance_service.rs`) | none of their own | `range`, `put`, `delete_range`, `txn`, `compact`; `alarm`, `status`, `defragment` | translate each call into one of `Store` and its result into an answer |
| `LeaseService` (`lease_service.rs`) | a counter of ids | grant, revoke, keep-alive: a stub | nothing |

What is hard: many `set` calls run at once and drop the item's lock before they
send their job, so that the order of revisions has to be rebuilt; the two
counters of the deque are read without its lock; creation of a key takes no
lock over both maps; `watch` registers and reads the past while sets go on;
writers of the WAL drop tokens; a write or an fsync may fail, and a crash may come
between write, fsync and acknowledgement.

What makes each part correct:

- the deque: indices are dense and unique, and a stored revision that is not
  truncated is read back (the notify thread waits for exactly the next one);
- the store: compare-and-set is atomic, versions count, a range is a snapshot of
  exactly the keys it names;
- the services: a transaction answers for its compare, a page of a list says
  whether there is more, a call sees what was answered before it;
- the notify thread: the WAL and the channels see revisions in order, progress
  is never ahead, and the thread never waits for a revision nobody sends;
- a watch: no event is missed between the past changes and the channel, and a
  progress response covers its revision;
- the WAL: one writer per file, no lost wake-up, files in revision order, an
  acknowledged put survives a crash if no fsync of its file has failed, replay
  merges in revision order.

### dist-scheduler

Every scheduler owns a shard of the nodes, chosen by a label that the leader
assigns. A pod arrives at the leader's admission webhook, is relayed down a tree
of schedulers, scheduled by each on its shard, and the scores are sent to one
scheduler, by a hash of the pod's name, that lets one of them bind.

| Part | State | Operations | Talks to |
|---|---|---|---|
| `SchedulerSet` (`schedulerset.go`, `endpointslices.go`) | the members, the leader, `dirty`, `subMembersCache` | `GetSubMembers`, `SetLeader`, the informer's handlers | asked by the relay; told by the informer and the leader elector |
| webhook (`webhook.go`) | `podQueue` | `handleWebhook` | feeds `Run` |
| scheduler and relay (`scheduler.go`, `relay.go`, `grpc_server.go`, `stack.go`, `countdown.go`) | streams by member and index, `concurrentCounter`, the stack of kube-schedulers, `nextPod`, a latch per pod | `Run`, `ProcessOne`, `RelayPod`, `NewPod` | relays to the sub-members; kube-scheduler calls back `NextPod` and `Permit` |
| `DistPermit` (`distpermit.go`) | `clientCache` | `Permit`, `SendScore` | calls `CollectScore` of one process |
| `ScoreEvaluator` (`scoreevaluator.go`) | per pod: scores, `highestScore`, a condition, a timer | `RecordAndWait`, `fire` | answers every scheduler that waits |
| leader activities (`leader_activities.go`) | node labels, webhook endpoints | election callbacks, the labeller | Kubernetes API |

Hard here: scores that arrive after the timeout, schedulers that come and go
while the tree is cached, processes that disagree about the leader, streams that
break, and a kube-scheduler that is reused while its last pod is still being
bound.

What makes each part correct:

- `SchedulerSet`: processes that agree form a tree with the relays above the
  schedulers, and a cached place in it is not out of date;
- the relay: a pod visits every scheduler once, the latch counts the answers
  that are outstanding, a kube-scheduler is never given two pods, and a call ends
  once it has sent the pod on, whatever the other processes do;
- `ScoreEvaluator`: one verdict per evaluation, for the best node that was
  counted, and nobody who was in time waits for ever.

### Not modelled

- Metrics, the load generators, Terraform, dashboards and generated code: they
  keep no state that another part depends on.
- The lease service: ids from a counter that nothing reads and constant answers;
  leases never expire and are attached to no key.
- `main`: flags and wiring, apart from the dummy key that takes revision 1
  (`Init` of `Store`).
- The pod watcher, an informer whose one handler feeds the queue of `Relay`, and
  of the leader's activities everything but the leader itself and the sharing
  out of nodes: see the plan.

## The modules

| Module | Models | Extends |
|---|---|---|
| `RevisionLog` | what `Store` relies on in `values_by_revision`: append, store, truncate | |
| `BlockDeque` | `block_deque.rs` | `RevisionLog` by refinement |
| `BlockDequeProof` | theorems about `BlockDeque`, and that it implements `RevisionLog` | `BlockDeque` |
| `NotifyThread` | the tail of `Store::set` and the notify thread | |
| `NotifyThreadProof` | theorems about `NotifyThread` | `NotifyThread` |
| `WatchStream` | `Store::watch`, `unwatch` and the stream of `WatchService` | `NotifyThread` |
| `WatchStreamProof` | the streams implement the receivers of `NotifyThread`; what a watch delivers | `WatchStream`, `NotifyThreadProof` |
| `Store` | `set`, `delete`, `range`, `compact` and `current_revision` under concurrent requests | |
| `StoreProof` | theorems about `Store` | `Store` |
| `KeyRange` | which ordered map holds a key and what a range visits: pure operators on byte strings | |
| `KvService` | the KV and maintenance API: checks, translation, answers | `Store`, `KeyRange` |
| `KvServiceProof` | the services implement `Store`; their answers | `KvService`, `StoreProof` |
| `Wal` | `wal.rs` and the replay in `Store::new` | |
| `WalProof` | theorems about `Wal` | `Wal` |
| `ScoreEvaluator` | `DistPermit`, `CollectScore` and `ScoreEvaluator`, for one pod | |
| `ScoreEvaluatorProof` | theorems about `ScoreEvaluator` | `ScoreEvaluator` |
| `NodeLabels` | `updateNodeLabels`: pure operators | |
| `SchedulerSet` | the relay tree and its cache, under changing members and leaders | |
| `Relay` | the webhook's queue, `ProcessOne`, `RelayPod` and the streams | `SchedulerSet` |
| `RelayProof` | theorems about `SchedulerSet` and `Relay` | `Relay` |
| `MC...` | instances for TLC | |

An action is one step between two points where other threads can get in: a
lock taken or dropped, an atomic loaded or stored, a message sent or received.
Names follow the source. Operators named as a plausible bug (`PushReserveUnlocked`,
`RecvUnordered`, ...) stand before the definition they would replace: putting one in
its place must make the property named in `PROJECT.json` fail.

**BlockDeque.** A thread is a caller of `push` and then `set`, as `Store::set`
is, or of `remove_before`. `push` is `PushReserve` (under the read lock, take
the index), then `PushStore`, or `PushMiss` and `PushGrow` when the block has to
be allocated under the write lock. `remove_before` is `RemoveShorten` and
`RemoveTrim`, because `latest_revision` can look at the counters in between. A
panic under the write lock poisons it, which ends all further use.

**NotifyThread.** `Push` to `Acked` is one `Store::set` of an existing key: the
revision is assigned and made visible under the item's lock, the watchers are
collected, the job sent, and in fsync mode the WAL awaited. `Spool`, `Recv`,
`Enqueue`, `SkipClosed`, `SentAll`, `Drain` and `StoreProgress` are the loop of
the thread. The module's own `Next` lets receivers do anything a receiver can.

**WatchStream** replaces those receivers by `Store::watch` and the stream, and is
proved to implement them.
Prefixes are left out except for the error path of a range that spans two.

**Store** models one prefix. An item is named by the revision that created it,
so that two creations of one key are two items, as they are in the code. A range
visits the items of its keys in order, each under its read lock (`RangeItem`), and
only counts once it is past the limit (`RangeSkip`). `log` is a history variable:
what each revision was for and what became of it; `seen` of a request in progress
records which revisions had been answered when it began.

**KeyRange** is `prefix_split` and `prefix_and_range_of_key` on sequences of
bytes. The word "registry" is one byte; slash, dot and the digit 0 keep their
order.

**KvService** checks and translates a call in the step that starts the request
(`Serve`), which reads nothing that changes; `Refuse` is a call that never reaches
the store. The answer (`Header`, `RangeResponse`, `TxnResponse`) is a function of
the call and of the finished request. A compare has one of the four results of
`rpc.proto`, which the translation does not look at (`SetOf`); a limit is any
integer, cast to `usize` for the store (`Limit`) and back for `more`
(`RangeResponse`). `RequestsAssumption` says that Store's requests are exactly the
translations of the calls.

**Wal** models a record by its revision. `write_locked` gives `writev` pointers
into memory that is gone by then; what reaches the file is therefore chosen:
the record, or something else (`intact`). The deadline of a batch is the free
choice between `Collect` and `Write`. A `writev` that fails may have written a
part of the batch, and its thread is dead from then on (`WriteFails`); an fsync
that fails is not noticed (`FsyncFails`), and after it no fsync of that file is
taken for a proof that anything is on the disk. `WritesFail`, `SyncsFail` and
`Garbles` are the files to which these things may happen. A crash loses memory and any part of what was
not synced; the boot merges the files (`ReplayRecord`) and hands each record to
`OnEntry`, the closure of `Store::new`.

**ScoreEvaluator** follows one pod. `Permit` and `ScheduleFails` are the two ways
a scheduler sends a score; `Lookup` and `Record` are the two critical sections of
`RecordAndWait`, between which the timer and other scores get in; `Fire` is
shared by the last score and `Timer`. The evaluators that were started stay in
`evals`, `current` is the entry of the map. Which of the tied candidates wins is
a choice. Each scheduler finds the process to ask by its own view of members and
leader (`GetTargetForScoring`); the module is about one process and the scores it
gets, and schedulers whose views differ ask two of them, which know nothing of each
other.

**NodeLabels** is what `updateNodeLabels` computes from the schedulers and the
labels it sees. The order of a Go map is a choice of the order of `shortGroups`.

**SchedulerSet** gives every process its own view. `UpdateCache` and `MarkDirty`
are two event handlers of one informer, which runs each in its own goroutine.
`GetSubMembers` is `StartCompute`, `ReadMembers` and `EndCompute` where the run
looks into it, and one step where `Relay` uses it. The sorted list is not built:
a member's position is the number of members before it. The leader is `NoLeader`,
the empty name, until the process's elector has called back, and for ever in a
process that is not leader-eligible, which is how `dist-scheduler.tf` deploys the
schedulers.

**Relay** calls an invocation of `ProcessOne` a task. It goes through `RelayPod`,
a `SendPod` or `SendFails` per sub-member, `PopScheduler`, `PushScheduler` and the
wait; `NextPod` and `SchedulerDone` are the goroutine of `ScheduleOne`. A stream
is named by its two ends and the index; `wire` holds what its server has not
answered yet, `pending` the entries of `pendingRequests`. A stream takes `Window`
messages, after which `SendPod` waits, as `SendMsg` does under gRPC's flow control,
without a deadline. `Views` are the assignments of leaders that an instance starts
from; they stay as they are while its few pods travel. `RelayFails` is the error of
`getRawPod`. An answer is counted in the step in which its `ProcessOne` returns
(`Return`): one that takes its time is a `ProcessOne` that does. That
`clientCacheLock` is held while a stream is opened is left out; it makes the sends
of one process wait for each other.

## What the runs check

Runs that pass:

| Run | Bounds | Shows |
|---|---|---|
| `deque` | 3 threads, 1 lock-free reader, blocks of 2, 4 pushes | dense and unique revisions, stored revisions read back, `latest_revision` right when no truncation overlaps, the deque implements `RevisionLog` |
| `watch` | 2 writers, 2 keys, 1 watch, channel of 2, 3 revisions, 1 progress request | no missed event, ordered events, progress covers, the WAL in order, no stall |
| `watch_live` | 2 writers, channel of 1, 2 revisions, fsync | every event arrives, every put returns |
| `kv` | 2 clients, 2 keys of one prefix, 4 revisions, 16 forms of call, a compare other than EQUAL and a negative limit among them | versions, compare-and-set, ranges under writes and compaction, pages, answers of transactions, calls see what was answered; as an assumption, the arithmetic of prefixes for all names of the instance |
| `wal` | 3 prefixes and one not persisted, 2 writer threads, 3 records; writes of two files may fail, the fsync of the third, records of one may be garbled; a crash anywhere | mutual exclusion, wake-ups, file order, durability, order of replay, every record is written unless its writer or the whole pool has died |
| `score` | 3 schedulers, 2 nodes, scores up to 2, lost calls, failing connections, the timer | one verdict per evaluation, for the best node counted; who is in time is answered |
| `tree` | 4 processes, 2 of them relays, fan-out 2, 3 versions of the members, 2 leaders | agreed views are a tree with the relays on top, by what is cached; the cache is not out of date; as an assumption, nodes are shared out with the fewest moves |
| `relay` | a chain of 3 processes, one a relay, 2 pods, 5 tasks, streams that take 1 message and break, three views: an agreed leader, a leader one process has not heard of, a circle | the latch, the handover, the indices, one visit each, every call ends once it has sent, and all do if the leader is agreed |

Why these bounds are enough: three threads are one that truncates and two that
overlap in `push`; blocks of two slots and four pushes cross a block boundary
and leave one partly filled block; two writers put a revision into the spool
while the awaited one is late (a spool that holds more needs three; that order
is proved for any number); a channel of one or two slots fills; four
revisions (the first is the dummy key's) hold a creation, an update or deletion
and a re-creation, and two keys with a limit of one make a page that is cut short;
the names of `kv` have up to three bytes below the root and below a directory,
which makes every form that `prefix_split` tells apart; three records fill a batch
of two and leave one for the writer that comes after, and with two threads failed
writes of two files leave a third, sound one without a thread; with three schedulers one can be late while two agree
or tie, and two can share a node; four processes with a fan-out of two make a
tree of two levels, and the sets of members run through all subsets; a chain of
three processes has a root, an inner process and a leaf, and when they disagree
about the leader it closes into a circle (process 1 relays to 2 and 2 to 1) that
five tasks go round; two pods and a stream of one message make a send wait.

The two assumptions are evaluated by TLC before the run: `KeyRangeChecked`
(`BoundsSelectRange` and `ListsAreComplete`: an accepted range visits the keys of
its map from start to end and no other, and the list of a directory visits
everything below it) and `NodeLabelsChecked` (`SharesFewestMoves`, for every
labelling of up to four nodes and three schedulers: the loop never divides by
zero, gives every node a scheduler and none more than its share, moves as few
nodes as any such labelling, and none to where it is).

Deadlock checking is on for the runs of the deque and the services, where some
request can always begin or the reader can always go on. It is off for the
other runs: there the bounds (`MaxRev`, `MaxRec`, `MaxTasks`, `MaxSlices`) let a
behaviour end, a pod that has been scheduled needs nothing more, and a server
that has panicked at boot really stops.

Runs that TLC must refute, each a promise of a comment or a document that the
code does not keep (quoted in `PROJECT.json`, "findings"):

| Run | What happens |
|---|---|
| `store_create` | two creations that require absence both succeed |
| `store_list` | a list misses a key created at the revision it reports |
| `boot` | after a crash nothing is restored, although the records were read back in order |
| `wal_no_persist` | an fsync put to a prefix that is not persisted never returns |

### Disagreements seen while modelling, without a run of their own

No run is spent on these. The models contain them, except for what is about values,
leases, flags, a second boot, the `count` of a transaction's range, the other
results of a compare as `rpc.proto` means them, and two processes that evaluate one
pod: those are in none of the models and are read off the code.

- `block_deque.rs:118`: `push` recomputes `block_index` after it has dropped the
  read lock. The comment at lines 114-116 says that `remove_before` cannot have
  passed the new index; `length` already counts it, so a compaction of a later
  revision can, and the subtraction underflows (`PushGrow`, second disjunct).
- `block_deque.rs:79`: `latest_revision` adds two loads. When `remove_before`
  runs between them the sum is not a revision that was ever current
  (`LatestIsCurrent` is stated for calls that no truncation overlaps).
- `store.rs:831`: compaction removes all values below the revision, while
  `rpc.proto:630` promises to remove superseded ones. A range at an allowed
  revision then misses a key that was changed before the compaction and again
  after it. `RangeReadsItems` asks only for values that are still kept.
- `store.rs:206` and `237`: a refused `set` returns a revision read before it
  waited for the item's lock, together with a value that may be newer.
  `SeesAnswered` says that it is not older than the writes answered before.
- `store.rs:641`: past the limit everything counts, deleted keys too, so that
  `count` is not "the number of keys within the range when requested"
  (`rpc.proto:478`); with `count_only`, whose limit is 0, from the first live key
  on. `MoreMeansMore` is about `more`, and about the count of complete answers.
- `store.rs:640`: a range whose end is before its start panics in
  `BTreeMap::range`, if the prefix has any key. A range that starts above a
  resource (`/registry/` to `/registry0`) sees one map and silently misses the others.
- `kv_service.rs:166`: `compare.result` is ignored, every compare is an equality
  (`rpc.proto:567` has four); a negative value is no requirement at all; a target or an
  operation that is not set panics. `TxnAnswersCompare` is about compares for
  equality with a number that is not negative.
- `kv_service.rs:41` and `53`: a negative limit becomes a huge one as `usize`, so that
  nothing is cut off, and the negative number again as `i64`, so that `more` is set
  for every range. `MoreMeansMore` is about limits that are not negative.
- `kv_service.rs:236`: `set` refuses to delete an absent key, so that a transaction
  whose compare holds (mod revision 0) answers that it did not succeed
  (`rpc.proto:623`); `TxnAnswersCompare` excludes it. Its `count` is 1 also when
  `kvs` is empty.
- `kv_service.rs:109`: deleting a key that does not exist is an internal error,
  and the revision of the header of `delete_range` and `compact` (lines 121 and 351)
  is 0, not "the key-value store revision when the request was applied"
  (`rpc.proto:395`). `SeesAnswered` excepts the two.
- `store.rs:460`: an empty value, "which is a valid value" (`kv_service.rs:228`), is a
  deletion in the WAL and in the watch responses.
- `wal.rs`: a boot that would restore the store gives the records new revisions
  and appends to the old files, whose revisions then decrease; the next replay
  would merge them out of order.
- `RUNNING.adoc:96-108`: the prefixes in the examples of `--wal-no-write-prefix`
  have no slash at the end, or a namespace, and equal no prefix that
  `prefix_split` makes.
- `lease_service.rs`: ids start at 0, which stands for "no lease".
- `watch_service.rs:176`: the channel is polled first and `progress_rev` loaded
  afterwards, so that a revision enqueued in between is reported as progress and
  sent later, although the comment at lines 169-170 says that the stream "should
  not subsequently return any revisions earlier than the progress revision".
  `ProgressCovers` allows what is in the stream's channel.
- `store.rs:490`: `blocking_send` on a full channel stops the only notify thread,
  so one client that stops reading stops every fsync put; lines 40-41 speak of
  "decoupling watcher latency from the hot `set` path". `SetReturns` holds with
  clients that keep reading and fails without `ClientFairness`.
- `scoreevaluator.go:63`: a score that found the evaluator in the map and takes
  its lock after the firing waits on a condition that nobody signals again,
  unless it happens to make up the number. `PunctualIsAnswered` is about those
  in time. One that comes later still starts a second evaluation, which may
  permit a second node; `PermitsAgree` is about one evaluation.
- `schedulerset.go:130`: `GetTargetForScoring` sorts by the leader and members that
  this process knows of, so that two schedulers may ask two processes about one pod,
  each of which permits a node.
- `scoreevaluator.go:119`: "There should always be at least one" candidate; when
  the timer expires before the first score has taken the lock there is none, and
  `rand.Intn(0)` panics (`Timer`).
- `distpermit.go:93`: a failing `NewClient` returns with `clientCacheLock` held
  (`ConnectFails`).
- `schedulerset.go:57`: the informer may run the handler that sets `dirty` before
  the one that updates the cache. A `GetSubMembers` in between caches the old
  sub-members and clears `dirty`; they stay until the next change.
  `CacheIsFresh` excludes this order (`misordered`).
- `schedulerset.go:181`: when the leader is not among the members, the first
  member is in nobody's sub-members. `AgreedIsTree` is about leaders that are.
- `scheduler.go:483`: "schedulerIndex cannot be the same for two separate
  concurrent goroutines", but the goroutines of `Run` count from 0 and so does
  `concurrentCounter`. They then share a stream. `StreamIndicesDiffer` is about
  the calls that come from streams.
- `relay.go:142`: `SendMsg` has no deadline (the stream's context is the background
  one), and the 1s of `ProcessOne` begins after the sends. When processes disagree
  about the leader so that pods go round in a circle, and its streams are full, the
  sends may wait for each other for ever; `ProcessOneReturns` promises nothing there.
- `relay.go:161`: a stream that has broken stays in the cache until a send fails;
  a pod sent in between is lost, and its sender waits the full second.
- `leader_activities.go:287`: "evenly" is an upper bound only. No scheduler gets more
  than the average rounded up, and one that joins may get none: two schedulers
  with two nodes each keep them when a third comes.
- `wal.rs:241`: the result of `fsync` is ignored and the puts are notified, although
  their records may not be on the disk (`FsyncFails`). `AckedIsOnDisk` is about files
  of which no fsync has failed.
- `wal.rs:93-103`: a failed `writev` kills a thread of the pool that all prefixes
  share, and nothing starts another. After as many failures as there are threads no
  prefix is written any more and every fsync put waits for ever.
  `EventuallyWritten` excepts that state (`PoolIsDead`).
- `wal.rs:195-217`: the iovecs point into loop iterations that have ended. What
  `Write` puts into the file is the record or something else.

### Fairness

`watch_live` assumes weak fairness of each `set` call that has begun, of the
notify thread and of `Store::watch` (tasks and threads that the runtime keeps
scheduling), and of each stream, which additionally needs a client that keeps
reading.
`wal` assumes weak fairness of the appending thread and the writer threads
and strong fairness of `Collect`: a writer that is delayed past its 500us
deadline writes an empty batch and sends its token again, and it is not delayed
so every time. `score` assumes weak fairness of the handlers and of the timers of
the evaluating process, goroutines that the runtime keeps scheduling, and nothing
of the schedulers. `relay` assumes weak fairness of each call of `ProcessOne`,
whose wait ends by a timer, and of each `ScheduleOne` (`ProcessFairness`), and of the
network (`NetworkFairness`) that a send to a stream with room goes through or fails in
the end and that, when pods are on the way, one is received. gRPC with its
connection timeouts does that between processes that are up. A send to a full
stream is not assumed to go on, and nothing is assumed of the source of pods.

## What is proved

Every theorem holds for all values of the constants that satisfy the assumptions
of the modules: any number of writers, keys, clients, watchers, threads, files,
schedulers and processes, every block, batch and channel size, and every bound of
a run. Each module's invariant is built in layers; a layer is inductive given the
ones before it, which keeps every step of a proof small and lets later theorems
cite earlier ones.

The assumptions are named in the modules and evaluated by TLC on every run. They
say what the types of the code say (sizes are positive, a key or a process is a
number, a request is one that a method's arguments can make) and that a `None`
is no value. A few results need a hypothesis more, stated in the theorem:
`FanOut = Stride` (both are 10 in `schedulerset.go`, one as a constant and one as
a literal; with different numbers there is no tree) and `WaitPercent > 99` (the
default of `--wait-for-subschedulers` is 1.0; with less, as in `dist-scheduler.tf`,
a call returns while sub-members still have the pod to take). Where the code does
not do what a document says, the property itself names the case it excepts.

### BlockDeque

- `TypeCorrect`, `RevisionsAreDense`, `RevisionsAreUnique`,
  `LatestRevisionIsCurrent`: `TypeOK`, `DenseRevisions`, `UniqueRevisions` and
  `LatestIsCurrent` always hold;
- `StoredStaysReadable`: `Spec => []StoredIsReadable`;
- `DequeImplementsLog`: `Spec => ImplementsLog`, the refinement of `RevisionLog`.

`DenseRevisions` is not inductive by itself. Inside `remove_before`, `length` is
already reduced and `start_offset` is still old; the invariant has to say that the
remover's target is then known and not below `start_offset` (`RemoverHasTarget`),
so that what is pending can be added back. A push can then only run when nothing
is pending, and gets `pushed` as its index; with every index in flight below
`pushed` (`IndicesBelowPushed`) it is new. A reader that loads `length` with
nothing pending has loaded `pushed - start_offset` (`LoadedLength`), which is what
`LatestIsCurrent` needs of the second load.

The second layer, `SlotInv`, is about the blocks. A pusher that holds the read
lock keeps truncations out, so that its slot is not behind `start_offset`
(`ReadersHold`); one that has let it go to allocate a block has no such promise.
What has been placed and not truncated has a block (`PlacedHasBlock`), what no
push in flight owns any more is in its slot (`StoredCells`), and no slot holds a
value before its push (`FreshCells`). Division by the block size is handled by
`SlotUnique` and `SlotOrder`: different revisions have different slots, and
dropping whole blocks keeps the slots of the others (`SliceIs`, `TrimmedIs`). With
that every step is a step of `RevisionLog` or none (`StepLog`).

### The notify thread and the watches

- `TypeCorrect`, `ProgressIsSound`, `ChannelsAreOrdered`, `AwaitedComes`,
  `AppendsInOrder` of `NotifyThreadProof`, with receivers that may do anything;
- `StreamImplementsNotify`: `StreamSpec => Spec`, and with it
  `StreamProgressIsSound`, `StreamAwaitedComes` and `StreamAppendsInOrder`;
- `NothingIsMissed`: `StreamSpec => []NoMissedEvent`;
- `EventsStayOrdered`: `StreamSpec => []LiveEventsOrdered`;
- `ProgressIsCovered`: `StreamSpec => []ProgressCovers`.

The invariant of the thread is that a revision which has been assigned and not
yet sent is in exactly one place (`OnePlace`, `SendingOnce`) and lies between
`next_rev` and the newest revision (`PendingInRange`). The thread sends a job of
a revision that is at most `next_rev`; with nothing pending below it, that is
`next_rev` itself, and so `progress_rev` and the WAL keep one step behind
(`Behind`). A channel that holds `next_rev` has been visited for it
(`ChannelsBehind`), so that what is enqueued next is larger.

A step of a watch is, for the thread, a registration, a receipt, a closing or
nothing; this needs only that a watch starts at a revision that exists or that the
client asked for (`StartsKnown`). What the watches themselves promise is then
proved on top of the thread's invariant:

- `StoredInv`: a revision belongs to one key, and a call past `Publish` has put
  its revision there. So when the call collects the watchers, a watch of that key
  that is registered is among them (`WriterKeeps`), and what is on its way to a
  watch stays so until its channel has it (`ThreadKeeps`).
- `MissInv`: while `Store::watch` is still reading, a change may also be in an item
  that is yet to be read or among the past changes read so far. The change that is
  published between the reading of its item and the collecting is the one that the
  registration catches; the item's lock is not needed for this.
- `OrderInv`: what a stream has sent live, and the progress it has reported, is
  behind the thread or is what the thread is sending and has already enqueued for
  this watch. Progress is covered because everything on its way is ahead of that
  (`WayIsAhead`).

The past changes are read in order (`OldestFirst`). That a finite set of numbers
has such a sequence cannot be proved by induction here; `SequenceExists` takes a
set of least size without one and refutes it (`NatHasLeast` from the library's
`WFMin`).

### Store and KvService

- `TypeCorrect`, `LocksOrder`: the first two layers of the invariant;
- `CompareAndSet`: `Spec => []CompareIsAtomic`;
- `VersionsAreCounts`: `Spec => []VersionsCount`;
- `RangesRead`: `Spec => []RangeReadsItems`;
- `KvImplementsStore`: `KvSpec => Spec`, and with it `ServerStoreIsSafe`;
- `TxnsAnswerForCompares`: `KvSpec => []TxnAnswersCompare`;
- `MoreIsExact`: `KvSpec => []MoreMeansMore`;
- `AnswersAreSeen`: `KvSpec => []SeesAnswered`.

`BaseInv` has the types and the counters: a compaction in progress holds the lock
of the deque, and there is a revision left for every set that may still push
(which is what the bound `MaxRev` needs). `LockInv` says what an item's lock
orders: the holder is the one set that has pushed a revision of the item and not
set its value (`WriterOK`, `FlightsDiffer`), the latest value is that of the newest
other revision (`LatestOK`), and only an item's newest revision may lack a value
(`SettledOK`). `ValueInv` then carries for each revision the one before it in its
item and what it required of that one, and the deletion since which its version
counts. `ReadInv` adds that everything not compacted is in the log and in the
item's list (`StoredOK`), and what a range has read so far; `TallyInv`, what its
count says about the keys passed. `AnswerInv` ties the result of a set to the value
it replaced or failed on, and `CallInv` a request to the call it was translated
from.

A compare and a limit may be any that the API has: the theorems hold for all of them
because `TxnAnswersCompare` and `MoreMeansMore` say which ones they are about.

`SeesAnswered` compares an answer with what others were answered before the call
began. `KeyInv` says of every revision which key it is for (`KeyOK`), that an item
found or being created is of the request's key (`SetterOK`), and that a key with
revisions is in `tree_map` unless its creator is still at work (`ListedOK`): a
creation that has been answered is past that. So what a call owes its client was
assigned before it loaded the revision and is listed before it looks (`Owed`).
`SeenInv` carries this debt through the call until the answer pays it
(`SetPays`, `RangePays`): a refused set saw the latest value of the only item under
its lock, and a list that has reached the key took the newest value up to a
revision that is no older than the debt.

### Wal

- `ControlCorrect`, `OnlyOneWriter`, `NoWakeupIsLost`: the control of the writer
  threads, `OneWriter` and `NoLostWakeup`;
- `AckedSurvives`: `Spec => []AckedIsOnDisk`; `SyncedStays`: no step, a crash
  included, changes what fsync has put on the disk;
- `FilesInOrder`: `Spec => []FileInRevOrder`;
- `ReplayInOrder`: `Spec => []ReplayInRevOrder`.

`ControlInv` is the types and what a worker may have in hand at each place;
`OneWriter` and `NoLostWakeup` are inductive with it: a dead worker's prefix is
broken, so that whoever fails to win the flag of another prefix leaves its records
to a living worker. `DiskInv`: a batch past `writev` is in its file, past fsync on
the disk unless an fsync of that file has failed (`BatchInFile`). `OrderInv`: file,
batch and queue of a prefix, end to end, increase, and hold all that was appended
to it unless a write failed. `LoadInv`: what has been replayed is older than what
any reader still has (`MergedUpTo`).

### ScoreEvaluator

- `EvaluatorsCorrect`: the invariant `Inv`; `OneEvaluatorCollects`:
  `UnfiredIsCurrent`; `PermitsAreForOneNode`: `PermitsAgree`; `PermittedIsBest`:
  `WinnerIsBest`.

`Inv` says that a score is in the evaluator that its request found and in no other
(`ScoresAreOwn`), that an evaluator which has fired keeps the verdict over the
scores it had then, however many come later (`VerdictHolds`), and that nobody is
woken before the verdict (`AnswersFollow`).

### SchedulerSet and Relay

- `SubMembersFormTree`, `AgreedFormTree`: `SetSpec => []AgreedIsTree`, both under
  `FanOut = Stride`;
- `CacheStaysFresh`: `SetSpec => []CacheIsFresh`;
- `CallsServeStreams`: `Spec => []RelayInv`; `HandoverNeverPanics`:
  `HandoverIsSafe`; `IndicesDiffer`: `StreamIndicesDiffer`; `LatchIsExact`:
  `LatchCounts`;
- `PodVisitsOnce`, under `FanOut = Stride`: the first half of `PodVisitsAll`;
  `PodReachesAll`, under `WaitPercent > 99` as well: `Spec => []PodVisitsAll`.

The tree is arithmetic: positions are distinct and fill `0 .. n - 1`
(`PositionTaken`, again by a least counterexample), and the blocks of sub-members
are disjoint and cover all positions but the first (`Blocks`). A process stands
before its sub-members in the order (`PositionBefore`): the first of any group
without the leader therefore has a parent outside it, and the order puts relays
before schedulers. What is cached is what would be computed (`SettledIsFresh`).
`SetInv` says of
every process that its cached sub-members are those of a version it has been told
of, unless `dirty` is set or the handlers ran out of order.
`RelayInv` pairs streams and calls: a call that serves a stream serves it alone
and finds its message first on the wire. On it rest `HandInv` (a kube-scheduler is
in the stack or with one call), `IndexInv` (indices in use are below `total` and
not free) and `LatchInv` (what is on a wire is pending, once, and the latch is the
number of sub-members to be sent to or awaited).

The way of a pod needs two layers more. `PlaceInv`, which holds through failures
too: a pod is in one queue, once, or with calls, and a call from the queue is a
leader's. `VisitInv`, while all agree and nothing has failed: a call that came
over a stream was sent by a call for the same pod in the parent process, which
has not had its answer exactly as long as it is at the head of the wire (`SentOK`);
no process has two calls for a pod (`Once`); and every sub-member has yet to be
sent to, is awaited, or has finished (`Covered`). A second visit would come over
the one stream from the one call of the one parent in the tree, where the first
answer has already taken that call out of `pending`. A call that returns with its
latch open awaits nobody (`Quiet`, from `LatchInv`), so that all its sub-members
have finished; the first member in `sortMembers`'s order that had not would have a
parent before it that had (`TreeParent`).

### Only model-checked

- The liveness properties (`SetReturns`, `EventsDelivered` and those of the WAL, the
  evaluator and the relay): liveness under fairness is out of the prover's reach.
  Every invariant of a passing run is proved.
- `KeyRange` and `NodeLabels`: what they say is about every element of a bounded
  set of byte strings or labellings, and is computed by recursion.

## Plan

What is left to model is in dist-scheduler: when the leader calls
`updateNodeLabels` (the flag `dirty`, an informer that lags behind its own
patches, patches that fail and are not retried, a leader that has lost the
lease) on top of `NodeLabels` and `SchedulerSet`; the webhook endpoints, which a
former leader may clear late; the pod watcher as a second source of `Relay`'s
queue.
