---------------------------------- MODULE Wal ----------------------------------
(***************************************************************************)
(* mem_etcd/src/wal.rs: the write-ahead log.  The notify thread appends    *)
(* records in revision order; each goes to the queue of its prefix, and a  *)
(* token naming the prefix goes to a pool of writer threads.  A writer     *)
(* that takes a token and wins the prefix's is_writing flag writes a batch *)
(* to the prefix's file, fsyncs in Sync mode and wakes the waiting puts.   *)
(* After a crash, Store::new reads the files back and merges them.         *)
(*                                                                         *)
(* A record is its revision.  write_locked hands writev pointers into the  *)
(* record and into a stack buffer that are both gone when writev runs, so  *)
(* what reaches the file is the record or anything else: intact is chosen. *)
(***************************************************************************)
EXTENDS Integers, Sequences

CONSTANTS
  Prefixes,
  NoPersist,   \* prefix_modes_no_persist
  Mode,        \* default_mode: "None", "Async" or "Sync"
  Workers,     \* writer threads
  MaxBatch,    \* records that fit in a batch of 16384 bytes
  MaxRec,      \* bound: records appended
  WritesFail,  \* the files whose writev may fail
  SyncsFail,   \* the files whose fsync may fail
  Garbles,     \* the files whose records may be garbled
  CanCrash,    \* whether the machine may crash
  None

ASSUME NoPersistAssumption == NoPersist \subseteq Prefixes
ASSUME ModeAssumption == Mode \in {"None", "Async", "Sync"}
ASSUME BatchAssumption == MaxBatch \in Nat \ {0}
ASSUME MaxRecAssumption == MaxRec \in Nat
ASSUME NonePrefixAssumption == None \notin Prefixes

VARIABLES
  rev,          \* the revision last appended
  prefixOf,     \* history: the prefix of each revision appended
  appending,    \* append between its two sends: the prefix, or None
  to_write,     \* each prefix's queue of records
  tokens,       \* writers_with_work: prefixes that may have work
  is_writing,   \* each prefix's flag
  worker,       \* each writer thread
  file,         \* what has been written to each prefix's file
  synced,       \* how much of each file has surely reached the disk
  fsyncFailed,  \* files of which an fsync has failed
  acked,        \* revisions whose put has been notified
  broken,       \* prefixes whose writer thread panicked
  torn,         \* files cut inside a record by the crash
  phase,        \* "up", "loading", "loaded" or "panicked"
  readers,      \* load_wal_dir: records read of each file, and the last of them
  replayed,     \* load_wal_dir: the records given to on_entry
  restored      \* the revisions the new store has taken over

appendVars == <<rev, prefixOf, appending>>
bootVars == <<torn, phase, readers, replayed, restored>>
vars == <<appendVars, to_write, tokens, is_writing, worker, file, synced, fsyncFailed, acked,
                 broken, bootVars>>

EndOfFile == 0
Unreadable == -1

NoWork == [at |-> "recv", prefix |-> None, batch |-> <<>>]

Init ==
  /\ rev = 0
  /\ prefixOf = <<>>
  /\ appending = None
  /\ to_write = [p \in Prefixes |-> <<>>]
  /\ tokens = <<>>
  /\ is_writing = [p \in Prefixes |-> FALSE]
  /\ worker = [t \in Workers |-> NoWork]
  /\ file = [p \in Prefixes |-> <<>>]
  /\ synced = [p \in Prefixes |-> 0]
  /\ fsyncFailed = {}
  /\ acked = {}
  /\ broken = {}
  /\ torn = {}
  /\ phase = "up"
  /\ readers = [p \in Prefixes |-> [read |-> 0, next |-> EndOfFile]]
  /\ replayed = <<>>
  /\ restored = {}

(***************************************************************************)
(* append, called by the notify thread for revision rev + 1.               *)
(***************************************************************************)
Persisted(p) == Mode # "None" /\ p \notin NoPersist

(* the early return: no record, no token and no notification *)
AppendSkipped(p) ==
  /\ phase = "up"
  /\ appending = None
  /\ rev < MaxRec
  /\ ~Persisted(p)
  /\ rev' = rev + 1
  /\ prefixOf' = Append(prefixOf, p)
  /\ UNCHANGED <<appending, to_write, tokens, is_writing, worker, file, synced, fsyncFailed,
                 acked, broken, bootVars>>

AppendRecord(p) ==
  /\ phase = "up"
  /\ appending = None
  /\ rev < MaxRec
  /\ Persisted(p)
  /\ rev' = rev + 1
  /\ prefixOf' = Append(prefixOf, p)
  /\ to_write' = [to_write EXCEPT ![p] = Append(@, rev + 1)]
  /\ appending' = p
  /\ UNCHANGED <<tokens, is_writing, worker, file, synced, fsyncFailed, acked, broken, bootVars>>

AppendToken ==
  /\ phase = "up"
  /\ appending # None
  /\ tokens' = Append(tokens, appending)
  /\ appending' = None
  /\ UNCHANGED <<rev, prefixOf, to_write, is_writing, worker, file, synced, fsyncFailed, acked,
                 broken, bootVars>>

(***************************************************************************)
(* A writer thread.                                                        *)
(***************************************************************************)
Goto(t, at) == worker' = [worker EXCEPT ![t].at = at]

TakeToken(t) ==
  /\ phase = "up"
  /\ worker[t].at = "recv"
  /\ tokens # <<>>
  /\ worker' = [worker EXCEPT ![t].at = "check", ![t].prefix = Head(tokens)]
  /\ tokens' = Tail(tokens)
  /\ UNCHANGED <<appendVars, to_write, is_writing, file, synced, fsyncFailed, acked,
                 broken, bootVars>>

(* to_write_rx.is_empty(): no work to do *)
CheckWork(t) ==
  /\ phase = "up"
  /\ worker[t].at = "check"
  /\ worker' = [worker EXCEPT ![t] =
                  IF to_write[@.prefix] = <<>> THEN NoWork ELSE [@ EXCEPT !.at = "cas"]]
  /\ UNCHANGED <<appendVars, to_write, tokens, is_writing, file, synced, fsyncFailed, acked,
                 broken, bootVars>>

(* A plausible bug: the flag set without looking whether it was set. *)
AcquireAnyway(t) ==
  /\ phase = "up"
  /\ worker[t].at = "cas"
  /\ is_writing' = [is_writing EXCEPT ![worker[t].prefix] = TRUE]
  /\ Goto(t, "collect")
  /\ UNCHANGED <<appendVars, to_write, tokens, file, synced, fsyncFailed, acked, broken, bootVars>>

(* is_writing.compare_exchange(false, true) *)
Acquire(t) ==
  /\ phase = "up"
  /\ worker[t].at = "cas"
  /\ LET p == worker[t].prefix
     IN  /\ worker' = [worker EXCEPT ![t] =
                         IF is_writing[p] THEN NoWork ELSE [@ EXCEPT !.at = "collect"]]
         /\ is_writing' = [is_writing EXCEPT ![p] = TRUE]
  /\ UNCHANGED <<appendVars, to_write, tokens, file, synced, fsyncFailed, acked, broken, bootVars>>

(* write_locked: recv_deadline adds a record to the batch *)
Collect(t) ==
  /\ phase = "up"
  /\ worker[t].at = "collect"
  /\ Len(worker[t].batch) < MaxBatch
  /\ LET p == worker[t].prefix
     IN  /\ to_write[p] # <<>>
         /\ worker' = [worker EXCEPT ![t].batch = Append(@, Head(to_write[p]))]
         /\ to_write' = [to_write EXCEPT ![p] = Tail(@)]
  /\ UNCHANGED <<appendVars, tokens, is_writing, file, synced, fsyncFailed, acked,
                 broken, bootVars>>

(* What n records of worker t's batch, each sound or not, add to its file. *)
WriteRecords(t, n) ==
  \E garbled \in SUBSET {i \in 1 .. n : worker[t].prefix \in Garbles} :
    file' = [file EXCEPT ![worker[t].prefix] = @ \o
               [i \in 1 .. n |-> [rev |-> worker[t].batch[i], intact |-> i \notin garbled]]]

(* the batch is full or its deadline passed: writev *)
Write(t) ==
  /\ phase = "up"
  /\ worker[t].at = "collect"
  /\ WriteRecords(t, Len(worker[t].batch))
  /\ Goto(t, "written")
  /\ UNCHANGED <<appendVars, to_write, tokens, is_writing, synced, fsyncFailed, acked,
                 broken, bootVars>>

(***************************************************************************)
(* writev fails, perhaps after it has written a part of the batch:         *)
(* write_locked().unwrap() kills the thread and is_writing stays set.      *)
(***************************************************************************)
WriteFails(t) ==
  /\ phase = "up"
  /\ worker[t].at = "collect"
  /\ worker[t].prefix \in WritesFail
  /\ worker[t].batch # <<>>
  /\ \E n \in 0 .. Len(worker[t].batch) - 1 : WriteRecords(t, n)
  /\ broken' = broken \union {worker[t].prefix}
  /\ Goto(t, "dead")
  /\ UNCHANGED <<appendVars, to_write, tokens, is_writing, synced, fsyncFailed, acked, bootVars>>

(* A plausible bug: waking the waiters while the write is being flushed. *)
FsyncAndNotify(t) ==
  /\ phase = "up"
  /\ worker[t].at = "written"
  /\ acked' = acked \union {worker[t].batch[i] : i \in 1 .. Len(worker[t].batch)}
  /\ Goto(t, "synced")
  /\ UNCHANGED <<appendVars, to_write, tokens, is_writing, file, synced, fsyncFailed, broken,
                 bootVars>>

(* fsync returns 0, or is not called.  Once it has failed, the kernel may have
   dropped the pages it could not write: a later success says nothing. *)
Fsync(t) ==
  /\ phase = "up"
  /\ worker[t].at = "written"
  /\ LET p == worker[t].prefix
     IN  synced' = IF Mode = "Sync" /\ p \notin fsyncFailed
                   THEN [synced EXCEPT ![p] = Len(file[p])]
                   ELSE synced
  /\ Goto(t, "synced")
  /\ UNCHANGED <<appendVars, to_write, tokens, is_writing, file, fsyncFailed, acked,
                 broken, bootVars>>

(* fsync fails: write_locked does not look at what it returns and goes on *)
FsyncFails(t) ==
  /\ phase = "up"
  /\ worker[t].at = "written"
  /\ worker[t].prefix \in SyncsFail
  /\ Mode = "Sync"
  /\ fsyncFailed' = fsyncFailed \union {worker[t].prefix}
  /\ Goto(t, "synced")
  /\ UNCHANGED <<appendVars, to_write, tokens, is_writing, file, synced, acked, broken, bootVars>>

(* notify_one for every put that waits, which are those of Sync mode *)
Notify(t) ==
  /\ phase = "up"
  /\ worker[t].at = "synced"
  /\ acked' = IF Mode = "Sync"
              THEN acked \union {worker[t].batch[i] : i \in 1 .. Len(worker[t].batch)}
              ELSE acked
  /\ worker' = [worker EXCEPT ![t].at = "release", ![t].batch = <<>>]
  /\ UNCHANGED <<appendVars, to_write, tokens, is_writing, file, synced, fsyncFailed, broken,
                 bootVars>>

Release(t) ==
  /\ phase = "up"
  /\ worker[t].at = "release"
  /\ is_writing' = [is_writing EXCEPT ![worker[t].prefix] = FALSE]
  /\ Goto(t, "recheck")
  /\ UNCHANGED <<appendVars, to_write, tokens, file, synced, fsyncFailed, acked, broken, bootVars>>

(* A plausible bug: the writer not looking at its queue again. *)
RecheckNever(t) ==
  /\ phase = "up"
  /\ worker[t].at = "recheck"
  /\ worker' = [worker EXCEPT ![t] = NoWork]
  /\ UNCHANGED <<appendVars, to_write, tokens, is_writing, file, synced, fsyncFailed, acked,
                 broken, bootVars>>

(* records arrived too late for the batch: send the token again *)
Recheck(t) ==
  /\ phase = "up"
  /\ worker[t].at = "recheck"
  /\ tokens' = IF to_write[worker[t].prefix] # <<>> THEN Append(tokens, worker[t].prefix)
                                                    ELSE tokens
  /\ worker' = [worker EXCEPT ![t] = NoWork]
  /\ UNCHANGED <<appendVars, to_write, is_writing, file, synced, fsyncFailed, acked,
                 broken, bootVars>>

(***************************************************************************)
(* A crash of the machine, and load_wal_dir at the next boot.              *)
(***************************************************************************)
(* Every file keeps what was synced and any part of what was not; what a   *)
(* failed writev leaves may end inside a record too.  Memory is lost.      *)
Crash ==
  /\ CanCrash
  /\ phase = "up"
  /\ phase' = "loading"
  /\ \E kept \in [Prefixes -> 0 .. MaxRec] :
       /\ \A p \in Prefixes : kept[p] >= synced[p] /\ kept[p] <= Len(file[p])
       /\ file' = [p \in Prefixes |-> SubSeq(file[p], 1, kept[p])]
       /\ torn' \in SUBSET ({p \in Prefixes : kept[p] < Len(file[p])} \union broken)
  /\ appending' = None
  /\ to_write' = [p \in Prefixes |-> <<>>]
  /\ tokens' = <<>>
  /\ is_writing' = [p \in Prefixes |-> FALSE]
  /\ worker' = [t \in Workers |-> NoWork]
  /\ broken' = {}
  /\ UNCHANGED <<rev, prefixOf, synced, fsyncFailed, acked, readers, replayed, restored>>

(***************************************************************************)
(* What read_from may return for the next record of prefix p's file: its   *)
(* revision, EndOfFile, or Unreadable when the file ends inside a key or a *)
(* value.  A garbled record has no sound header: it, and what follows it,  *)
(* reads as anything.                                                      *)
(***************************************************************************)
ReadFrom(p) ==
  LET n == readers[p].read + 1
  IN  IF n > Len(file[p]) THEN {IF p \in torn THEN Unreadable ELSE EndOfFile}
      ELSE IF \A i \in 1 .. n : file[p][i].intact THEN {file[p][n].rev}
      ELSE Unreadable .. MaxRec

(* read_from(reader)?: an error is the end of Store::new, by expect() *)
Advance(p) ==
  \E r \in ReadFrom(p) :
    /\ readers' = [readers EXCEPT ![p] = [read |-> @.read + 1, next |-> r]]
    /\ phase' = IF r = Unreadable THEN "panicked" ELSE phase

(* There is a file with something in it; of an empty one nothing is read. *)
Exists(p) == file[p] # <<>> \/ p \in torn

OpenFile(p) ==
  /\ phase = "loading"
  /\ Exists(p)
  /\ readers[p].read = 0
  /\ Advance(p)
  /\ UNCHANGED <<appendVars, to_write, tokens, is_writing, worker, file, synced, fsyncFailed,
                 acked, broken,
                 torn, replayed, restored>>

AllOpen == \A p \in Prefixes : Exists(p) => readers[p].read > 0

(* The files with a record in the heap, and the heap's smallest. *)
InHeap == {p \in Prefixes : readers[p].next > 0}

(* A plausible bug: the files read one after the other, in any order. *)
IsSmallestOfFile(p) == p \in InHeap

IsSmallest(p) == p \in InHeap /\ \A q \in InHeap : readers[p].next <= readers[q].next

(* Store::new's closure: store.set makes a future, which is dropped before it
   has run. *)
OnEntry(r) == UNCHANGED restored

(* on_entry(rec), then read the next record of the same file *)
ReplayRecord(p) ==
  /\ phase = "loading"
  /\ AllOpen
  /\ IsSmallest(p)
  /\ replayed' = Append(replayed, readers[p].next)
  /\ OnEntry(readers[p].next)
  /\ Advance(p)
  /\ UNCHANGED <<appendVars, to_write, tokens, is_writing, worker, file, synced, fsyncFailed,
                 acked, broken,
                 torn>>

ReplayDone ==
  /\ phase = "loading"
  /\ AllOpen
  /\ InHeap = {}
  /\ phase' = "loaded"
  /\ UNCHANGED <<appendVars, to_write, tokens, is_writing, worker, file, synced, fsyncFailed,
                 acked, broken,
                 torn, readers, replayed, restored>>

WorkerStep(t) ==
  \/ TakeToken(t)
  \/ CheckWork(t)
  \/ Acquire(t)
  \/ Collect(t)
  \/ Write(t)
  \/ Fsync(t) \/ FsyncFails(t)
  \/ Notify(t)
  \/ Release(t)
  \/ Recheck(t)

Next ==
  \/ \E p \in Prefixes : AppendSkipped(p) \/ AppendRecord(p)
  \/ AppendToken
  \/ \E t \in Workers : WorkerStep(t) \/ WriteFails(t)
  \/ Crash
  \/ \E p \in Prefixes : OpenFile(p) \/ ReplayRecord(p)
  \/ ReplayDone

Spec == Init /\ [][Next]_vars

(***************************************************************************)
(* The notify thread finishes an append and every writer thread keeps      *)
(* being scheduled.  A worker delayed by 500us between computing its       *)
(* deadline and checking it writes an empty batch and sends the token      *)
(* again: strong fairness of Collect says that this does not go on for     *)
(* ever.                                                                   *)
(***************************************************************************)
Fairness ==
  /\ WF_vars(AppendToken)
  /\ \A t \in Workers : WF_vars(WorkerStep(t)) /\ SF_vars(Collect(t))

LiveSpec == Spec /\ Fairness

-------------------------------------------------------------------------------
(***************************************************************************)
(* Properties.                                                             *)
(***************************************************************************)
Revs == 1 .. MaxRec

(* The worker is inside write_locked or has not yet released the flag. *)
Writing(t, p) ==
  worker[t].prefix = p /\ worker[t].at \in {"collect", "written", "synced", "release", "dead"}

(* At most one worker writes a prefix's file at a time, and the flag says so. *)
OneWriter ==
  \A p \in Prefixes :
    /\ \A t, u \in Workers : Writing(t, p) /\ Writing(u, p) => t = u
    /\ is_writing[p] <=> \E t \in Workers : Writing(t, p)

(* Someone is going to look at prefix p's queue; a dead thread does not. *)
Attended(p) ==
  \/ appending = p
  \/ \E i \in 1 .. Len(tokens) : tokens[i] = p
  \/ \E t \in Workers : worker[t].prefix = p /\ worker[t].at \notin {"recv", "dead"}

(***************************************************************************)
(* No lost wake-up: as long as a prefix has records to write there is a    *)
(* token for it, or a living worker that has yet to look at the queue.     *)
(* Workers drop tokens when they see an empty queue or a set flag, so this *)
(* depends on the order of enqueue and token, and of release and re-check. *)
(* A prefix whose writer thread panicked is excepted: its flag stays set,  *)
(* every later token is dropped and nobody ever looks at its queue again.  *)
(***************************************************************************)
NoLostWakeup ==
  phase = "up" => \A p \in Prefixes \ broken : to_write[p] # <<>> => Attended(p)

(* The records of prefix p that were written or are being written, and wait. *)
InFile(p) == [i \in 1 .. Len(file[p]) |-> file[p][i].rev]
InBatch(p) ==
  LET W == {t \in Workers : worker[t].prefix = p /\ worker[t].at = "collect"}
  IN  IF W = {} THEN <<>> ELSE worker[CHOOSE t \in W : TRUE].batch

Increasing(s) == \A i, j \in 1 .. Len(s) : i < j => s[i] < s[j]

(***************************************************************************)
(* File order is revision order, and nothing is lost or written twice:     *)
(* unless a writer thread has died, a prefix's file, the batch in hand and *)
(* the queue are together exactly its appended revisions in order.         *)
(***************************************************************************)
FileInRevOrder ==
  phase = "up" => \A p \in Prefixes : Persisted(p) /\ p \notin broken =>
    LET s == InFile(p) \o InBatch(p) \o to_write[p]
    IN  /\ Increasing(s)
        /\ {s[i] : i \in 1 .. Len(s)} = {r \in 1 .. rev : prefixOf[r] = p}

(* No record of prefix p's file was garbled on its way there. *)
Sound(p) == \A i \in 1 .. Len(file[p]) : file[p][i].intact

(***************************************************************************)
(* fsync mode: a put completes only after its record has been written and  *)
(* fsync called on it.  So no crash takes the record of a completed put    *)
(* back, as long as no fsync of its file has failed, which the code does   *)
(* not notice, and no record of its file was garbled.                      *)
(***************************************************************************)
AckedIsOnDisk ==
  \A r \in acked :
    LET p == prefixOf[r]
    IN  p \notin fsyncFailed /\ Sound(p) =>
          \E i \in 1 .. synced[p] : i <= Len(file[p]) /\ file[p][i] = [rev |-> r, intact |-> TRUE]

AllIntact == \A p \in Prefixes : Sound(p)

(***************************************************************************)
(* load_wal_dir merges sound files in revision order and replays all that  *)
(* survived the crash.                                                     *)
(***************************************************************************)
ReplayInRevOrder ==
  AllIntact =>
    /\ Increasing(replayed)
    /\ phase = "loaded" =>
         {replayed[i] : i \in 1 .. Len(replayed)} =
           UNION {{file[p][i].rev : i \in 1 .. Len(file[p])} : p \in Prefixes}

Written(r) == \E i \in 1 .. Len(file[prefixOf[r]]) : file[prefixOf[r]][i].rev = r

(* Every thread of the pool has panicked. *)
PoolIsDead == \A t \in Workers : worker[t].at = "dead"

(***************************************************************************)
(* Every appended record of a persisted prefix is written in the end,      *)
(* although workers drop tokens, unless a crash or a failed write of the   *)
(* same prefix comes first, or failed writes of other prefixes have killed *)
(* the whole pool, which nothing starts again.                             *)
(***************************************************************************)
EventuallyWritten ==
  \A r \in Revs :
    (r <= rev /\ Persisted(prefixOf[r])) ~>
      (phase # "up" \/ PoolIsDead \/ (r <= rev /\ (Written(r) \/ prefixOf[r] \in broken)))

(***************************************************************************)
(* What RUNNING.adoc says of fsync mode and of prefixes that are not       *)
(* written: the put completes.  In Sync mode Store::set waits until its    *)
(* revision is in acked.                                                   *)
(***************************************************************************)
PutCompletes == \A r \in Revs : (Mode = "Sync" /\ r <= rev) ~> r \in acked

(***************************************************************************)
(* What RUNNING.adoc says of the WAL: "if the mem_etcd exits or crashes,   *)
(* it can be recovered by replaying the log".  As long as no record was    *)
(* garbled on its way to the file, a boot takes over every revision whose  *)
(* put had completed.                                                      *)
(***************************************************************************)
CrashRecovers ==
  AllIntact /\ phase \in {"loaded", "panicked"} => acked \subseteq restored

===============================================================================
