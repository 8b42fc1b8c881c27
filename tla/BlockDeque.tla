------------------------------ MODULE BlockDeque ------------------------------
(***************************************************************************)
(* mem_etcd/src/block_deque.rs: a concurrent, block-based, append-only     *)
(* array.  Store keeps the value of revision r at index r - 1.             *)
(*                                                                         *)
(* The blocks are behind an RwLock.  length and start_offset are atomics   *)
(* that latest_revision reads without that lock, so push and remove_before *)
(* are split at every change of them, and otherwise where they take or     *)
(* drop the lock.  A panic under the write lock poisons it: from then on   *)
(* every .read().unwrap() and .write().unwrap() panics.                    *)
(*                                                                         *)
(* A stored Value is modelled by its mod_revision: 0 in the placeholder    *)
(* that Store::set pushes, index + 1 in the value it sets afterwards.      *)
(***************************************************************************)
EXTENDS Integers, Sequences

CONSTANTS
  Threads,      \* tasks that call push, set and remove_before
  Readers,      \* tasks that call latest_revision
  BLOCK_SIZE,   \* slots per block (1048576 in Store)
  MaxPush,      \* bound: how many pushes a behaviour contains
  None          \* an empty slot; also "no thread" and "no index"

ASSUME BlockSizeAssumption == BLOCK_SIZE \in Nat \ {0}
ASSUME MaxPushAssumption == MaxPush \in Nat
ASSUME NoneAssumption == None \notin Int /\ None \notin Threads

VARIABLES
  blocks,         \* Vec of blocks, each [0 .. BLOCK_SIZE - 1 -> slot]
  start_offset,   \* AtomicUsize
  length,         \* AtomicUsize
  readers,        \* threads inside a read-locked section of push
  remover,        \* the thread inside remove_before's write-locked section
  target,         \* remove_before's argument idx, while remover is inside
  poisoned,       \* the RwLock is poisoned
  pc,             \* where each thread is in Store::set's push and set
  index,          \* the index push gave to each thread
  reader,         \* latest_revision in progress, per reader
  pushed          \* history: how many pushes have been given an index

dequeVars == <<blocks, start_offset, length, readers, remover, target, poisoned>>
vars == <<dequeVars, pc, index, reader, pushed>>

Slots == {None} \union Nat

EmptyBlock == [o \in 0 .. BLOCK_SIZE - 1 |-> None]

(* A call of latest_revision: its loads, and history to judge it by: the   *)
(* number of pushes, start_offset and whether no truncation was under way  *)
(* when it loaded length.                                                  *)
Calls == [at : {"idle", "length", "done"}, length : Nat, saw : Nat, result : Nat,
          since : Nat, offset : Nat, quiet : BOOLEAN]
NoCall == [at |-> "idle", length |-> 0, saw |-> 0, result |-> 0,
           since |-> 0, offset |-> 0, quiet |-> FALSE]

Init ==
  /\ blocks = <<>>
  /\ start_offset = 0
  /\ length = 0
  /\ readers = {}
  /\ remover = None
  /\ target = None
  /\ poisoned = FALSE
  /\ pc = [t \in Threads |-> "idle"]
  /\ index = [t \in Threads |-> 0]
  /\ reader = [r \in Readers |-> NoCall]
  /\ pushed = 0

(***************************************************************************)
(* The RwLock.                                                             *)
(***************************************************************************)
CanRead == remover = None /\ ~poisoned
CanWrite == CanRead /\ readers = {}

(* The position of index i in blocks; -1 and below is usize underflow. *)
BlockIndex(i) == (i \div BLOCK_SIZE) - (start_offset \div BLOCK_SIZE)

(* blocks with slot i holding v *)
WithSlot(bs, i, v) ==
  [bs EXCEPT ![BlockIndex(i) + 1][i % BLOCK_SIZE] = v]

InRange(i) == i < length + start_offset /\ i >= start_offset

(* A plausible bug: taking the index before the read lock, as if length and *)
(* start_offset were updated together.                                      *)
PushReserveUnlocked(t) ==
  /\ pc[t] = "idle"
  /\ pushed < MaxPush
  /\ readers' = readers \union {t}
  /\ index' = [index EXCEPT ![t] = length + start_offset]
  /\ length' = length + 1
  /\ pushed' = pushed + 1
  /\ pc' = [pc EXCEPT ![t] = "reserved"]
  /\ UNCHANGED <<blocks, start_offset, remover, target, poisoned, reader>>

(***************************************************************************)
(* push, first half: under the read lock, take the next index.             *)
(***************************************************************************)
PushReserve(t) ==
  /\ pc[t] = "idle"
  /\ pushed < MaxPush
  /\ CanRead
  /\ readers' = readers \union {t}
  /\ index' = [index EXCEPT ![t] = length + start_offset]
  /\ length' = length + 1
  /\ pushed' = pushed + 1
  /\ pc' = [pc EXCEPT ![t] = "reserved"]
  /\ UNCHANGED <<blocks, start_offset, remover, target, poisoned, reader>>

(* Still under the read lock: the block exists, so fill its slot. *)
PushStore(t) ==
  /\ pc[t] = "reserved"
  /\ BlockIndex(index[t]) < Len(blocks)
  /\ blocks' = WithSlot(blocks, index[t], 0)
  /\ readers' = readers \ {t}
  /\ pc' = [pc EXCEPT ![t] = "placed"]
  /\ UNCHANGED <<start_offset, length, remover, target, poisoned, index, reader, pushed>>

(* There is no block yet: drop the read lock and queue for the write lock. *)
PushMiss(t) ==
  /\ pc[t] = "reserved"
  /\ BlockIndex(index[t]) >= Len(blocks)
  /\ readers' = readers \ {t}
  /\ pc' = [pc EXCEPT ![t] = "grow"]
  /\ UNCHANGED <<blocks, start_offset, length, remover, target, poisoned, index, reader, pushed>>

(* A plausible bug: forgetting that another pusher grew blocks meanwhile.  *)
GrownBlindly(i) == Append(blocks, EmptyBlock)

(* blocks grown until it has a block for index i *)
Grown(i) ==
  [b \in 1 .. (IF BlockIndex(i) >= Len(blocks) THEN BlockIndex(i) + 1 ELSE Len(blocks)) |->
     IF b <= Len(blocks) THEN blocks[b] ELSE EmptyBlock]

(***************************************************************************)
(* push, second half: under the write lock, allocate what is missing.  If  *)
(* remove_before has moved start_offset past index's block, block_index    *)
(* underflows: a debug build panics, a release build wraps to a huge       *)
(* block_index and allocates until the process dies.  Both end the deque.  *)
(***************************************************************************)
PushGrow(t) ==
  /\ pc[t] = "grow"
  /\ CanWrite
  /\ \/ /\ BlockIndex(index[t]) >= 0
        /\ blocks' = WithSlot(Grown(index[t]), index[t], 0)
        /\ pc' = [pc EXCEPT ![t] = "placed"]
        /\ UNCHANGED poisoned
     \/ /\ BlockIndex(index[t]) < 0
        /\ poisoned' = TRUE
        /\ pc' = [pc EXCEPT ![t] = "idle"]
        /\ UNCHANGED blocks
  /\ UNCHANGED <<start_offset, length, readers, remover, target, index, reader, pushed>>

(* Store::set's second call: replace the placeholder, unless truncated. *)
Set(t) ==
  /\ pc[t] = "placed"
  /\ CanRead
  /\ blocks' = IF InRange(index[t]) THEN WithSlot(blocks, index[t], index[t] + 1) ELSE blocks
  /\ pc' = [pc EXCEPT ![t] = "idle"]
  /\ UNCHANGED <<start_offset, length, readers, remover, target, poisoned, index, reader, pushed>>

(***************************************************************************)
(* get: what a reader of index i is given (get_with(i, clone)).  Called    *)
(* under the read lock; an index in range without a block would panic.     *)
(***************************************************************************)
Allocated(i) == BlockIndex(i) + 1 \in DOMAIN blocks

Get(i) ==
  IF InRange(i) /\ Allocated(i) THEN blocks[BlockIndex(i) + 1][i % BLOCK_SIZE] ELSE None

(* A plausible bug: taking the index for a count of elements. *)
ShortenedFromZero(i) == length - i

(* length without the indices below i *)
Shortened(i) == length - (i - start_offset)

(***************************************************************************)
(* remove_before(i), first half: take the write lock, check the index and  *)
(* subtract from length.  start_offset is still the old one.               *)
(***************************************************************************)
RemoveShorten(t, i) ==
  /\ pc[t] = "idle"
  /\ CanWrite
  /\ i >= start_offset
  /\ i <= start_offset + length
  /\ remover' = t
  /\ target' = i
  /\ length' = Shortened(i)
  /\ UNCHANGED <<blocks, start_offset, readers, poisoned, pc, index, reader, pushed>>

(* How far target lies from the start of the first block. *)
Reach(i) == i - (start_offset - (start_offset % BLOCK_SIZE))

(* A plausible bug: clearing the slot of the first surviving index too. *)
TrimmedTooFar(i) ==
  LET kept == SubSeq(blocks, Reach(i) \div BLOCK_SIZE + 1, Len(blocks))
      to   == Reach(i) % BLOCK_SIZE
  IN  IF kept = <<>> THEN kept
      ELSE [kept EXCEPT ![1] = [o \in DOMAIN @ |-> IF o <= to THEN None ELSE @[o]]]

(* the blocks left by remove_before(i): whole blocks gone, the rest cleared *)
Trimmed(i) ==
  LET kept == SubSeq(blocks, Reach(i) \div BLOCK_SIZE + 1, Len(blocks))
      from == IF Reach(i) >= BLOCK_SIZE THEN 0 ELSE start_offset % BLOCK_SIZE
      to   == Reach(i) % BLOCK_SIZE
  IN  IF to = 0 THEN kept
      ELSE [kept EXCEPT ![1] = [o \in DOMAIN @ |-> IF o >= from /\ o < to THEN None ELSE @[o]]]

(* blocks.remove(0) or first_mut().unwrap() finds no block *)
Underrun(i) ==
  \/ Reach(i) \div BLOCK_SIZE > Len(blocks)
  \/ Reach(i) \div BLOCK_SIZE = Len(blocks) /\ Reach(i) % BLOCK_SIZE > 0

(***************************************************************************)
(* remove_before(i), second half: drop and clear blocks, store             *)
(* start_offset, release the lock; or panic, which leaves length reduced   *)
(* and start_offset old.  What the panic leaves in blocks is never read:   *)
(* every access goes through the poisoned lock.                            *)
(***************************************************************************)
RemoveTrim(t) ==
  /\ remover = t
  /\ ~poisoned
  /\ \/ /\ ~Underrun(target)
        /\ blocks' = Trimmed(target)
        /\ start_offset' = target
        /\ remover' = None
        /\ target' = None
        /\ UNCHANGED poisoned
     \/ /\ Underrun(target)
        /\ poisoned' = TRUE
        /\ UNCHANGED <<blocks, start_offset, remover, target>>
  /\ UNCHANGED <<length, readers, pc, index, reader, pushed>>

(* A task that needs the poisoned lock panics and its request is dropped. *)
PanicOnPoison(t) ==
  /\ poisoned
  /\ pc[t] \in {"grow", "placed"}
  /\ pc' = [pc EXCEPT ![t] = "idle"]
  /\ UNCHANGED <<dequeVars, index, reader, pushed>>

(***************************************************************************)
(* latest_revision: two loads and no lock.                                 *)
(***************************************************************************)
LatestLoadLength(r) ==
  /\ reader[r].at = "idle"
  /\ reader' = [reader EXCEPT ![r] = [at |-> "length", length |-> length, saw |-> 0, result |-> 0,
                                      since |-> pushed, offset |-> start_offset,
                                      quiet |-> (remover = None)]]
  /\ UNCHANGED <<dequeVars, pc, index, pushed>>

LatestLoadOffset(r) ==
  /\ reader[r].at = "length"
  /\ reader' = [reader EXCEPT ![r] = [@ EXCEPT !.at = "done", !.saw = start_offset,
                                             !.result = reader[r].length + start_offset]]
  /\ UNCHANGED <<dequeVars, pc, index, pushed>>

LatestReturn(r) ==
  /\ reader[r].at = "done"
  /\ reader' = [reader EXCEPT ![r] = NoCall]
  /\ UNCHANGED <<dequeVars, pc, index, pushed>>

Next ==
  \/ \E t \in Threads :
       \/ PushReserve(t)
       \/ PushStore(t)
       \/ PushMiss(t)
       \/ PushGrow(t)
       \/ Set(t)
       \/ \E i \in start_offset .. start_offset + length : RemoveShorten(t, i)
       \/ RemoveTrim(t)
       \/ PanicOnPoison(t)
  \/ \E r \in Readers :
       \/ LatestLoadLength(r)
       \/ LatestLoadOffset(r)
       \/ LatestReturn(r)

Spec == Init /\ [][Next]_vars

-------------------------------------------------------------------------------
(***************************************************************************)
(* Properties.                                                             *)
(***************************************************************************)
InFlight(t) == pc[t] # "idle"

(* Types of the deque's fields, the callers' progress and the locks. *)
TypeOK ==
  /\ blocks \in Seq([0 .. BLOCK_SIZE - 1 -> Slots])
  /\ start_offset \in Nat
  /\ length \in Nat
  /\ readers \subseteq Threads
  /\ remover \in Threads \union {None}
  /\ target \in Nat \union {None}
  /\ poisoned \in BOOLEAN
  /\ pc \in [Threads -> {"idle", "reserved", "grow", "placed"}]
  /\ index \in [Threads -> Nat]
  /\ reader \in [Readers -> Calls]
  /\ pushed \in Nat

(* What length still lacks while remove_before is between its two stores. *)
Pending == IF target = None THEN 0 ELSE target - start_offset

(* The number of live indices, as a thread holding the lock knows it. *)
LiveLength == length + Pending

(***************************************************************************)
(* Revisions are dense: whatever pushes and truncations overlap, the index *)
(* the next push is given is the number of pushes before it.  The notify   *)
(* thread waits for next_rev and would stall for ever on a gap.            *)
(***************************************************************************)
DenseRevisions == start_offset + LiveLength = pushed

(***************************************************************************)
(* No two pushes in flight share an index, although one may be reserved    *)
(* while another caller is queueing for the write lock or truncating.      *)
(***************************************************************************)
UniqueRevisions ==
  \A t, u \in Threads : t # u /\ InFlight(t) /\ InFlight(u) => index[t] # index[u]

(***************************************************************************)
(* A revision that was pushed and set and has not been truncated is read   *)
(* back by get, under any overlap of growth by several pushers with        *)
(* remove_before (block_index is recomputed against a moving start).       *)
(***************************************************************************)
StoredIsReadable ==
  ~poisoned /\ target = None =>
    \A i \in start_offset .. start_offset + length - 1 :
      (\A t \in Threads : InFlight(t) => index[t] # i) => Get(i) = i + 1

(***************************************************************************)
(* The deque implements the abstract log: its locks, blocks and half-done  *)
(* truncations show up as nothing but appends, stores and truncations.     *)
(***************************************************************************)
Log == INSTANCE RevisionLog WITH
  first    <- start_offset,
  next     <- start_offset + LiveLength,
  readable <- {i \in start_offset .. start_offset + LiveLength - 1 :
                 Allocated(i) /\ blocks[BlockIndex(i) + 1][i % BLOCK_SIZE] = i + 1}

ImplementsLog == Log!LogSpec

(***************************************************************************)
(* latest_revision is right unless a truncation overlaps it: a call that   *)
(* began with none under way and saw start_offset unchanged returns the    *)
(* number of revisions assigned when it loaded length.  (When one does     *)
(* overlap, the sum may be one that no state ever had.)                    *)
(***************************************************************************)
LatestIsCurrent ==
  \A r \in Readers : reader[r].at = "done" /\ reader[r].quiet /\ reader[r].offset = reader[r].saw =>
    reader[r].result = reader[r].since
===============================================================================
