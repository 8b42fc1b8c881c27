--------------------------------- MODULE Store ---------------------------------
(***************************************************************************)
(* mem_etcd/src/store.rs: the multi-version store under concurrent         *)
(* requests.  tree_map leads set to a key's item, prefix_map leads range   *)
(* to it, an item holds the revisions of its key and its latest value, and *)
(* values_by_revision holds the value of every revision.                   *)
(*                                                                         *)
(* A request is split where it lets others in: at each load of the two     *)
(* counters behind current_revision (see BlockDeque), at the lookup in     *)
(* tree_map, at the item's lock, at the push, and at the two insertions of *)
(* a new item.  values_by_revision is the log of RevisionLog, with         *)
(* compaction in the two steps of remove_before.  Watchers and the WAL,    *)
(* which set calls last, are in NotifyThread and Wal.                      *)
(*                                                                         *)
(* Keys are the keys of one prefix; KeyRange says which of them a range    *)
(* visits.  A Value is its revisions, its version and whether it is live   *)
(* (Some) or a deletion (None).                                            *)
(***************************************************************************)
EXTENDS Integers, FiniteSetsExt

CONSTANTS
  Clients,    \* tasks serving a request each
  Keys,       \* the keys of the prefix, ordered as its btree orders them
  Requests,   \* the requests clients send
  MaxRev,     \* bound: how many revisions a behaviour contains
  None

ASSUME StoreKeysAssumption == Keys \subseteq Nat /\ IsFiniteSet(Keys)
ASSUME StoreClientsAssumption == IsFiniteSet(Clients) /\ None \notin Clients /\ None \notin Nat
ASSUME StoreMaxRevAssumption == MaxRev \in Nat \ {0}

VARIABLES
  tree_map,       \* the item of each key, as set finds it
  prefix_map,     \* the item of each key, as range finds it
  items,          \* the items, each named by the revision that created it
  values,         \* values_by_revision: the value set for each revision
  start_offset,   \* values_by_revision.start_offset
  length,         \* values_by_revision.length
  removing,       \* remove_before's argument between its two stores
  op,             \* the request each client has in progress
  log             \* history: key, item, requirement and value of each revision

storeVars == <<tree_map, prefix_map, items, values, start_offset, length, removing, log>>
vars == <<storeVars, op>>

Revs == 1 .. MaxRev

NoValue == [create_revision |-> 0, mod_revision |-> 0, version |-> 0, live |-> FALSE]
NoItem == [revisions |-> {}, latest_value |-> NoValue, writer |-> None]
NoRequest == [kind |-> "none"]
NoKeys == [k \in Keys |-> 0]
Idle == [at |-> "idle", req |-> NoRequest, len |-> 0, latest_rev |-> 0, item |-> 0, rev |-> 0,
         left |-> {}, got |-> NoKeys, count |-> 0, result |-> "none",
         reached |-> FALSE, seen |-> NoKeys, offset |-> 0]   \* history

(* The requests: set (delete is set without a value), range, compact and
   current_revision.  A requirement of -1 is none; limit.unwrap_or(usize::MAX). *)
SetRequest(key, del, last, version) ==
  [kind |-> "set", key |-> key, del |-> del, last |-> last, version |-> version]
RangeRequest(keys, bounds, rev, limit) ==
  [kind |-> "range", keys |-> keys, bounds |-> bounds, rev |-> rev, limit |-> limit]
CompactRequest(rev) == [kind |-> "compact", rev |-> rev]
RevisionRequest == [kind |-> "revision"]

(* What the types of Store's methods say of their arguments. *)
SetRequests == [kind : {"set"}, key : Keys, del : BOOLEAN, last : Int, version : Int]
RangeRequests == [kind : {"range"}, keys : SUBSET Keys, bounds : {"ok", "inverted", "rejected"},
                  rev : Int, limit : Nat]
CompactRequests == [kind : {"compact"}, rev : Int]

ASSUME StoreRequestsAssumption ==
  Requests \subseteq SetRequests \union RangeRequests \union CompactRequests
                      \union {RevisionRequest}

Unlimited == Cardinality(Keys) + 1

(* main.rs sets the key "~", outside every prefix, before serving. *)
Init ==
  /\ tree_map = [k \in Keys |-> None]
  /\ prefix_map = [k \in Keys |-> None]
  /\ items = [i \in Revs |-> NoItem]
  /\ values = [r \in Revs |-> IF r = 1 THEN [create_revision |-> 1, mod_revision |-> 1,
                                             version |-> 1, live |-> TRUE]
                                       ELSE NoValue]
  /\ start_offset = 0
  /\ length = 1
  /\ removing = None
  /\ op = [c \in Clients |-> Idle]
  /\ log = [r \in Revs |-> [key |-> None, item |-> 0, last |-> -1, version |-> -1,
                            value |-> NoValue]]

(* How many revisions have been assigned. *)
Assigned == start_offset + length + (IF removing = None THEN 0 ELSE removing - start_offset)

(* set calls that may still push *)
MayPush == {c \in Clients : op[c].at \in {"begun", "found", "create"} /\ op[c].req.kind = "set"}

(* c's request is answered, and its temporaries are gone. *)
Finish(c, result) ==
  op' = [op EXCEPT ![c] = [@ EXCEPT !.at = "done", !.result = result, !.item = 0, !.left = {}]]

(* A set or compact past its checks: only its request, item and revision
   matter, and what its answer owes (history). *)
Proceed(c, at, result, rev) ==
  op' = [op EXCEPT ![c] = [Idle EXCEPT !.at = at, !.req = op[c].req, !.result = result,
                                       !.item = IF at = "done" THEN 0 ELSE op[c].item,
                                       !.rev = rev, !.seen = op[c].seen]]

(* History: the newest revision that has been answered, of each key that the
   answer to a request will speak of. *)
Unanswered == {op[c].rev : c \in {d \in Clients : op[d].at \in {"pushed", "created", "prefixed"}}}
Answered(k) == Max({r \in Revs : log[r].key = k /\ r \notin Unanswered} \union {0})
SpokenOf(req) ==
  CASE req.kind = "set" -> {req.key}
    [] req.kind = "range" -> IF req.rev = 0 THEN req.keys ELSE {}
    [] req.kind = "compact" -> {}
    [] OTHER -> Keys
Seen(req) == [k \in Keys |-> IF removing = None /\ k \in SpokenOf(req) THEN Answered(k) ELSE 0]

(* current_revision(), first load, on the way into every request *)
Begin(c, req) ==
  /\ op[c].at = "idle"
  /\ req.kind = "set" => Assigned + Cardinality(MayPush) < MaxRev
  /\ op' = [op EXCEPT ![c] = [Idle EXCEPT !.at = "begun", !.req = req, !.len = length,
                                          !.seen = Seen(req),
                                          !.offset = start_offset]]
  /\ UNCHANGED storeVars

(* current_revision(), second load.  What the request owes is forgotten if a
   truncation was under way during the loads (history). *)
Latest(c) == op[c].len + start_offset
Loaded(c) == [op[c] EXCEPT !.latest_rev = Latest(c), !.len = 0, !.offset = 0,
                           !.seen = IF op[c].offset = start_offset THEN @ ELSE NoKeys]

(* current_revision() by itself *)
ReadRevision(c) ==
  /\ op[c].at = "begun"
  /\ op[c].req.kind = "revision"
  /\ op' = [op EXCEPT ![c] = [Loaded(c) EXCEPT !.at = "done", !.result = "ok"]]
  /\ UNCHANGED storeVars

(***************************************************************************)
(* set (and delete, which is set without a value).                         *)
(***************************************************************************)
Mismatch(required, actual) == required >= 0 /\ required # actual

(* Something other than absence is required, or an absent key deleted. *)
NeedsItem(req) == req.last > 0 \/ req.version > 0 \/ req.del

(* tree_map.get(&key) *)
SetLookup(c) ==
  LET req == op[c].req
      i   == tree_map[req.key]
  IN  /\ op[c].at = "begun"
      /\ req.kind = "set"
      /\ op' = [op EXCEPT ![c] =
                  [Loaded(c) EXCEPT
                     !.item = IF i = None THEN 0 ELSE i,
                     !.at = IF i # None THEN "found"
                            ELSE IF NeedsItem(req) THEN "done" ELSE "create",
                     !.result = IF i = None /\ NeedsItem(req) THEN "err" ELSE @]]
      /\ UNCHANGED storeVars

(* values_by_revision.push: blocked while remove_before has the lock *)
PushRevision(c) ==
  /\ removing = None
  /\ length' = length + 1
  /\ log' = [log EXCEPT ![Assigned + 1] =
               [key     |-> op[c].req.key,
                item    |-> IF op[c].at = "found" THEN op[c].item ELSE Assigned + 1,
                last    |-> op[c].req.last,
                version |-> op[c].req.version,
                value   |-> NoValue]]

Refused(req, v) ==
  IF v.live THEN Mismatch(req.last, v.mod_revision) \/ Mismatch(req.version, v.version)
            ELSE NeedsItem(req)

(* Under the item's write lock: the comparison fails. *)
SetRefused(c) ==
  LET v == items[op[c].item].latest_value
  IN  /\ op[c].at = "found"
      /\ items[op[c].item].writer = None
      /\ Refused(op[c].req, v)
      /\ op' = [op EXCEPT ![c] = [@ EXCEPT !.at = "done", !.result = "err", !.item = 0,
                                            !.rev = IF v.live THEN v.mod_revision ELSE 0]]
      /\ UNCHANGED storeVars

(* A plausible bug: comparing before the item's write lock is taken. *)
SetPushUnlocked(c) ==
  LET i == op[c].item
  IN  /\ op[c].at = "found"
      /\ ~Refused(op[c].req, items[i].latest_value)
      /\ PushRevision(c)
      /\ Proceed(c, "pushed", "none", Assigned + 1)
      /\ UNCHANGED <<tree_map, prefix_map, items, values, start_offset, removing>>

(***************************************************************************)
(* Under the item's write lock: compare, forget compacted revisions, push. *)
(***************************************************************************)
SetPush(c) ==
  LET i == op[c].item
  IN  /\ op[c].at = "found"
      /\ items[i].writer = None
      /\ ~Refused(op[c].req, items[i].latest_value)
      /\ items' = [items EXCEPT ![i].writer = c,
                                ![i].revisions = {r \in @ : r >= start_offset}]
      /\ PushRevision(c)
      /\ Proceed(c, "pushed", "none", Assigned + 1)
      /\ UNCHANGED <<tree_map, prefix_map, values, start_offset, removing>>

(* A plausible bug: a re-creation that continues the deleted key's version. *)
SuccessorOfDeleted(v, rev, live) ==
  [create_revision |-> IF v.live THEN v.create_revision ELSE rev,
   mod_revision    |-> rev,
   version         |-> v.version + 1,
   live            |-> live]

(* The value that follows v: an update keeps the creation, a re-creation not. *)
Successor(v, rev, live) ==
  [create_revision |-> IF v.live THEN v.create_revision ELSE rev,
   mod_revision    |-> rev,
   version         |-> IF v.live THEN v.version + 1 ELSE 1,
   live            |-> live]

(* values_by_revision.set: no effect on a revision compacted meanwhile *)
SetValue(rev, v) ==
  /\ removing = None
  /\ values' = IF rev - 1 >= start_offset THEN [values EXCEPT ![rev] = v] ELSE values
  /\ log' = [log EXCEPT ![rev].value = v]

(* Set the value, record the revision, drop the item's lock. *)
SetStore(c) ==
  LET i   == op[c].item
      rev == op[c].rev
      v   == Successor(items[i].latest_value, rev, ~op[c].req.del)
  IN  /\ op[c].at = "pushed"
      /\ SetValue(rev, v)
      /\ items' = [items EXCEPT ![i] = [revisions    |-> @.revisions \union {rev},
                                        latest_value |-> v,
                                        writer       |-> None]]
      /\ Proceed(c, "done", "ok", op[c].rev)
      /\ UNCHANGED <<tree_map, prefix_map, start_offset, length, removing>>

(* The key was absent when tree_map was read: push without any lock. *)
CreatePush(c) ==
  /\ op[c].at = "create"
  /\ PushRevision(c)
  /\ Proceed(c, "created", "none", Assigned + 1)
  /\ UNCHANGED <<tree_map, prefix_map, items, values, start_offset, removing>>

(* A range request holds a reference into prefix_map while it iterates. *)
Scanning == \E c \in Clients : op[c].at = "scan"

(* A plausible bug: a new item that only tree_map is told of. *)
CreateUnlisted(c) ==
  LET rev == op[c].rev
      v   == Successor(NoValue, rev, TRUE)
  IN  /\ op[c].at = "created"
      /\ ~Scanning
      /\ SetValue(rev, v)
      /\ items' = [items EXCEPT ![rev] = [revisions |-> {rev}, latest_value |-> v, writer |-> None]]
      /\ op' = [op EXCEPT ![c].at = "prefixed"]
      /\ UNCHANGED <<tree_map, prefix_map, start_offset, length, removing>>

CreatePrefix(c) ==
  LET rev == op[c].rev
      v   == Successor(NoValue, rev, TRUE)
  IN  /\ op[c].at = "created"
      /\ ~Scanning
      /\ SetValue(rev, v)
      /\ items' = [items EXCEPT ![rev] = [revisions |-> {rev}, latest_value |-> v, writer |-> None]]
      /\ prefix_map' = [prefix_map EXCEPT ![op[c].req.key] = rev]
      /\ op' = [op EXCEPT ![c].at = "prefixed"]
      /\ UNCHANGED <<tree_map, start_offset, length, removing>>

CreateTree(c) ==
  /\ op[c].at = "prefixed"
  /\ tree_map' = [tree_map EXCEPT ![op[c].req.key] = op[c].rev]
  /\ Proceed(c, "done", "ok", op[c].rev)
  /\ UNCHANGED <<prefix_map, items, values, start_offset, length, removing, log>>

(***************************************************************************)
(* range, at a revision or (0) at the latest one, up to a limit.           *)
(***************************************************************************)
RangeRevision(o) == IF o.req.rev = 0 THEN o.latest_rev ELSE o.req.rev

(* The revision is a future or a compacted one, or the keys span two maps. *)
RangeInvalid(c) ==
  \/ op[c].req.rev > Latest(c)
  \/ op[c].req.rev > 0 /\ op[c].req.rev <= start_offset
  \/ op[c].req.bounds = "rejected"

(* The checks, then a reference to the prefix's btree, if there is one. *)
RangeLookup(c) ==
  LET panics == op[c].req.bounds = "inverted" /\ \E k \in Keys : prefix_map[k] # None
  IN  /\ op[c].at = "begun"
      /\ op[c].req.kind = "range"
      /\ op' = [op EXCEPT ![c] =
                  [Loaded(c) EXCEPT
                     !.at = IF RangeInvalid(c) \/ panics THEN "done" ELSE "scan",
                     !.result = IF RangeInvalid(c) THEN "err" ELSE IF panics THEN "panic" ELSE @,
                     !.reached = RangeRevision(Loaded(c)) <= Assigned,
                     !.left = {k \in op[c].req.keys : prefix_map[k] # None}]]
      /\ UNCHANGED storeVars

(* values_by_revision.get: nothing below start_offset *)
Get(r) == IF r - 1 >= start_offset THEN values[r] ELSE NoValue

(* A plausible bug: a binary search that lands one revision too far. *)
FindAfter(item, rev) ==
  IF rev >= item.latest_value.mod_revision THEN item.latest_value
  ELSE LET later == {r \in item.revisions : r >= rev}
       IN  IF later = {} THEN NoValue ELSE Get(Min(later))

(* find_value_for_revision: the newest value at or below rev *)
FindValue(item, rev) ==
  IF rev >= item.latest_value.mod_revision THEN item.latest_value
  ELSE LET upTo == {r \in item.revisions : r <= rev}
       IN  IF upTo = {} THEN NoValue ELSE Get(Max(upTo))

(* A plausible bug: past the limit nothing is looked at any more. *)
PastLimitEarly(c) == op[c].count >= op[c].req.limit

(* Past the limit everything counts, deleted or not. *)
PastLimit(c) == op[c].count > op[c].req.limit

IsNext(c, k) == k \in op[c].left /\ \A l \in op[c].left : k <= l

RangeSkip(c) ==
  /\ op[c].at = "scan"
  /\ PastLimit(c)
  /\ \E k \in Keys :
       /\ IsNext(c, k)
       /\ op' = [op EXCEPT ![c].left = @ \ {k}, ![c].count = @ + 1]
  /\ UNCHANGED storeVars

(* The next item of the btree, under its read lock: find_value_for_revision,
   or has_value_for_revision when the limit is reached. *)
RangeItem(c) ==
  /\ op[c].at = "scan"
  /\ ~PastLimit(c)
  /\ \E k \in Keys :
       LET item == items[prefix_map[k]]
           v    == FindValue(item, RangeRevision(op[c]))
       IN  /\ IsNext(c, k)
           /\ item.writer = None
           /\ RangeRevision(op[c]) < item.latest_value.mod_revision => removing = None
           /\ IF RangeRevision(op[c]) <= 0
              THEN Finish(c, "panic")   \* assert!(rev > 0)
              ELSE op' = [op EXCEPT ![c].left = @ \ {k},
                                    ![c].count = IF v.live THEN @ + 1 ELSE @,
                                    ![c].got[k] = IF v.live /\ op[c].count < op[c].req.limit
                                                  THEN v.mod_revision ELSE 0]
  /\ UNCHANGED storeVars

RangeDone(c) ==
  /\ op[c].at = "scan"
  /\ op[c].left = {}
  /\ Finish(c, "ok")
  /\ UNCHANGED storeVars

(***************************************************************************)
(* compact(rev): remove_before(rev - 1).                                   *)
(***************************************************************************)
(* A plausible bug: taking the index for a count of elements. *)
ShortenedFromZero(i) == length - i

(* length without the indices below i *)
Shortened(i) == length - (i - start_offset)

CompactStart(c) ==
  LET rev == op[c].req.rev
  IN  /\ op[c].at = "begun"
      /\ op[c].req.kind = "compact"
      /\ removing = None
      /\ \/ /\ \/ rev < 1
               \/ rev > Latest(c)
               \/ rev - 1 > start_offset + length
               \/ rev - 1 < start_offset
            /\ Proceed(c, "done", "err", 0)
            /\ UNCHANGED <<length, removing>>
         \/ /\ rev >= 1
            /\ rev <= Latest(c)
            /\ rev - 1 <= start_offset + length
            /\ rev - 1 >= start_offset
            /\ length' = Shortened(rev - 1)
            /\ removing' = rev - 1
            /\ Proceed(c, "compacting", "none", 0)
  /\ UNCHANGED <<tree_map, prefix_map, items, values, start_offset, log>>

CompactFinish(c) ==
  /\ op[c].at = "compacting"
  /\ start_offset' = removing
  /\ removing' = None
  /\ Proceed(c, "done", "ok", 0)
  /\ UNCHANGED <<tree_map, prefix_map, items, values, length, log>>

(* The answer is sent. *)
Return(c) ==
  /\ op[c].at = "done"
  /\ op' = [op EXCEPT ![c] = Idle]
  /\ UNCHANGED storeVars

StoreStep(c) ==
  \/ ReadRevision(c)
  \/ SetLookup(c)
  \/ SetRefused(c)
  \/ SetPush(c)
  \/ SetStore(c)
  \/ CreatePush(c)
  \/ CreatePrefix(c)
  \/ CreateTree(c)
  \/ RangeLookup(c)
  \/ RangeSkip(c)
  \/ RangeItem(c)
  \/ RangeDone(c)
  \/ CompactStart(c)
  \/ CompactFinish(c)
  \/ Return(c)

Next == \E c \in Clients : StoreStep(c) \/ \E req \in Requests : Begin(c, req)

Spec == Init /\ [][Next]_vars

-------------------------------------------------------------------------------
(***************************************************************************)
(* Properties.                                                             *)
(***************************************************************************)
Published(r) == log[r].value.mod_revision = r

(* The revisions of item i, and of key k, that are visible or about to be. *)
OfItem(i) == {r \in Revs : log[r].item = i}
OfKey(k) == {r \in Revs : log[r].key = k}

(* The newest revision in S below or at r; 0 if there is none. *)
NewestUpTo(S, r) == Max({q \in S : q <= r} \union {0})

Deleted(r) == r = 0 \/ ~log[r].value.live

(***************************************************************************)
(* The version of a live value is the number of revisions of its item      *)
(* since it was last created, and create_revision is the first of them,    *)
(* however the sets of one key interleave with each other and with         *)
(* compaction.                                                             *)
(***************************************************************************)
VersionsCount ==
  \A r \in Revs : Published(r) /\ log[r].value.live /\ log[r].item # 0 =>
    LET mine == OfItem(log[r].item)
        dead == NewestUpTo({q \in mine : Published(q) /\ ~log[q].value.live}, r)
        life == {q \in mine : q > dead /\ q <= r}
    IN  /\ log[r].value.version = Cardinality(life)
        /\ log[r].value.create_revision = Min(life)

(***************************************************************************)
(* Compare-and-set is atomic per item: a set that required a revision (or  *)
(* a version) replaced a value with exactly that revision (or version).    *)
(***************************************************************************)
CompareIsAtomic ==
  \A r \in Revs : Published(r) /\ log[r].item # 0 =>
    LET prev == NewestUpTo(OfItem(log[r].item), r - 1)
    IN  /\ log[r].last > 0 => prev = log[r].last /\ ~Deleted(prev)
        /\ log[r].version > 0 => ~Deleted(prev) /\ log[prev].value.version = log[r].version
        /\ log[r].last = 0 \/ log[r].version = 0 => Deleted(prev)

(* The newest revision, up to that of c's range, of the item range finds for k. *)
NewestOf(c, k) == NewestUpTo(OfItem(prefix_map[k]), RangeRevision(op[c]))

(***************************************************************************)
(* For every item it reads, a range at a revision that has been reached    *)
(* finds the newest revision of that item up to it, or nothing at all if   *)
(* that one is a deletion or compacted, or if the page is full; never an   *)
(* older or a newer one, although sets of the same keys go on while it     *)
(* iterates.                                                               *)
(***************************************************************************)
RangeReadsItems ==
  \A c \in Clients : op[c].at = "scan" /\ op[c].reached =>
    \A k \in op[c].req.keys : prefix_map[k] # None /\ k \notin op[c].left =>
      \/ op[c].got[k] = NewestOf(c, k)
      \/ /\ op[c].got[k] = 0
         /\ \/ Deleted(NewestOf(c, k))
            \/ NewestOf(c, k) <= start_offset
            \/ Cardinality({l \in Keys : l < k /\ op[c].got[l] # 0}) = op[c].req.limit

(***************************************************************************)
(* What Store::set says of required_last_revision 0: "it only works if the *)
(* key does not exist or was previously deleted".                          *)
(***************************************************************************)
CreateNeedsAbsence ==
  \A r \in Revs : Published(r) /\ log[r].last = 0 =>
    Deleted(NewestUpTo({q \in OfKey(log[r].key) : Published(q)}, r - 1))

(***************************************************************************)
(* What rpc.proto says of a range: its revision "is the point-in-time of   *)
(* the key-value store to use for the range" (and header.revision "the     *)
(* key-value store revision when the request was applied").  At a revision *)
(* that is not compacted, range returns the newest live revision up to it  *)
(* of every key.                                                           *)
(***************************************************************************)
RangeIsSnapshot ==
  \A c \in Clients :
    (/\ op[c].at = "done" /\ op[c].req.kind = "range" /\ op[c].result = "ok"
     /\ op[c].reached
     /\ op[c].req.limit = Unlimited
     /\ RangeRevision(op[c]) > start_offset) =>
      \A k \in op[c].req.keys :
        LET newest == NewestUpTo({r \in OfKey(k) : Published(r)}, RangeRevision(op[c]))
        IN  op[c].got[k] = IF Deleted(newest) THEN 0 ELSE newest

===============================================================================
