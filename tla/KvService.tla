------------------------------- MODULE KvService -------------------------------
(***************************************************************************)
(* mem_etcd/src/kv_service.rs and maintenance_service.rs: the calls of the *)
(* etcd API that the server answers from the store, the requests of Store  *)
(* they become, and their answers.                                         *)
(*                                                                         *)
(* A call is checked and translated in the step that starts it; from then  *)
(* on it is a request of Store, and its answer is a function of the        *)
(* finished request.  Values and the wording of errors are left out.       *)
(***************************************************************************)
EXTENDS Store, KeyRange

CONSTANTS
  Calls,     \* the calls clients make
  KeyName    \* the name of each of Store's keys

ASSUME KeyNameAssumption ==
  /\ KeyName \in [Keys -> Names]
  /\ \A k, l \in Keys : /\ PrefixOf(KeyName[k]) = PrefixOf(KeyName[l])
                        /\ k < l <=> Less(KeyName[k], KeyName[l])

ASSUME LimitAssumption == \A rpc \in Calls : rpc.method = "range" => rpc.limit \in Int

VARIABLE call    \* the call each client has made

kvVars == <<vars, call>>

(* The calls, and the compares and operations that make up a transaction. *)
RangeCall(key, range_end, revision, limit, count_only) ==
  [method |-> "range", key |-> key, range_end |-> range_end, revision |-> revision,
   limit |-> limit, count_only |-> count_only]
PutCall(key) == [method |-> "put", key |-> key]
DeleteCall(key, range_end) == [method |-> "delete_range", key |-> key, range_end |-> range_end]
TxnCall(compare, success, failure) ==
  [method |-> "txn", compare |-> compare, success |-> success, failure |-> failure]
CompactCall(revision) == [method |-> "compact", revision |-> revision]
PlainCall(method) == [method |-> method]

(* result is "equal", "not_equal", "greater" or "less" *)
Compare(target, result, key, value) ==
  [target |-> target, result |-> result, key |-> key, value |-> value]
RequestOp(kind, key, range_end) == [kind |-> kind, key |-> key, range_end |-> range_end]

(* The first checks of txn: the compare and the numbers of operations. *)
CompareTaken(t) ==
  /\ Len(t.compare) = 1
  /\ t.compare[1].target \in {"mod", "version"}
  /\ Len(t.success) = 1
  /\ Len(t.failure) <= 1
  /\ t.failure # <<>> /\ t.failure[1].kind # "unset" =>
       /\ t.failure[1].kind = "range"
       /\ t.failure[1].key = t.compare[1].key
       /\ t.failure[1].range_end = <<>>

ValidTxn(t) ==
  /\ CompareTaken(t)
  /\ t.success[1].kind \in {"put", "delete_range"}
  /\ t.success[1].key # <<>>
  /\ t.success[1].range_end = <<>>
  /\ t.success[1].key = t.compare[1].key

Valid(rpc) ==
  CASE rpc.method = "txn" -> ValidTxn(rpc)
    [] rpc.method = "delete_range" -> rpc.range_end = <<>>
    [] OTHER -> rpc.method \in {"range", "put", "compact", "alarm", "status", "defragment"}

(* limit as usize: what is negative is 2^63 at least, above any count *)
Limit(rpc) ==
  IF rpc.count_only THEN 0 ELSE IF rpc.limit <= 0 THEN Unlimited ELSE rpc.limit

RangeOf(rpc) ==
  LET ours   == \E k \in Keys : PrefixOf(rpc.key) = PrefixOf(KeyName[k])
      bounds == IF ~Accepted(rpc.key, rpc.range_end) THEN "rejected"
                ELSE IF Inverted(rpc.key, rpc.range_end) /\ ours THEN "inverted"
                ELSE "ok"
  IN  RangeRequest({k \in Keys : Visited(rpc.key, rpc.range_end, KeyName[k])}, bounds,
                   rpc.revision, Limit(rpc))

KeyOf(name) == CHOOSE k \in Keys : KeyName[k] = name

(* A plausible bug: the two targets of a compare taken for each other. *)
SetOfSwapped(t) ==
  SetRequest(KeyOf(t.success[1].key), t.success[1].kind = "delete_range",
             IF t.compare[1].target = "version" THEN t.compare[1].value ELSE -1,
             IF t.compare[1].target = "mod" THEN t.compare[1].value ELSE -1)

(* SetRequired from the compare, whatever its result asks for; the value from
   the operation *)
SetOf(t) ==
  SetRequest(KeyOf(t.success[1].key), t.success[1].kind = "delete_range",
             IF t.compare[1].target = "mod" THEN t.compare[1].value ELSE -1,
             IF t.compare[1].target = "version" THEN t.compare[1].value ELSE -1)

StoreRequest(rpc) ==
  CASE rpc.method = "range" -> RangeOf(rpc)
    [] rpc.method = "put" -> SetRequest(KeyOf(rpc.key), FALSE, -1, -1)
    [] rpc.method = "delete_range" -> SetRequest(KeyOf(rpc.key), TRUE, -1, -1)
    [] rpc.method = "txn" -> SetOf(rpc)
    [] rpc.method = "compact" -> CompactRequest(rpc.revision)
    [] OTHER -> RevisionRequest

(* The calls that pass the checks, translated: what Store's own
   specification takes for its clients' requests. *)
Served == [rpc \in {r \in Calls : Valid(r)} |-> StoreRequest(rpc)]

ASSUME RequestsAssumption == Requests = {Served[rpc] : rpc \in DOMAIN Served}

NoCall == PlainCall("none")

KvInit == Init /\ call = [c \in Clients |-> NoCall]

(* A call that the store serves. *)
Serve(c, rpc) ==
  /\ rpc \in DOMAIN Served
  /\ Begin(c, Served[rpc])
  /\ call' = [call EXCEPT ![c] = rpc]

(* invalid_argument, unimplemented, or a panic on a target or an operation
   that is not set: the store is not asked. *)
Refuse(c, rpc) ==
  /\ rpc \notin DOMAIN Served
  /\ call' = [call EXCEPT ![c] = rpc]
  /\ UNCHANGED vars

KvNext ==
  \E c \in Clients :
    \/ /\ StoreStep(c)
       /\ call' = [call EXCEPT ![c] = IF op'[c] = Idle THEN NoCall ELSE @]
    \/ op[c].at = "idle" /\ \E rpc \in Calls : Serve(c, rpc) \/ Refuse(c, rpc)

KvSpec == KvInit /\ [][KvNext]_kvVars

(***************************************************************************)
(* The answers that are no errors: the revision of their header, and what  *)
(* range and txn add to it.  A kv is its mod_revision, 0 for none.         *)
(***************************************************************************)
Header(c) ==
  IF call[c].method \in {"delete_range", "compact"} THEN 0
  ELSE IF op[c].req.kind = "set" /\ op[c].result = "ok" THEN op[c].rev
  ELSE op[c].latest_rev

(* more compares with limit as i64, the number that the call gave *)
RangeResponse(c) ==
  [kvs   |-> op[c].got,
   count |-> op[c].count,
   more  |-> /\ ~call[c].count_only
             /\ call[c].limit # 0
             /\ op[c].count > call[c].limit]

TxnResponse(c) ==
  [succeeded |-> op[c].result = "ok",
   kv        |-> IF op[c].result = "ok" THEN 0 ELSE op[c].rev]

-------------------------------------------------------------------------------
(***************************************************************************)
(* Properties.                                                             *)
(***************************************************************************)
Answers(c, method) == op[c].at = "done" /\ call[c].method = method /\ op[c].result \in {"ok", "err"}

(* What a compare looks at in revision r of the key; 0 and deletions are no
   value. *)
TargetOf(compare, r) ==
  IF Deleted(r) THEN 0 ELSE IF compare.target = "mod" THEN r ELSE log[r].value.version

(* rpc.proto: the compare holds of revision r of the key. *)
Holds(compare, r) ==
  \/ compare.result = "equal" /\ TargetOf(compare, r) = compare.value
  \/ compare.result = "not_equal" /\ TargetOf(compare, r) # compare.value
  \/ compare.result = "greater" /\ TargetOf(compare, r) > compare.value
  \/ compare.result = "less" /\ TargetOf(compare, r) < compare.value

(***************************************************************************)
(* A transaction answers for its compare: when it succeeded, the compare   *)
(* held of the very value it replaced; when it did not, the compare fails  *)
(* of the value that the answer shows.  Three cases are excepted, in which *)
(* txn does not do what rpc.proto says: it never reads compare.result, so  *)
(* that a compare other than EQUAL is taken for EQUAL; a negative value is *)
(* taken for no requirement; and the deletion of a key that does not exist *)
(* fails, whatever the compare.                                            *)
(***************************************************************************)
TxnAnswersCompare ==
  \A c \in Clients :
   (/\ Answers(c, "txn")
    /\ call[c].compare[1].result = "equal"
    /\ call[c].compare[1].value >= 0) =>
    LET compare == call[c].compare[1]
        rev     == Header(c)
        kv      == TxnResponse(c).kv
    IN  IF TxnResponse(c).succeeded
        THEN Holds(compare, NewestUpTo(OfItem(log[rev].item), rev - 1))
        ELSE \/ ~Holds(compare, kv)
             \/ kv = 0 /\ call[c].success[1].kind = "delete_range"

(***************************************************************************)
(* What rpc.proto says of a range: "more indicates if there are more keys  *)
(* to return in the requested range", on which the pages of a list depend. *)
(* It is set exactly when more keys than the limit are live at the range's *)
(* revision, and without it the count is the number of those keys, while   *)
(* deletions, sets and creations go on.  Said of a range that has visited  *)
(* its last key; values that compaction has taken are not owed.  A         *)
(* negative limit, of which rpc.proto says nothing, is excepted: it cuts   *)
(* nothing off, and more is set all the same.                              *)
(***************************************************************************)
MoreMeansMore ==
  \A c \in Clients : op[c].at = "scan" /\ op[c].left = {} /\ op[c].reached =>
    LET live   == {k \in op[c].req.keys : prefix_map[k] # None /\ ~Deleted(NewestOf(c, k))}
        answer == RangeResponse(c)
    IN  (/\ \A k \in live : NewestOf(c, k) > start_offset
         /\ ~call[c].count_only
         /\ call[c].limit >= 0) =>
          /\ answer.more <=> call[c].limit > 0 /\ Cardinality(live) > call[c].limit
          /\ ~answer.more => answer.count = Cardinality(live)

(* Only one item was ever made for k: no two creations overlapped. *)
CreatedOnce(k) == Cardinality({log[r].item : r \in OfKey(k)}) <= 1

(* Revision r of k, or 0 for nothing, shows no less than revision s of k. *)
NotOlder(k, r, s) == r >= s \/ (r = 0 /\ \E d \in OfKey(k) : d >= s /\ Deleted(d))

(***************************************************************************)
(* A call sees the writes that were answered before it began: its header   *)
(* names a revision that is no older, and so is every value that a list    *)
(* shows or a failed transaction returns.  delete_range and compact are    *)
(* excepted: they answer revision 0 in their header, against rpc.proto.    *)
(* Said of calls whose loads of the revision no compaction overlaps, of    *)
(* keys without overlapping creations and of revisions that are not        *)
(* compacted before the answer.                                            *)
(***************************************************************************)
SeesAnswered ==
  \A c \in Clients :
    LET seen == op[c].seen
    IN  /\ (/\ (op[c].at = "done" /\ op[c].result = "ok") \/ Answers(c, "txn")
            /\ call[c].method \notin {"delete_range", "compact"}) =>
             \A k \in Keys : Header(c) >= seen[k]
        /\ \A k \in Keys : Answers(c, "txn") /\ op[c].req.key = k /\ CreatedOnce(k) =>
             TxnResponse(c).succeeded \/ NotOlder(k, TxnResponse(c).kv, seen[k])
        /\ Answers(c, "range") /\ op[c].result = "ok" /\ op[c].req.limit = Unlimited =>
             \A k \in op[c].req.keys : CreatedOnce(k) /\ seen[k] > start_offset =>
               NotOlder(k, RangeResponse(c).kvs[k], seen[k])

===============================================================================
