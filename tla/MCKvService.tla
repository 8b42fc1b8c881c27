------------------------------ MODULE MCKvService ------------------------------
(* Instances of KvService for TLC. *)
EXTENDS KvService, TLC

TwoKeys == {1, 2}

a == 97

(* Names up to three bytes below the root, up to two below a kind and below a
   kind of an API group, the ends that close them, and names outside the root. *)
Strings(n) == UNION {[1 .. i -> {Dot, Slash, a}] : i \in 0 .. n}
Below == {Root \o s : s \in Strings(3)}
           \union {Root \o <<a, Slash>> \o s : s \in Strings(2)}
           \union {Root \o <<Dot, Slash, a, Slash>> \o s : s \in Strings(2)}
Closed(dir) == [dir EXCEPT ![Len(dir)] = Zero]
SomeNames == Below \union {Closed(n) : n \in {m \in Below : m[Len(m)] = Slash}}
                   \union {<<a>>, <<a, Slash>>, <<a, Zero>>, <<Zero>>}

(* The arithmetic of prefixes, for all of these names. *)
ASSUME KeyRangeChecked == BoundsSelectRange /\ ListsAreComplete

Pods == Root \o <<a, Slash>>
Pod1 == Pods \o <<a>>
Pod2 == Pods \o <<a, a>>
PodName == <<Pod1, Pod2>>

Txn(kind, target, result, value) ==
  TxnCall(<<Compare(target, result, Pod1, value)>>, <<RequestOp(kind, Pod1, <<>>)>>,
          <<RequestOp("range", Pod1, <<>>)>>)
Create(key) ==
  TxnCall(<<Compare("mod", "equal", key, 0)>>, <<RequestOp("put", key, <<>>)>>, <<>>)
List(revision, limit) == RangeCall(Pods, Closed(Pods), revision, limit, FALSE)

(* Every form of every method, and calls the service does not take. *)
SomeCalls ==
  {PutCall(Pod1), DeleteCall(Pod1, <<>>), Create(Pod2),
   Txn("put", "version", "equal", 1),
   Txn("delete_range", "mod", "equal", 2), Txn("put", "mod", "less", 3),
   List(0, 0), List(3, 1), List(3, -1), RangeCall(Pods, Closed(Pods), 3, 0, TRUE),
   RangeCall(Pod2, Pod1, 0, 0, FALSE),
   CompactCall(3), PlainCall("status"),
   DeleteCall(Pod1, Pod2),
   TxnCall(<<Compare("mod", "equal", Pod1, 0)>>, <<RequestOp("put", Pod2, <<>>)>>, <<>>),
   PlainCall("snapshot")}

ServedRequests == {Served[rpc] : rpc \in DOMAIN Served}

ClientSymmetry == Permutations(Clients)
===============================================================================
