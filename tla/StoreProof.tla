------------------------------- MODULE StoreProof -------------------------------
(***************************************************************************)
(* Safety of Store for any clients, keys, requests and number of           *)
(* revisions.  The invariant comes in layers, each of which assumes the    *)
(* ones before it: the types; the counters; what an item's lock orders;    *)
(* the values and versions of a revision; and what a range reads.          *)
(***************************************************************************)
EXTENDS Store, FiniteSetTheorems, WellFoundedInduction, TLAPS

Requested == SetRequests \union RangeRequests \union CompactRequests \union {RevisionRequest}

Ats == {"idle", "begun", "found", "create", "pushed", "created", "prefixed", "scan",
        "compacting", "done"}
Results == {"none", "ok", "err", "panic"}
Value == [create_revision : Nat, mod_revision : Nat, version : Nat, live : BOOLEAN]
Item == [revisions : SUBSET Revs, latest_value : Value, writer : Clients \union {None}]
Entry == [key : Keys \union {None}, item : 0 .. MaxRev, last : Int, version : Int, value : Value]
Op == [at : Ats, req : Requested \union {NoRequest}, len : Nat, latest_rev : Nat,
       item : 0 .. MaxRev, rev : Nat, left : SUBSET Keys, got : [Keys -> Nat], count : Nat,
       result : Results, reached : BOOLEAN, seen : [Keys -> Nat], offset : Nat]

(* What a client is doing fits its request, and its item and revision exist. *)
OpFits(o) ==
  /\ o.at \in {"found", "create", "pushed", "created", "prefixed"} => o.req \in SetRequests
  /\ o.at = "create" => ~NeedsItem(o.req)
  /\ o.at = "begun" => o.req \in Requested /\ o.got = NoKeys /\ o.count = 0 /\ o.rev = 0
  /\ o.at = "scan" => o.req \in RangeRequests
  /\ o.at = "compacting" => o.req \in CompactRequests
  /\ o.at \in {"found", "pushed"} => o.item \in Revs
  /\ o.at \in {"pushed", "created", "prefixed"} => o.rev \in Revs

TypeOK ==
  /\ tree_map \in [Keys -> Revs \union {None}]
  /\ prefix_map \in [Keys -> Revs \union {None}]
  /\ items \in [Revs -> Item]
  /\ values \in [Revs -> Value]
  /\ start_offset \in Nat
  /\ length \in Nat
  /\ removing \in Nat \union {None}
  /\ op \in [Clients -> Op]
  /\ \A c \in Clients : OpFits(op[c])
  /\ log \in [Revs -> Entry]

(* The counters: revisions are left for every set that may still push, and *)
(* one compaction at a time holds the lock.                                *)
CountInv ==
  /\ Assigned \in Nat
  /\ Assigned >= 1
  /\ Assigned + Cardinality(MayPush) <= MaxRev
  /\ \A c \in Clients : op[c].at = "compacting" => removing # None
  /\ \A c, d \in Clients : op[c].at = "compacting" /\ op[d].at = "compacting" => c = d
  /\ removing # None => removing >= start_offset

(* What a range has yet to visit is in prefix_map. *)
LeftInv ==
  \A c \in Clients : op[c].at = "scan" => \A k \in op[c].left : prefix_map[k] # None

BaseInv == TypeOK /\ CountInv /\ LeftInv

-------------------------------------------------------------------------------
(* An item has a value from the insertion into prefix_map on. *)
Known(i) == items[i].latest_value.mod_revision # 0

(* c holds a revision whose value is yet to be set. *)
InFlight(c) == op[c].at \in {"pushed", "created"}

(* Revisions belong to items that exist, and those to come to none. *)
LogOK ==
  \A r \in Revs :
    /\ r > Assigned \/ r = 1 => log[r].item = 0
    /\ log[r].item <= r
    /\ log[r].item # 0 /\ log[r].item # r => Known(log[r].item)

(* What each client may count on. *)
FlightOK ==
  \A c \in Clients :
    /\ op[c].at = "found" => Known(op[c].item)
    /\ op[c].at = "pushed" =>
         /\ Known(op[c].item)
         /\ log[op[c].rev].item = op[c].item
         /\ items[op[c].item].writer = c
    /\ op[c].at = "created" => log[op[c].rev].item = op[c].rev /\ ~Known(op[c].rev)
    /\ op[c].at \in {"pushed", "created"} =>
         op[c].rev > 1 /\ op[c].rev <= Assigned /\ log[op[c].rev].value = NoValue
    /\ op[c].at = "prefixed" => Known(op[c].rev)

(* No two clients set the value of the same revision. *)
FlightsDiffer ==
  \A c, d \in Clients : InFlight(c) /\ InFlight(d) /\ op[c].rev = op[d].rev => c = d

(* An item's lock is held by the set that has pushed a revision of it. *)
WriterOK ==
  \A i \in Revs : items[i].writer # None =>
    op[items[i].writer].at = "pushed" /\ op[items[i].writer].item = i

(* The maps lead to items with values. *)
MapsOK ==
  \A k \in Keys :
    /\ tree_map[k] # None => Known(tree_map[k])
    /\ prefix_map[k] # None => Known(prefix_map[k])

(* An item's latest value is that of its newest revision, but for the one *)
(* that the holder of its lock is about to set.                           *)
LatestOK ==
  \A i \in Revs :
    /\ Known(i) =>
         LET m == items[i].latest_value.mod_revision
         IN  /\ m \in Revs
             /\ log[m].item = i
             /\ log[m].value = items[i].latest_value
             /\ items[i].latest_value.version >= 1
             /\ \A q \in OfItem(i) :
                  q <= m \/ (items[i].writer # None /\ q = op[items[i].writer].rev)
    /\ ~Known(i) => \A q \in OfItem(i) : ~Published(q)

(* Of an item's revisions only the newest may lack its value. *)
SettledOK ==
  \A q, r \in Revs : q < r /\ log[q].item = log[r].item /\ log[r].item # 0 => Published(q)

LockInv == LogOK /\ FlightOK /\ FlightsDiffer /\ WriterOK /\ MapsOK /\ LatestOK /\ SettledOK

-------------------------------------------------------------------------------
(* p is the revision of r's item before r, 0 if there is none. *)
IsPrev(p, r) ==
  /\ p # 0 => p \in Revs /\ p < r /\ log[p].item = log[r].item /\ Published(p)
  /\ \A q \in Revs : log[q].item = log[r].item /\ q < r => q <= p

(* What r required holds of revision p. *)
Required(p, r) ==
  /\ log[r].last > 0 => p = log[r].last /\ ~Deleted(p)
  /\ log[r].version > 0 => ~Deleted(p) /\ log[p].value.version = log[r].version
  /\ log[r].last = 0 \/ log[r].version = 0 => Deleted(p)

CompareOK ==
  \A r \in Revs : log[r].item # 0 => \E p \in 0 .. MaxRev : IsPrev(p, r) /\ Required(p, r)

(* d is the deletion of r's item before r, 0 if there is none. *)
IsLastDeletion(d, r) ==
  /\ d # 0 => /\ d \in Revs /\ d < r /\ log[d].item = log[r].item
              /\ Published(d) /\ ~log[d].value.live
  /\ \A q \in Revs :
       log[q].item = log[r].item /\ q <= r /\ Published(q) /\ ~log[q].value.live => q <= d

Life(d, r) == {q \in Revs : log[q].item = log[r].item /\ q > d /\ q <= r}

(* The value of r counts the revisions since deletion d. *)
Counts(d, r) ==
  /\ IsLastDeletion(d, r)
  /\ log[r].value.version = Cardinality(Life(d, r))
  /\ log[r].value.create_revision \in Life(d, r)
  /\ \A q \in Life(d, r) : log[r].value.create_revision <= q

VersionsOK ==
  \A r \in Revs : Published(r) /\ log[r].value.live /\ log[r].item # 0 =>
    \E d \in 0 .. MaxRev : Counts(d, r)

ValueInv == CompareOK /\ VersionsOK

-------------------------------------------------------------------------------
(* The log of values and the items' lists of revisions hold all that is    *)
(* not compacted.                                                          *)
StoredOK ==
  /\ \A r \in Revs : log[r].item # 0 /\ Published(r) /\ r > start_offset => values[r] = log[r].value
  /\ \A i \in Revs :
       /\ \A r \in items[i].revisions : log[r].item = i /\ Published(r)
       /\ \A r \in OfItem(i) : Published(r) /\ r > start_offset => r \in items[i].revisions

(* n is the newest revision of item i up to R, and its value is set; 0 if *)
(* there is none.                                                          *)
IsNewest(i, R, n) ==
  /\ n # 0 => n \in Revs /\ log[n].item = i /\ Published(n) /\ n <= R
  /\ \A q \in Revs : log[q].item = i /\ q <= R => q <= n

(* The keys that a range has put into its answer, and those below k. *)
Page(c) == {l \in Keys : op[c].got[l] # 0}
PageBelow(c, k) == {l \in Keys : l < k /\ op[c].got[l] # 0}

(* What the range of c has found of key k is right. *)
ReadOK(c, k) ==
  \/ op[c].got[k] = 0 /\ Cardinality(PageBelow(c, k)) = op[c].req.limit
  \/ \E n \in 0 .. MaxRev :
       /\ IsNewest(prefix_map[k], RangeRevision(op[c]), n)
       /\ op[c].got[k] = n \/ (op[c].got[k] = 0 /\ (Deleted(n) \/ n <= start_offset))

(* Keys are visited in order, and the page grows to the limit. *)
ScanOK(c) ==
  /\ \A k \in op[c].left : k \in op[c].req.keys /\ op[c].got[k] = 0
  /\ \A k \in Keys : op[c].got[k] # 0 => \A l \in op[c].left : k < l
  /\ \A k \in op[c].req.keys : prefix_map[k] # None /\ k \notin op[c].left =>
       \A l \in op[c].left : k < l
  /\ Cardinality(Page(c)) = IF op[c].count <= op[c].req.limit THEN op[c].count
                                                              ELSE op[c].req.limit

(* What has been visited was read at the range's revision. *)
ScanReads(c) ==
  op[c].reached =>
    /\ RangeRevision(op[c]) <= Assigned
    /\ \A k \in op[c].req.keys : prefix_map[k] # None /\ k \notin op[c].left => ReadOK(c, k)

ScanInv == \A c \in Clients : op[c].at = "scan" => ScanOK(c) /\ ScanReads(c)

ReadInv == StoredOK /\ ScanInv

-------------------------------------------------------------------------------
(***************************************************************************)
(* Every non-empty set of naturals has a least element, and every bounded  *)
(* one a greatest: what Min and Max of FiniteSetsExt choose.               *)
(***************************************************************************)
LEMMA NatHasLeast ==
  ASSUME NEW T, T \subseteq Nat, T # {}
  PROVE  \E x \in T : \A y \in T : x <= y
<1> DEFINE R == OpToRel(<, Nat)
<1>1. IsWellFoundedOn(R, Nat)
  BY NatLessThanWellFounded, Zenon
<1>2. \A x, y \in Nat : <<y, x>> \in R <=> y < x
  BY DEF OpToRel
<1> HIDE DEF R
<1>3. PICK x \in T : \A y \in T : ~ (<<y, x>> \in R)
  BY <1>1, WFMin
<1>4. \A y \in T : x <= y
  <2> TAKE y \in T
  <2>1. x \in Nat /\ y \in Nat
    OBVIOUS
  <2>2. ~(y < x)
    BY <1>2, <1>3, <2>1
  <2> QED
    BY <2>1, <2>2
<1> QED
  BY <1>4

LEMMA BoundedHasGreatest ==
  ASSUME NEW N \in Nat, NEW T, T \subseteq 0 .. N, T # {}
  PROVE  \E x \in T : \A y \in T : x >= y
<1> DEFINE U == {n \in Nat : \A t \in T : t <= n}
<1>1. N \in U
  OBVIOUS
<1>2. PICK u \in U : \A y \in U : u <= y
  BY <1>1, NatHasLeast
<1>3. u \in T
  <2> SUFFICES ASSUME u \notin T PROVE FALSE
    OBVIOUS
  <2>1. \A t \in T : t <= u - 1
    OBVIOUS
  <2>2. PICK t \in T : TRUE
    OBVIOUS
  <2>3. u - 1 \in Nat
    BY <2>1, <2>2
  <2>4. u - 1 \in U
    BY <2>1, <2>3
  <2> QED
    BY <1>2, <2>4
<1> QED
  BY <1>3

LEMMA MaxIs ==
  ASSUME NEW S, S \subseteq Int, NEW x \in S, \A y \in S : y <= x
  PROVE  Max(S) = x
<1>1. \A y \in S : x >= y
  OBVIOUS
<1>2. \A z \in S : (\A y \in S : z >= y) => z = x
  OBVIOUS
<1> QED
  BY <1>1, <1>2 DEF Max

LEMMA MinIs ==
  ASSUME NEW S, S \subseteq Int, NEW x \in S, \A y \in S : x <= y
  PROVE  Min(S) = x
<1>1. \A z \in S : (\A y \in S : z =< y) => z = x
  OBVIOUS
<1> QED
  BY <1>1 DEF Min

LEMMA MaxType ==
  ASSUME NEW N \in Nat, NEW T, T \subseteq 0 .. N, T # {}
  PROVE  Max(T) \in T /\ \A y \in T : y <= Max(T)
<1>1. PICK x \in T : \A y \in T : x >= y
  BY BoundedHasGreatest
<1>2. \A y \in T : y <= x
  BY <1>1
<1>3. T \subseteq Int
  OBVIOUS
<1>4. Max(T) = x
  BY <1>2, <1>3, MaxIs
<1> QED
  BY <1>2, <1>4

(* The revision that a history variable remembers is a revision or 0. *)
LEMMA SeenType ==
  ASSUME NEW req
  PROVE  Seen(req) \in [Keys -> Nat]
<1> SUFFICES ASSUME NEW k \in Keys PROVE Answered(k) \in Nat
  BY DEF Seen
<1> DEFINE T == {r \in Revs : log[r].key = k /\ r \notin Unanswered} \union {0}
<1>1. T \subseteq 0 .. MaxRev /\ T # {}
  BY StoreMaxRevAssumption DEF Revs
<1>2. Max(T) \in T
  BY <1>1, StoreMaxRevAssumption, MaxType
<1> QED
  BY <1>1, <1>2, StoreMaxRevAssumption DEF Answered

-------------------------------------------------------------------------------
(***************************************************************************)
(* What the helpers of the actions do to the client's record.              *)
(***************************************************************************)
(* Only c's record changes, to o. *)
OpIs(c, o) ==
  /\ op' \in [Clients -> Op]
  /\ op'[c] = o
  /\ \A d \in Clients : d # c => op'[d] = op[d]

LEMMA OpUpdate ==
  ASSUME op \in [Clients -> Op], NEW c \in Clients, NEW o \in Op, op' = [op EXCEPT ![c] = o]
  PROVE  OpIs(c, o)
BY DEF OpIs

LEMMA IdleType == Idle \in Op
BY StoreMaxRevAssumption DEF Idle, Op, Ats, Results, NoKeys, NoRequest

LEMMA ProceedFacts ==
  ASSUME TypeOK, NEW c \in Clients, NEW at \in Ats, NEW result \in Results, NEW rev \in Nat,
         Proceed(c, at, result, rev)
  PROVE  /\ OpIs(c, op'[c])
         /\ op'[c].at = at
         /\ op'[c].req = op[c].req
         /\ op'[c].item = IF at = "done" THEN 0 ELSE op[c].item
         /\ op'[c].rev = rev
         /\ op'[c].result = result
<1>1. PICK req \in Requested \union {NoRequest} : req = op[c].req
  BY DEF TypeOK, Op
<1>2. PICK item \in 0 .. MaxRev : item = IF at = "done" THEN 0 ELSE op[c].item
  BY StoreMaxRevAssumption DEF TypeOK, Op
<1>3. PICK i \in Op : i = Idle
  BY IdleType
<1>4. PICK seen \in [Keys -> Nat] : seen = op[c].seen
  BY DEF TypeOK, Op
<1> DEFINE o == [i EXCEPT !.at = at, !.req = req, !.result = result, !.item = item, !.rev = rev,
                          !.seen = seen]
<1>5. op' = [op EXCEPT ![c] = o]
  BY <1>1, <1>2, <1>3, <1>4, Zenon DEF Proceed
<1>6. /\ o \in Op
      /\ o.at = at /\ o.req = req /\ o.item = item /\ o.rev = rev /\ o.result = result
  BY DEF Op
<1> HIDE DEF o
<1>7. OpIs(c, o)
  BY <1>5, <1>6, OpUpdate DEF TypeOK
<1>8. op'[c] = o
  BY <1>7 DEF OpIs
<1> QED
  BY <1>1, <1>2, <1>6, <1>7, <1>8

LEMMA FinishFacts ==
  ASSUME TypeOK, NEW c \in Clients, NEW result \in Results, Finish(c, result)
  PROVE  /\ OpIs(c, op'[c])
         /\ op'[c].at = "done"
         /\ op'[c].req = op[c].req
<1>1. PICK p \in Op : p = op[c]
  BY DEF TypeOK
<1> DEFINE o == [p EXCEPT !.at = "done", !.result = result, !.item = 0, !.left = {}]
<1>2. op' = [op EXCEPT ![c] = o]
  BY <1>1, Zenon DEF Finish
<1>3. o \in Op /\ o.at = "done" /\ o.req = p.req
  <2>1. 0 \in 0 .. MaxRev /\ "done" \in Ats
    BY StoreMaxRevAssumption DEF Ats
  <2> QED
    BY <2>1 DEF Op
<1> HIDE DEF o
<1>4. OpIs(c, o)
  BY <1>2, <1>3, OpUpdate DEF TypeOK
<1>5. op'[c] = o
  BY <1>4 DEF OpIs
<1> QED
  BY <1>1, <1>3, <1>4, <1>5

LEMMA BeginFacts ==
  ASSUME TypeOK, NEW c \in Clients, NEW req \in Requests, Begin(c, req)
  PROVE  /\ OpIs(c, op'[c])
         /\ op'[c].at = "begun"
         /\ op'[c].req = req
         /\ op'[c].got = NoKeys
         /\ op'[c].count = 0
         /\ op'[c].rev = 0
         /\ req \in Requested
<1>1. req \in Requested
  BY StoreRequestsAssumption DEF Requested
<1>2. PICK seen \in [Keys -> Nat] : seen = Seen(req)
  BY SeenType
<1>3. PICK i \in Op : i = Idle
  BY IdleType
<1>4. i.got = NoKeys /\ i.count = 0 /\ i.rev = 0
  BY <1>3 DEF Idle
<1>5. length \in Nat /\ start_offset \in Nat /\ "begun" \in Ats
  BY DEF TypeOK, Ats
<1> DEFINE o == [i EXCEPT !.at = "begun", !.req = req, !.len = length, !.seen = seen,
                          !.offset = start_offset]
<1>6. op' = [op EXCEPT ![c] = o]
  BY <1>2, <1>3, Zenon DEF Begin
<1>7. /\ o \in Op
      /\ o.at = "begun" /\ o.req = req /\ o.got = i.got /\ o.count = i.count /\ o.rev = i.rev
  BY <1>1, <1>5 DEF Op
<1> HIDE DEF o
<1>8. OpIs(c, o)
  BY <1>6, <1>7, OpUpdate DEF TypeOK
<1>9. op'[c] = o
  BY <1>8 DEF OpIs
<1> QED
  BY <1>1, <1>4, <1>7, <1>8, <1>9

LEMMA LoadedFacts ==
  ASSUME TypeOK, NEW c \in Clients
  PROVE  /\ Loaded(c) \in Op
         /\ Loaded(c).at = op[c].at
         /\ Loaded(c).req = op[c].req
         /\ Loaded(c).item = op[c].item
         /\ Loaded(c).rev = op[c].rev
         /\ Loaded(c).left = op[c].left
         /\ Loaded(c).got = op[c].got
         /\ Loaded(c).count = op[c].count
         /\ Loaded(c).latest_rev = Latest(c)
<1>1. PICK p \in Op : p = op[c]
  BY DEF TypeOK
<1>2. PICK latest \in Nat : latest = Latest(c)
  BY DEF TypeOK, Latest, Op
<1>3. PICK seen \in [Keys -> Nat] : seen = IF p.offset = start_offset THEN p.seen ELSE NoKeys
  BY DEF Op, NoKeys
<1> DEFINE o == [p EXCEPT !.latest_rev = latest, !.len = 0, !.offset = 0, !.seen = seen]
<1>4. o = Loaded(c)
  BY <1>1, <1>2, <1>3, Zenon DEF Loaded
<1>5. /\ o \in Op
      /\ o.at = p.at
      /\ o.req = p.req
      /\ o.item = p.item
      /\ o.rev = p.rev
      /\ o.left = p.left
      /\ o.got = p.got
      /\ o.count = p.count
      /\ o.latest_rev = latest
  BY DEF Op
<1> HIDE DEF o
<1> QED
  BY <1>1, <1>2, <1>4, <1>5

LEMMA ReadRevisionFacts ==
  ASSUME TypeOK, NEW c \in Clients, ReadRevision(c)
  PROVE  OpIs(c, op'[c]) /\ op'[c].at = "done" /\ op'[c].req = op[c].req
<1>1. PICK p \in Op : p = Loaded(c) /\ p.req = op[c].req
  BY LoadedFacts
<1> DEFINE o == [p EXCEPT !.at = "done", !.result = "ok"]
<1>2. op' = [op EXCEPT ![c] = o]
  BY <1>1, Zenon DEF ReadRevision
<1>3. o \in Op /\ o.at = "done" /\ o.req = p.req
  <2>1. "done" \in Ats /\ "ok" \in Results
    BY DEF Ats, Results
  <2> QED
    BY <2>1 DEF Op
<1> HIDE DEF o
<1>4. OpIs(c, o)
  BY <1>2, <1>3, OpUpdate DEF TypeOK
<1>5. op'[c] = o
  BY <1>4 DEF OpIs
<1> QED
  BY <1>1, <1>3, <1>4, <1>5

LEMMA SetLookupFacts ==
  ASSUME TypeOK, NEW c \in Clients, SetLookup(c)
  PROVE  /\ OpIs(c, op'[c])
         /\ op'[c].req = op[c].req
         /\ op[c].req \in SetRequests
         /\ op'[c].at = IF tree_map[op[c].req.key] # None THEN "found"
                        ELSE IF NeedsItem(op[c].req) THEN "done" ELSE "create"
         /\ op'[c].item = IF tree_map[op[c].req.key] = None THEN 0 ELSE tree_map[op[c].req.key]
         /\ op'[c].at = "done" => op'[c].result = "err"
         /\ op'[c].rev = 0
<1>0. op[c].rev = 0
  BY DEF TypeOK, OpFits, SetLookup
<1>1. PICK p \in Op : p = Loaded(c) /\ p.req = op[c].req /\ p.rev = op[c].rev
  BY LoadedFacts
<1>2. op[c].req \in SetRequests
  <2>1. op[c].req \in Requested /\ op[c].req.kind = "set"
    BY DEF SetLookup, TypeOK, OpFits
  <2> QED
    BY <2>1 DEF Requested, RangeRequests, CompactRequests, RevisionRequest
<1>3. PICK i : i = tree_map[op[c].req.key]
  OBVIOUS
<1>4. i \in Revs \union {None}
  BY <1>2, <1>3 DEF TypeOK, SetRequests
<1>5. PICK item \in 0 .. MaxRev : item = IF i = None THEN 0 ELSE i
  BY <1>4, StoreMaxRevAssumption DEF Revs
<1>6. PICK at \in Ats : at = IF i # None THEN "found"
                            ELSE IF NeedsItem(op[c].req) THEN "done" ELSE "create"
  BY DEF Ats
<1>7. PICK result \in Results : result = IF i = None /\ NeedsItem(op[c].req) THEN "err" ELSE p.result
  BY DEF Results, Op
<1> DEFINE o == [p EXCEPT !.item = item, !.at = at, !.result = result]
<1>8. op' = [op EXCEPT ![c] = o]
  BY <1>1, <1>3, <1>5, <1>6, <1>7, Zenon DEF SetLookup
<1>9. o \in Op /\ o.at = at /\ o.req = p.req /\ o.item = item /\ o.rev = p.rev /\ o.result = result
  BY DEF Op
<1> HIDE DEF o
<1>10. OpIs(c, o)
  BY <1>8, <1>9, OpUpdate DEF TypeOK
<1>11. op'[c] = o
  BY <1>10 DEF OpIs
<1> QED
  BY <1>0, <1>1, <1>2, <1>3, <1>5, <1>6, <1>7, <1>9, <1>10, <1>11

LEMMA SetRefusedFacts ==
  ASSUME TypeOK, NEW c \in Clients, SetRefused(c)
  PROVE  /\ OpIs(c, op'[c])
         /\ op'[c].at = "done"
         /\ op'[c].req = op[c].req
         /\ op'[c].result = "err"
         /\ LET v == items[op[c].item].latest_value
            IN  op'[c].rev = IF v.live THEN v.mod_revision ELSE 0
<1>1. PICK p \in Op : p = op[c]
  BY DEF TypeOK
<1>2. op[c].item \in Revs
  BY DEF SetRefused, TypeOK, OpFits
<1>3. PICK v \in Value : v = items[op[c].item].latest_value
  BY <1>2 DEF TypeOK, Item
<1>4. PICK rev \in Nat : rev = IF v.live THEN v.mod_revision ELSE 0
  BY DEF Value
<1> DEFINE o == [p EXCEPT !.at = "done", !.result = "err", !.item = 0, !.rev = rev]
<1>5. op' = [op EXCEPT ![c] = o]
  BY <1>1, <1>3, <1>4, Zenon DEF SetRefused
<1>6. o \in Op /\ o.at = "done" /\ o.req = p.req /\ o.result = "err" /\ o.rev = rev
  <2>1. "done" \in Ats /\ "err" \in Results /\ 0 \in 0 .. MaxRev
    BY StoreMaxRevAssumption DEF Ats, Results
  <2> QED
    BY <2>1 DEF Op
<1> HIDE DEF o
<1>7. OpIs(c, o)
  BY <1>5, <1>6, OpUpdate DEF TypeOK
<1>8. op'[c] = o
  BY <1>7 DEF OpIs
<1> QED
  BY <1>1, <1>3, <1>4, <1>6, <1>7, <1>8

LEMMA RangeLookupFacts ==
  ASSUME TypeOK, Assigned \in Nat, NEW c \in Clients, RangeLookup(c)
  PROVE  /\ OpIs(c, op'[c])
         /\ op'[c].at \in {"scan", "done"}
         /\ op'[c].req = op[c].req
         /\ op[c].req \in RangeRequests
         /\ op'[c].left = {k \in op[c].req.keys : prefix_map[k] # None}
         /\ op'[c].got = NoKeys
         /\ op'[c].count = 0
         /\ op'[c].reached <=> RangeRevision(op'[c]) <= Assigned
<1>0. op[c].got = NoKeys /\ op[c].count = 0
  BY DEF TypeOK, OpFits, RangeLookup
<1>1. PICK p \in Op : /\ p = Loaded(c) /\ p.req = op[c].req
                     /\ p.got = op[c].got /\ p.count = op[c].count
  BY LoadedFacts
<1>2. op[c].req \in RangeRequests
  <2>1. op[c].req \in Requested /\ op[c].req.kind = "range"
    BY DEF RangeLookup, TypeOK, OpFits
  <2> QED
    BY <2>1 DEF Requested, SetRequests, CompactRequests, RevisionRequest
<1> DEFINE panics == op[c].req.bounds = "inverted" /\ \E k \in Keys : prefix_map[k] # None
<1>3. PICK at \in Ats : at = IF RangeInvalid(c) \/ panics THEN "done" ELSE "scan"
  BY DEF Ats
<1>4. at \in {"scan", "done"}
  BY <1>3
<1>5. PICK result \in Results :
        result = IF RangeInvalid(c) THEN "err" ELSE IF panics THEN "panic" ELSE p.result
  BY DEF Results, Op
<1>6. PICK reached \in BOOLEAN : reached = (RangeRevision(p) <= Assigned)
  <2>1. RangeRevision(p) \in Int
    BY <1>1, <1>2 DEF RangeRevision, RangeRequests, Op
  <2>2. (RangeRevision(p) <= Assigned) \in BOOLEAN
    BY <2>1
  <2> QED
    BY <2>2, Zenon
<1>7. PICK left \in SUBSET Keys : left = {k \in op[c].req.keys : prefix_map[k] # None}
  BY <1>2 DEF RangeRequests
<1> DEFINE o == [p EXCEPT !.at = at, !.result = result, !.reached = reached, !.left = left]
<1>8. op' = [op EXCEPT ![c] = o]
  BY <1>1, <1>3, <1>5, <1>6, <1>7, Zenon DEF RangeLookup
<1>9. /\ o \in Op
      /\ o.at = at /\ o.req = p.req /\ o.left = left /\ o.got = p.got /\ o.count = p.count
      /\ o.reached = reached /\ o.latest_rev = p.latest_rev
  BY DEF Op
<1> HIDE DEF o, panics
<1>10. OpIs(c, o)
  BY <1>8, <1>9, OpUpdate DEF TypeOK
<1>11. op'[c] = o
  BY <1>10 DEF OpIs
<1>12. RangeRevision(o) = RangeRevision(p)
  BY <1>9 DEF RangeRevision
<1>13. o.reached <=> RangeRevision(o) <= Assigned
  BY <1>6, <1>9, <1>12
<1> QED
  BY <1>0, <1>1, <1>2, <1>4, <1>7, <1>9, <1>10, <1>11, <1>13

LEMMA RangeSkipFacts ==
  ASSUME TypeOK, NEW c \in Clients, RangeSkip(c)
  PROVE  \E k \in Keys :
           /\ IsNext(c, k)
           /\ OpIs(c, op'[c])
           /\ op'[c].at = "scan"
           /\ op'[c].req = op[c].req
           /\ op'[c].latest_rev = op[c].latest_rev
           /\ op'[c].reached = op[c].reached
           /\ op'[c].left = op[c].left \ {k}
           /\ op'[c].count = op[c].count + 1
           /\ op'[c].got = op[c].got
<1>1. PICK p \in Op : p = op[c]
  BY DEF TypeOK
<1>2. PICK k \in Keys :
        /\ IsNext(c, k)
        /\ op' = [op EXCEPT ![c].left = @ \ {k}, ![c].count = @ + 1]
  BY DEF RangeSkip
<1>3. PICK left \in SUBSET Keys : left = op[c].left \ {k}
  BY DEF TypeOK, Op
<1>4. PICK count \in Nat : count = op[c].count + 1
  BY DEF TypeOK, Op
<1> DEFINE o == [p EXCEPT !.left = left, !.count = count]
<1>5. op' = [op EXCEPT ![c] = o]
  <2>1. PICK f \in [Clients -> Op] : f = op
    BY DEF TypeOK
  <2>2. PICK g : g = op'
    OBVIOUS
  <2>3. g = [f EXCEPT ![c].left = left, ![c].count = count]
    BY <1>2, <1>3, <1>4, <2>1, <2>2, Zenon
  <2>4. p = f[c]
    BY <1>1, <2>1
  <2>5. g = [f EXCEPT ![c] = o]
    BY <2>3, <2>4
  <2> QED
    BY <2>1, <2>2, <2>5, Zenon
<1>6. /\ o \in Op
      /\ o.at = p.at /\ o.req = p.req /\ o.latest_rev = p.latest_rev /\ o.reached = p.reached
      /\ o.left = left /\ o.count = count /\ o.got = p.got
  BY DEF Op
<1>7. p.at = "scan"
  BY <1>1 DEF RangeSkip
<1> HIDE DEF o
<1>8. OpIs(c, o)
  BY <1>5, <1>6, OpUpdate DEF TypeOK
<1>9. op'[c] = o
  BY <1>8 DEF OpIs
<1>10. IsNext(c, k)
  BY <1>2
<1>11. /\ op'[c].left = op[c].left \ {k}
       /\ op'[c].count = op[c].count + 1
  BY <1>3, <1>4, <1>6, <1>9
<1> QED
  BY <1>1, <1>6, <1>7, <1>8, <1>9, <1>10, <1>11

(* What RangeItem finds of key k. *)
Found(c, k) == FindValue(items[prefix_map[k]], RangeRevision(op[c]))

LEMMA RangeItemFacts ==
  ASSUME TypeOK, NEW c \in Clients, RangeItem(c),
         \A k \in Keys : IsNext(c, k) => Found(c, k).mod_revision \in Nat
  PROVE  \E k \in Keys :
           /\ IsNext(c, k)
           /\ items[prefix_map[k]].writer = None
           /\ OpIs(c, op'[c])
           /\ op'[c].req = op[c].req
           /\ \/ op'[c].at = "done"
              \/ /\ op'[c].at = "scan"
                 /\ op'[c].latest_rev = op[c].latest_rev
                 /\ op'[c].reached = op[c].reached
                 /\ op'[c].left = op[c].left \ {k}
                 /\ op'[c].count = IF Found(c, k).live THEN op[c].count + 1 ELSE op[c].count
                 /\ \A l \in Keys : l # k => op'[c].got[l] = op[c].got[l]
                 /\ op'[c].got[k] = IF Found(c, k).live /\ op[c].count < op[c].req.limit
                                    THEN Found(c, k).mod_revision ELSE 0
<1>1. PICK p \in Op : p = op[c]
  BY DEF TypeOK
<1>2. PICK k \in Keys :
        /\ IsNext(c, k)
        /\ items[prefix_map[k]].writer = None
        /\ IF RangeRevision(op[c]) <= 0
           THEN Finish(c, "panic")
           ELSE op' = [op EXCEPT ![c].left = @ \ {k},
                                 ![c].count = IF Found(c, k).live THEN @ + 1 ELSE @,
                                 ![c].got[k] = IF Found(c, k).live /\ op[c].count < op[c].req.limit
                                               THEN Found(c, k).mod_revision ELSE 0]
  BY Zenon DEF RangeItem, Found
<1>3. CASE Finish(c, "panic")
  <2>1. "panic" \in Results
    BY DEF Results
  <2> QED
    BY <1>2, <1>3, <2>1, FinishFacts
<1>4. CASE ~Finish(c, "panic")
  <2>1. PICK left \in SUBSET Keys : left = op[c].left \ {k}
    BY DEF TypeOK, Op
  <2>2. PICK count \in Nat : count = IF Found(c, k).live THEN op[c].count + 1 ELSE op[c].count
    BY DEF TypeOK, Op
  <2>3. PICK n \in Nat : n = IF Found(c, k).live /\ op[c].count < op[c].req.limit
                            THEN Found(c, k).mod_revision ELSE 0
    BY <1>2
  <2>4. PICK got \in [Keys -> Nat] : got = [p.got EXCEPT ![k] = n]
    BY <1>1 DEF Op
  <2> DEFINE o == [p EXCEPT !.left = left, !.count = count, !.got = got]
  <2>5. op' = [op EXCEPT ![c] = o]
    <3>1. PICK f \in [Clients -> Op] : f = op
      BY DEF TypeOK
    <3>2. PICK g : g = op'
      OBVIOUS
    <3>3. g = [f EXCEPT ![c].left = left, ![c].count = count, ![c].got[k] = n]
      BY <1>2, <1>4, <2>1, <2>2, <2>3, <3>1, <3>2, Zenon
    <3>4. p = f[c]
      BY <1>1, <3>1
    <3>5. g = [f EXCEPT ![c] = o]
      BY <2>4, <3>3, <3>4, ZenonT(40)
    <3> QED
      BY <3>1, <3>2, <3>5, Zenon
  <2>6. /\ o \in Op
        /\ o.at = p.at /\ o.req = p.req /\ o.latest_rev = p.latest_rev /\ o.reached = p.reached
        /\ o.left = left /\ o.count = count /\ o.got = got
    BY DEF Op
  <2>7. p.at = "scan"
    BY <1>1 DEF RangeItem
  <2> HIDE DEF o
  <2>8. OpIs(c, o)
    BY <2>5, <2>6, OpUpdate DEF TypeOK
  <2>9. op'[c] = o
    BY <2>8 DEF OpIs
  <2>10. IsNext(c, k) /\ items[prefix_map[k]].writer = None
    BY <1>2
  <2>11. /\ op'[c].left = op[c].left \ {k}
         /\ op'[c].count = IF Found(c, k).live THEN op[c].count + 1 ELSE op[c].count
    BY <2>1, <2>2, <2>6, <2>9
  <2>12. p.got \in [Keys -> Nat]
    BY DEF Op
  <2>13. /\ \A l \in Keys : l # k => op'[c].got[l] = op[c].got[l]
         /\ op'[c].got[k] = n
    BY <1>1, <2>4, <2>6, <2>9, <2>12
  <2> QED
    BY <1>1, <2>3, <2>6, <2>7, <2>8, <2>9, <2>10, <2>11, <2>13
<1> QED
  BY <1>3, <1>4

LEMMA ReturnFacts ==
  ASSUME TypeOK, NEW c \in Clients, Return(c)
  PROVE  OpIs(c, Idle)
BY IdleType, OpUpdate DEF Return, TypeOK

LEMMA CreatePrefixFacts ==
  ASSUME TypeOK, NEW c \in Clients, CreatePrefix(c)
  PROVE  /\ OpIs(c, op'[c])
         /\ op'[c].at = "prefixed"
         /\ op'[c].req = op[c].req
         /\ op'[c].rev = op[c].rev
<1>1. PICK p \in Op : p = op[c]
  BY DEF TypeOK
<1> DEFINE o == [p EXCEPT !.at = "prefixed"]
<1>2. op' = [op EXCEPT ![c] = o]
  BY <1>1 DEF CreatePrefix, TypeOK
<1>3. o \in Op /\ o.at = "prefixed" /\ o.req = p.req /\ o.rev = p.rev
  BY DEF Op, Ats
<1> HIDE DEF o
<1>4. OpIs(c, o)
  BY <1>2, <1>3, OpUpdate DEF TypeOK
<1>5. op'[c] = o
  BY <1>4 DEF OpIs
<1> QED
  BY <1>1, <1>3, <1>4, <1>5

-------------------------------------------------------------------------------
(***************************************************************************)
(* The types and the counters.                                             *)
(***************************************************************************)
LEMMA FindValueType ==
  ASSUME TypeOK, NEW i \in Revs, NEW rev
  PROVE  FindValue(items[i], rev) \in Value
<1>1. NoValue \in Value
  BY DEF NoValue, Value
<1>2. items[i].latest_value \in Value /\ items[i].revisions \in SUBSET Revs
  BY DEF TypeOK, Item
<1>3. ASSUME NEW S \in SUBSET Revs, S # {}
      PROVE  Get(Max(S)) \in Value
  <2>1. S \subseteq 0 .. MaxRev
    BY DEF Revs
  <2>2. Max(S) \in Revs
    BY <1>3, <2>1, MaxType, StoreMaxRevAssumption
  <2> QED
    BY <1>1, <2>2 DEF Get, TypeOK
<1> DEFINE upTo == {r \in items[i].revisions : r <= rev}
<1>4. upTo \in SUBSET Revs
  BY <1>2
<1>5. FindValue(items[i], rev) = IF rev >= items[i].latest_value.mod_revision
                                 THEN items[i].latest_value
                                 ELSE IF upTo = {} THEN NoValue ELSE Get(Max(upTo))
  BY DEF FindValue
<1> HIDE DEF upTo
<1> QED
  BY <1>1, <1>2, <1>3, <1>4, <1>5

LEMMA FoundType ==
  ASSUME TypeOK, LeftInv, NEW c \in Clients, op[c].at = "scan", NEW k \in Keys, IsNext(c, k)
  PROVE  prefix_map[k] \in Revs /\ Found(c, k) \in Value
<1>1. prefix_map[k] \in Revs
  BY DEF TypeOK, LeftInv, IsNext
<1> QED
  BY <1>1, FindValueType DEF Found

(* A set that has not pushed yet. *)
WillPush(o) == o.at \in {"begun", "found", "create"} /\ o.req.kind = "set"

LEMMA MayPushFinite ==
  /\ IsFiniteSet(MayPush)
  /\ Cardinality(MayPush) \in Nat
  /\ \A c \in MayPush : Cardinality(MayPush) >= 1
<1>1. IsFiniteSet(MayPush)
  BY StoreClientsAssumption, FS_Subset DEF MayPush
<1>2. Cardinality(MayPush) \in Nat
  BY <1>1, FS_CardinalityType
<1>3. ASSUME NEW c \in MayPush PROVE Cardinality(MayPush) >= 1
  BY <1>1, <1>2, <1>3, FS_EmptySet
<1> QED
  BY <1>1, <1>2, <1>3

LEMMA MayPushSame ==
  ASSUME NEW c \in Clients, OpIs(c, op'[c]), WillPush(op'[c]) <=> WillPush(op[c])
  PROVE  MayPush' = MayPush
BY DEF OpIs, WillPush, MayPush

LEMMA MayPushLess ==
  ASSUME NEW c \in Clients, OpIs(c, op'[c]), WillPush(op[c]), ~WillPush(op'[c])
  PROVE  Cardinality(MayPush') = Cardinality(MayPush) - 1
<1>1. MayPush' = MayPush \ {c} /\ c \in MayPush
  BY DEF OpIs, WillPush, MayPush
<1> QED
  BY <1>1, MayPushFinite, FS_RemoveElement

LEMMA MayPushMore ==
  ASSUME NEW c \in Clients, OpIs(c, op'[c]), ~WillPush(op[c]), WillPush(op'[c])
  PROVE  Cardinality(MayPush') = Cardinality(MayPush) + 1
<1>1. MayPush' = MayPush \union {c} /\ c \notin MayPush
  BY DEF OpIs, WillPush, MayPush
<1> QED
  BY <1>1, MayPushFinite, FS_AddElement

(***************************************************************************)
(* A step that leaves the counters alone and adds no set that may push,    *)
(* nor a compaction.                                                       *)
(***************************************************************************)
LEMMA CountKept ==
  ASSUME BaseInv, NEW c \in Clients, OpIs(c, op'[c]),
         UNCHANGED <<start_offset, length, removing>>,
         WillPush(op'[c]) => WillPush(op[c]),
         op'[c].at # "compacting"
  PROVE  CountInv'
<1> USE DEF BaseInv
<1>1. Assigned' = Assigned
  BY DEF Assigned
<1>2. Cardinality(MayPush') <= Cardinality(MayPush) /\ Cardinality(MayPush') \in Int
      /\ Cardinality(MayPush) \in Nat
  <2>1. CASE WillPush(op[c]) /\ ~WillPush(op'[c])
    BY <2>1, MayPushLess, MayPushFinite
  <2>2. CASE ~(WillPush(op[c]) /\ ~WillPush(op'[c]))
    BY <2>2, MayPushSame, MayPushFinite
  <2> QED
    BY <2>1, <2>2
<1>3. (Assigned + Cardinality(MayPush) <= MaxRev)'
  BY <1>1, <1>2, StoreMaxRevAssumption DEF CountInv
<1>4. \A d \in Clients : op'[d].at = "compacting" => op[d].at = "compacting"
  BY DEF OpIs
<1> QED
  BY <1>1, <1>3, <1>4 DEF CountInv

LEMMA TypeKept ==
  ASSUME TypeOK, NEW c \in Clients, OpIs(c, op'[c]), OpFits(op'[c]), UNCHANGED storeVars
  PROVE  TypeOK'
<1>1. UNCHANGED <<tree_map, prefix_map, items, values, start_offset, length, removing, log>>
  BY DEF storeVars
<1>2. \A d \in Clients : OpFits(op'[d])
  BY DEF OpIs, TypeOK
<1>3. TypeOK' <=> /\ tree_map \in [Keys -> Revs \union {None}]
                  /\ prefix_map \in [Keys -> Revs \union {None}]
                  /\ items \in [Revs -> Item]
                  /\ values \in [Revs -> Value]
                  /\ start_offset \in Nat
                  /\ length \in Nat
                  /\ removing \in Nat \union {None}
                  /\ op' \in [Clients -> Op]
                  /\ \A d \in Clients : OpFits(op'[d])
                  /\ log \in [Revs -> Entry]
  BY <1>1 DEF TypeOK, OpFits
<1> QED
  BY <1>2, <1>3 DEF TypeOK, OpIs

(* The steps that change nothing but the client's record. *)
QuietStep(c) ==
  \/ \E req \in Requests : Begin(c, req)
  \/ ReadRevision(c) \/ SetLookup(c) \/ SetRefused(c)
  \/ RangeLookup(c) \/ RangeSkip(c) \/ RangeItem(c) \/ RangeDone(c)
  \/ Return(c)

(* What such a step makes of the client's record. *)
QuietFacts(c) ==
  /\ OpIs(c, op'[c])
  /\ OpFits(op'[c])
  /\ op'[c].at \in {"begun", "found", "create", "scan", "done", "idle"}
  /\ op[c].at \in {"idle", "begun", "found", "scan", "done"}
  /\ op'[c].at = "found" => \E k \in Keys : op'[c].item = tree_map[k] /\ tree_map[k] # None
  /\ op'[c].at = "scan" => \A k \in op'[c].left : prefix_map[k] # None
  /\ WillPush(op'[c]) => WillPush(op[c]) \/ Assigned + Cardinality(MayPush) < MaxRev
  /\ UNCHANGED storeVars

LEMMA QuietStepFacts ==
  ASSUME BaseInv, NEW c \in Clients, QuietStep(c)
  PROVE  QuietFacts(c)
<1> USE DEF BaseInv
<1>1. UNCHANGED storeVars
  BY DEF QuietStep, Begin, ReadRevision, SetLookup, SetRefused, RangeLookup, RangeSkip, RangeItem,
         RangeDone, Return
<1>2. op[c].at \in {"idle", "begun", "found", "scan", "done"}
  BY DEF QuietStep, Begin, ReadRevision, SetLookup, SetRefused, RangeLookup, RangeSkip, RangeItem,
         RangeDone, Return
<1>3. ASSUME NEW req \in Requests, Begin(c, req) PROVE QuietFacts(c)
  <2>1. /\ OpIs(c, op'[c]) /\ op'[c].at = "begun" /\ op'[c].req = req /\ op'[c].got = NoKeys
        /\ op'[c].count = 0 /\ op'[c].rev = 0 /\ req \in Requested
    BY <1>3, BeginFacts
  <2>2. req.kind = "set" => Assigned + Cardinality(MayPush) < MaxRev
    BY <1>3 DEF Begin
  <2> QED
    BY <1>1, <1>2, <2>1, <2>2 DEF QuietFacts, OpFits, WillPush
<1>4. ASSUME OpIs(c, op'[c]), op'[c].at = "done" PROVE QuietFacts(c)
  BY <1>1, <1>2, <1>4 DEF QuietFacts, OpFits, WillPush
<1>5. CASE ReadRevision(c)
  BY <1>4, <1>5, ReadRevisionFacts
<1>6. CASE SetLookup(c)
  <2>1. /\ OpIs(c, op'[c])
        /\ op'[c].req = op[c].req
        /\ op[c].req \in SetRequests
        /\ op'[c].at = IF tree_map[op[c].req.key] # None THEN "found"
                       ELSE IF NeedsItem(op[c].req) THEN "done" ELSE "create"
        /\ op'[c].item = IF tree_map[op[c].req.key] = None THEN 0 ELSE tree_map[op[c].req.key]
    BY <1>6, SetLookupFacts
  <2>2. op[c].at = "begun" /\ op[c].req.kind = "set"
    BY <1>6 DEF SetLookup
  <2>3. op[c].req.key \in Keys
    BY <2>1 DEF SetRequests
  <2>4. /\ op'[c].at = "found" => op'[c].item \in Revs
        /\ op'[c].at = "found" => \E k \in Keys : op'[c].item = tree_map[k] /\ tree_map[k] # None
    BY <2>1, <2>3 DEF TypeOK
  <2>5. op'[c].at \in {"found", "create", "done"}
    BY <2>1
  <2>6. OpFits(op'[c])
    BY <2>1, <2>4, <2>5 DEF OpFits
  <2> QED
    BY <1>1, <1>2, <2>1, <2>2, <2>4, <2>5, <2>6 DEF QuietFacts, WillPush
<1>7. CASE SetRefused(c)
  BY <1>4, <1>7, SetRefusedFacts
<1>8. CASE RangeLookup(c)
  <2>1. /\ OpIs(c, op'[c])
        /\ op'[c].at \in {"scan", "done"}
        /\ op'[c].req = op[c].req
        /\ op[c].req \in RangeRequests
        /\ op'[c].left = {k \in op[c].req.keys : prefix_map[k] # None}
    BY <1>8, RangeLookupFacts DEF CountInv
  <2> QED
    BY <1>1, <1>2, <2>1 DEF QuietFacts, OpFits, WillPush
<1>9. CASE RangeSkip(c)
  <2>1. PICK k \in Keys : /\ OpIs(c, op'[c])
                          /\ op'[c].at = "scan"
                          /\ op'[c].req = op[c].req
                          /\ op'[c].left = op[c].left \ {k}
    BY <1>9, RangeSkipFacts
  <2>2. op[c].at = "scan"
    BY <1>9 DEF RangeSkip
  <2>3. op[c].req \in RangeRequests /\ \A l \in op[c].left : prefix_map[l] # None
    BY <2>2 DEF TypeOK, OpFits, LeftInv
  <2> QED
    BY <1>1, <1>2, <2>1, <2>3 DEF QuietFacts, OpFits, WillPush
<1>10. CASE RangeItem(c)
  <2>1. op[c].at = "scan"
    BY <1>10 DEF RangeItem
  <2>2. \A k \in Keys : IsNext(c, k) => Found(c, k).mod_revision \in Nat
    BY <2>1, FoundType DEF Value
  <2>3. PICK k \in Keys :
          /\ OpIs(c, op'[c])
          /\ op'[c].req = op[c].req
          /\ op'[c].at = "done" \/ (op'[c].at = "scan" /\ op'[c].left = op[c].left \ {k})
    BY <1>10, <2>2, RangeItemFacts
  <2>4. op[c].req \in RangeRequests /\ \A l \in op[c].left : prefix_map[l] # None
    BY <2>1 DEF TypeOK, OpFits, LeftInv
  <2> QED
    BY <1>1, <1>2, <2>3, <2>4 DEF QuietFacts, OpFits, WillPush
<1>11. CASE RangeDone(c)
  <2>1. "ok" \in Results /\ Finish(c, "ok")
    BY <1>11 DEF RangeDone, Results
  <2> QED
    BY <1>4, <2>1, FinishFacts
<1>12. CASE Return(c)
  <2>1. OpIs(c, Idle)
    BY <1>12, ReturnFacts
  <2>2. op'[c].at = "idle" /\ OpIs(c, op'[c])
    BY <2>1 DEF OpIs, Idle
  <2> QED
    BY <1>1, <1>2, <2>2 DEF QuietFacts, OpFits, WillPush
<1> QED
  BY <1>3, <1>5, <1>6, <1>7, <1>8, <1>9, <1>10, <1>11, <1>12 DEF QuietStep

LEMMA QuietBase ==
  ASSUME BaseInv, NEW c \in Clients, QuietFacts(c)
  PROVE  BaseInv'
<1> USE DEF BaseInv
<1>1. OpIs(c, op'[c]) /\ UNCHANGED storeVars
  BY DEF QuietFacts
<1>2. UNCHANGED <<tree_map, prefix_map, items, values, start_offset, length, removing, log>>
  BY <1>1 DEF storeVars
<1>3. TypeOK'
  BY <1>1, TypeKept DEF QuietFacts
<1>4. CountInv'
  <2>1. CASE WillPush(op'[c]) => WillPush(op[c])
    <3>1. op'[c].at # "compacting"
      BY DEF QuietFacts
    <3> QED
      BY <1>1, <1>2, <2>1, <3>1, CountKept
  <2>2. CASE ~(WillPush(op'[c]) => WillPush(op[c]))
    <3>1. Cardinality(MayPush') = Cardinality(MayPush) + 1
      BY <1>1, <2>2, MayPushMore
    <3>2. Assigned + Cardinality(MayPush) < MaxRev
      BY <2>2 DEF QuietFacts
    <3>3. Assigned' = Assigned
      BY <1>2 DEF Assigned
    <3>4. (Assigned + Cardinality(MayPush) <= MaxRev)'
      BY <3>1, <3>2, <3>3, MayPushFinite, StoreMaxRevAssumption DEF CountInv
    <3>5. \A d \in Clients : op'[d].at = "compacting" => op[d].at = "compacting"
      BY DEF QuietFacts, OpIs
    <3> QED
      BY <1>2, <3>3, <3>4, <3>5 DEF CountInv
  <2> QED
    BY <2>1, <2>2
<1>5. LeftInv'
  BY <1>1, <1>2 DEF LeftInv, QuietFacts, OpIs
<1> QED
  BY <1>3, <1>4, <1>5

-------------------------------------------------------------------------------
(***************************************************************************)
(* What the other steps do, field by field.                                *)
(***************************************************************************)
(* The entry of a revision that c has just taken, of item i. *)
Pushed(c, i) ==
  /\ Assigned + 1 \in Revs
  /\ Assigned' = Assigned + 1
  /\ length' = length + 1
  /\ log' \in [Revs -> Entry]
  /\ \A r \in Revs : r # Assigned + 1 => log'[r] = log[r]
  /\ log'[Assigned + 1].key = op[c].req.key
  /\ log'[Assigned + 1].item = i
  /\ log'[Assigned + 1].last = op[c].req.last
  /\ log'[Assigned + 1].version = op[c].req.version
  /\ log'[Assigned + 1].value = NoValue

LEMMA PushFacts ==
  ASSUME BaseInv, NEW c \in Clients, op[c].at \in {"found", "create"}, PushRevision(c),
         UNCHANGED <<start_offset, removing>>
  PROVE  Pushed(c, IF op[c].at = "found" THEN op[c].item ELSE Assigned + 1)
<1> USE DEF BaseInv
<1>1. op[c].req \in SetRequests /\ op[c].item \in 0 .. MaxRev
  BY DEF TypeOK, OpFits, Op
<1>2. c \in MayPush
  BY <1>1 DEF MayPush, SetRequests
<1>3. Assigned + 1 \in Revs
  <2>1. Cardinality(MayPush) >= 1 /\ Cardinality(MayPush) \in Nat
    BY <1>2, MayPushFinite
  <2> QED
    BY <2>1, StoreMaxRevAssumption DEF CountInv, Revs
<1>4. Assigned' = Assigned + 1
  BY DEF PushRevision, Assigned, TypeOK
<1>5. PICK i \in 0 .. MaxRev : i = IF op[c].at = "found" THEN op[c].item ELSE Assigned + 1
  BY <1>1, <1>3, StoreMaxRevAssumption DEF Revs
<1> DEFINE e == [key |-> op[c].req.key, item |-> i, last |-> op[c].req.last,
                 version |-> op[c].req.version, value |-> NoValue]
<1>6. e \in Entry
  BY <1>1, StoreKeysAssumption DEF Entry, SetRequests, Value, NoValue
<1>7. log' = [log EXCEPT ![Assigned + 1] = e] /\ length' = length + 1
  BY <1>5, Zenon DEF PushRevision
<1>8. /\ e.key = op[c].req.key /\ e.item = i /\ e.last = op[c].req.last
      /\ e.version = op[c].req.version /\ e.value = NoValue
  OBVIOUS
<1> HIDE DEF e
<1>9. /\ log' \in [Revs -> Entry]
      /\ \A r \in Revs : r # Assigned + 1 => log'[r] = log[r]
      /\ log'[Assigned + 1] = e
  BY <1>3, <1>6, <1>7 DEF TypeOK
<1> QED
  BY <1>3, <1>4, <1>5, <1>7, <1>8, <1>9 DEF Pushed

(* Only item i changes. *)
ItemIs(i, n) ==
  /\ items' \in [Revs -> Item]
  /\ items'[i] = n
  /\ \A j \in Revs : j # i => items'[j] = items[j]

LEMMA SetPushFacts ==
  ASSUME BaseInv, NEW c \in Clients, SetPush(c)
  PROVE  /\ op[c].at = "found" /\ op[c].item \in Revs /\ op[c].req \in SetRequests
         /\ items[op[c].item].writer = None
         /\ ~Refused(op[c].req, items[op[c].item].latest_value)
         /\ removing = None
         /\ Pushed(c, op[c].item)
         /\ ItemIs(op[c].item, items'[op[c].item])
         /\ items'[op[c].item].writer = c
         /\ items'[op[c].item].latest_value = items[op[c].item].latest_value
         /\ items'[op[c].item].revisions = {r \in items[op[c].item].revisions : r >= start_offset}
         /\ OpIs(c, op'[c])
         /\ op'[c].at = "pushed" /\ op'[c].req = op[c].req /\ op'[c].item = op[c].item
         /\ op'[c].rev = Assigned + 1
         /\ UNCHANGED <<tree_map, prefix_map, values, start_offset, removing>>
<1> USE DEF BaseInv
<1>1. op[c].at = "found" /\ op[c].item \in Revs /\ op[c].req \in SetRequests
  BY DEF SetPush, TypeOK, OpFits
<1>2. UNCHANGED <<tree_map, prefix_map, values, start_offset, removing>> /\ PushRevision(c)
      /\ removing = None
  BY DEF SetPush, PushRevision
<1>3. Pushed(c, op[c].item)
  BY <1>1, <1>2, PushFacts
<1>4. PICK i \in Revs : i = op[c].item
  BY <1>1
<1>5. PICK revs \in SUBSET Revs : revs = {r \in items[i].revisions : r >= start_offset}
  BY DEF TypeOK, Item
<1>6. PICK x \in Item : x = items[i]
  BY DEF TypeOK
<1> DEFINE n == [x EXCEPT !.writer = c, !.revisions = revs]
<1>7. items' = [items EXCEPT ![i] = n]
  <2>1. PICK f \in [Revs -> Item] : f = items
    BY DEF TypeOK
  <2>2. PICK g : g = items'
    OBVIOUS
  <2>3. g = [f EXCEPT ![i].writer = c, ![i].revisions = revs]
    BY <1>4, <1>5, <2>1, <2>2, Zenon DEF SetPush
  <2>4. x = f[i]
    BY <1>6, <2>1
  <2>5. g = [f EXCEPT ![i] = n]
    BY <2>3, <2>4
  <2> QED
    BY <2>1, <2>2, <2>5, Zenon
<1>8. n \in Item /\ n.writer = c /\ n.revisions = revs /\ n.latest_value = x.latest_value
  BY DEF Item
<1> HIDE DEF n
<1>9. ItemIs(i, n)
  BY <1>7, <1>8 DEF TypeOK, ItemIs
<1>10. items'[i] = n
  BY <1>9 DEF ItemIs
<1>11. Assigned + 1 \in Nat /\ "pushed" \in Ats /\ "none" \in Results
       /\ Proceed(c, "pushed", "none", Assigned + 1)
  BY <1>3 DEF CountInv, Ats, Results, SetPush
<1>12. /\ OpIs(c, op'[c])
       /\ op'[c].at = "pushed" /\ op'[c].req = op[c].req /\ op'[c].item = op[c].item
       /\ op'[c].rev = Assigned + 1
  BY <1>11, ProceedFacts
<1>13. /\ items[op[c].item].writer = None
       /\ ~Refused(op[c].req, items[op[c].item].latest_value)
  BY DEF SetPush
<1> QED
  BY <1>1, <1>2, <1>3, <1>4, <1>5, <1>6, <1>8, <1>9, <1>10, <1>12, <1>13

LEMMA CreatePushFacts ==
  ASSUME BaseInv, NEW c \in Clients, CreatePush(c)
  PROVE  /\ op[c].at = "create" /\ op[c].req \in SetRequests
         /\ removing = None
         /\ Pushed(c, Assigned + 1)
         /\ OpIs(c, op'[c])
         /\ op'[c].at = "created" /\ op'[c].req = op[c].req /\ op'[c].item = op[c].item
         /\ op'[c].rev = Assigned + 1
         /\ UNCHANGED <<tree_map, prefix_map, items, values, start_offset, removing>>
<1> USE DEF BaseInv
<1>1. op[c].at = "create" /\ op[c].req \in SetRequests
  BY DEF CreatePush, TypeOK, OpFits
<1>2. UNCHANGED <<tree_map, prefix_map, items, values, start_offset, removing>> /\ PushRevision(c)
      /\ removing = None
  BY DEF CreatePush, PushRevision
<1>3. Pushed(c, Assigned + 1)
  BY <1>1, <1>2, PushFacts
<1>4. Assigned + 1 \in Nat /\ "created" \in Ats /\ "none" \in Results
      /\ Proceed(c, "created", "none", Assigned + 1)
  BY <1>3 DEF CountInv, Ats, Results, CreatePush
<1>5. /\ OpIs(c, op'[c])
      /\ op'[c].at = "created" /\ op'[c].req = op[c].req /\ op'[c].item = op[c].item
      /\ op'[c].rev = Assigned + 1
  BY <1>4, ProceedFacts
<1> QED
  BY <1>1, <1>2, <1>3, <1>5

(* The value of revision rev is set to v. *)
ValueSet(rev, v) ==
  /\ log' \in [Revs -> Entry]
  /\ values' \in [Revs -> Value]
  /\ \A r \in Revs : r # rev => log'[r] = log[r] /\ values'[r] = values[r]
  /\ log'[rev].key = log[rev].key
  /\ log'[rev].item = log[rev].item
  /\ log'[rev].last = log[rev].last
  /\ log'[rev].version = log[rev].version
  /\ log'[rev].value = v
  /\ rev > start_offset => values'[rev] = v
  /\ removing = None

LEMMA SetValueFacts ==
  ASSUME TypeOK, NEW rev \in Revs, NEW v \in Value, SetValue(rev, v)
  PROVE  ValueSet(rev, v)
<1>1. PICK x \in Entry : x = log[rev]
  BY DEF TypeOK
<1> DEFINE n == [x EXCEPT !.value = v]
<1>2. log' = [log EXCEPT ![rev] = n]
  BY <1>1 DEF SetValue, TypeOK
<1>3. /\ n \in Entry
      /\ n.key = x.key /\ n.item = x.item /\ n.last = x.last /\ n.version = x.version
      /\ n.value = v
  BY DEF Entry
<1> HIDE DEF n
<1>4. log' \in [Revs -> Entry] /\ log'[rev] = n /\ \A r \in Revs : r # rev => log'[r] = log[r]
  BY <1>2, <1>3 DEF TypeOK
<1>5. /\ values' \in [Revs -> Value]
      /\ \A r \in Revs : r # rev => values'[r] = values[r]
      /\ rev > start_offset => values'[rev] = v
  BY DEF SetValue, TypeOK, Revs
<1>6. removing = None
  BY DEF SetValue
<1> QED
  BY <1>1, <1>3, <1>4, <1>5, <1>6 DEF ValueSet

LEMMA SuccessorFacts ==
  ASSUME NEW v \in Value, NEW rev \in Nat, NEW live \in BOOLEAN
  PROVE  /\ Successor(v, rev, live) \in Value
         /\ Successor(v, rev, live).mod_revision = rev
         /\ Successor(v, rev, live).live = live
         /\ Successor(v, rev, live).version >= 1
         /\ Successor(v, rev, live).version = IF v.live THEN v.version + 1 ELSE 1
         /\ Successor(v, rev, live).create_revision = IF v.live THEN v.create_revision ELSE rev
BY DEF Successor, Value

LEMMA SetStoreFacts ==
  ASSUME TypeOK, NEW c \in Clients, SetStore(c)
  PROVE  /\ op[c].at = "pushed" /\ op[c].item \in Revs /\ op[c].rev \in Revs
         /\ op[c].req \in SetRequests
         /\ LET i == op[c].item
                v == Successor(items[i].latest_value, op[c].rev, ~op[c].req.del)
            IN  /\ ValueSet(op[c].rev, v)
                /\ ItemIs(i, items'[i])
                /\ items'[i].latest_value = v
                /\ items'[i].writer = None
                /\ items'[i].revisions = items[i].revisions \union {op[c].rev}
         /\ OpIs(c, op'[c])
         /\ op'[c].at = "done" /\ op'[c].req = op[c].req /\ op'[c].rev = op[c].rev
         /\ op'[c].result = "ok"
         /\ UNCHANGED <<tree_map, prefix_map, start_offset, length, removing>>
<1>1. op[c].at = "pushed" /\ op[c].item \in Revs /\ op[c].rev \in Revs /\ op[c].req \in SetRequests
  BY DEF SetStore, TypeOK, OpFits
<1>2. PICK i \in Revs : i = op[c].item
  BY <1>1
<1>3. PICK rev \in Revs : rev = op[c].rev
  BY <1>1
<1>4. rev \in Nat /\ items[i].latest_value \in Value /\ (~op[c].req.del) \in BOOLEAN
      /\ items[i].revisions \in SUBSET Revs
  BY <1>1 DEF Revs, TypeOK, Item, SetRequests
<1>5. PICK v : v = Successor(items[i].latest_value, rev, ~op[c].req.del)
  OBVIOUS
<1>6. v \in Value
  BY <1>4, <1>5, SuccessorFacts
<1>7. SetValue(rev, v) /\ items' = [items EXCEPT ![i] = [revisions |-> items[i].revisions \union {rev},
                                                       latest_value |-> v, writer |-> None]]
  BY <1>2, <1>3, <1>5, Zenon DEF SetStore
<1>8. ValueSet(rev, v)
  BY <1>6, <1>7, SetValueFacts
<1> DEFINE n == [revisions |-> items[i].revisions \union {rev}, latest_value |-> v, writer |-> None]
<1>9. /\ n \in Item /\ n.revisions = items[i].revisions \union {rev} /\ n.latest_value = v
      /\ n.writer = None
  BY <1>4, <1>6 DEF Item
<1> HIDE DEF n
<1>10. ItemIs(i, n)
  BY <1>7, <1>9 DEF TypeOK, ItemIs, n
<1>11. items'[i] = n
  BY <1>10 DEF ItemIs
<1>12. "done" \in Ats /\ "ok" \in Results /\ op[c].rev \in Nat /\ Proceed(c, "done", "ok", op[c].rev)
  BY <1>3, <1>4 DEF Ats, Results, SetStore
<1>13. /\ OpIs(c, op'[c])
       /\ op'[c].at = "done" /\ op'[c].req = op[c].req /\ op'[c].rev = op[c].rev
       /\ op'[c].result = "ok"
  BY <1>12, ProceedFacts
<1>14. UNCHANGED <<tree_map, prefix_map, start_offset, length, removing>>
  BY DEF SetStore
<1> QED
  BY <1>1, <1>2, <1>3, <1>5, <1>8, <1>9, <1>10, <1>11, <1>13, <1>14

LEMMA CreatePrefixItem ==
  ASSUME TypeOK, NEW c \in Clients, CreatePrefix(c)
  PROVE  /\ op[c].at = "created" /\ op[c].rev \in Revs /\ op[c].req \in SetRequests
         /\ \A d \in Clients : op[d].at # "scan"
         /\ LET rev == op[c].rev
                v == Successor(NoValue, rev, TRUE)
            IN  /\ ValueSet(rev, v)
                /\ ItemIs(rev, items'[rev])
                /\ items'[rev].latest_value = v
                /\ items'[rev].writer = None
                /\ items'[rev].revisions = {rev}
         /\ prefix_map' = [prefix_map EXCEPT ![op[c].req.key] = op[c].rev]
         /\ UNCHANGED <<tree_map, start_offset, length, removing>>
<1>1. op[c].at = "created" /\ op[c].rev \in Revs /\ op[c].req \in SetRequests
  BY DEF CreatePrefix, TypeOK, OpFits
<1>2. PICK rev \in Revs : rev = op[c].rev
  BY <1>1
<1>3. rev \in Nat /\ NoValue \in Value /\ TRUE \in BOOLEAN
  BY DEF Revs, NoValue, Value
<1>4. PICK v : v = Successor(NoValue, rev, TRUE)
  OBVIOUS
<1>5. v \in Value
  BY <1>3, <1>4, SuccessorFacts
<1>6. SetValue(rev, v) /\ items' = [items EXCEPT ![rev] = [revisions |-> {rev}, latest_value |-> v,
                                                         writer |-> None]]
  BY <1>2, <1>4, Zenon DEF CreatePrefix
<1>7. ValueSet(rev, v)
  BY <1>5, <1>6, SetValueFacts
<1> DEFINE n == [revisions |-> {rev}, latest_value |-> v, writer |-> None]
<1>8. n \in Item /\ n.revisions = {rev} /\ n.latest_value = v /\ n.writer = None
  BY <1>5 DEF Item
<1> HIDE DEF n
<1>9. ItemIs(rev, n)
  BY <1>6, <1>8 DEF TypeOK, ItemIs, n
<1>10. items'[rev] = n
  BY <1>9 DEF ItemIs
<1>11. /\ \A d \in Clients : op[d].at # "scan"
       /\ prefix_map' = [prefix_map EXCEPT ![op[c].req.key] = op[c].rev]
       /\ UNCHANGED <<tree_map, start_offset, length, removing>>
  BY DEF CreatePrefix, Scanning
<1> QED
  BY <1>1, <1>2, <1>4, <1>7, <1>8, <1>9, <1>10, <1>11

LEMMA CreateTreeFacts ==
  ASSUME TypeOK, NEW c \in Clients, CreateTree(c)
  PROVE  /\ op[c].at = "prefixed" /\ op[c].rev \in Revs /\ op[c].req \in SetRequests
         /\ tree_map' = [tree_map EXCEPT ![op[c].req.key] = op[c].rev]
         /\ OpIs(c, op'[c])
         /\ op'[c].at = "done" /\ op'[c].req = op[c].req /\ op'[c].rev = op[c].rev
         /\ op'[c].result = "ok"
         /\ UNCHANGED <<prefix_map, items, values, start_offset, length, removing, log>>
<1>1. op[c].at = "prefixed" /\ op[c].rev \in Revs /\ op[c].req \in SetRequests
  BY DEF CreateTree, TypeOK, OpFits
<1>2. "done" \in Ats /\ "ok" \in Results /\ op[c].rev \in Nat /\ Proceed(c, "done", "ok", op[c].rev)
  BY <1>1 DEF Ats, Results, CreateTree, Revs
<1>3. /\ OpIs(c, op'[c])
      /\ op'[c].at = "done" /\ op'[c].req = op[c].req /\ op'[c].rev = op[c].rev
      /\ op'[c].result = "ok"
  BY <1>2, ProceedFacts
<1> QED
  BY <1>1, <1>3 DEF CreateTree

(* A compaction changes the counters, but not how many revisions there are. *)
CompactFacts(c) ==
  /\ OpIs(c, op'[c])
  /\ op[c].at \in {"begun", "compacting"}
  /\ op'[c].at \in {"compacting", "done"}
  /\ op'[c].req = op[c].req /\ op[c].req \in CompactRequests
  /\ Assigned' = Assigned
  /\ start_offset' \in Nat /\ length' \in Nat /\ removing' \in Nat \union {None}
  /\ start_offset' >= start_offset
  /\ removing' # None => removing' >= start_offset'
  /\ \/ removing = None /\ op'[c].at = "compacting" /\ removing' # None
     \/ removing' = removing /\ op'[c].at = "done" /\ op[c].at = "begun"
     \/ op[c].at = "compacting" /\ op'[c].at = "done" /\ removing' = None
  /\ UNCHANGED <<tree_map, prefix_map, items, values, log>>

LEMMA CompactStepFacts ==
  ASSUME BaseInv, NEW c \in Clients, CompactStart(c) \/ CompactFinish(c)
  PROVE  CompactFacts(c)
<1> USE DEF BaseInv
<1>0. /\ start_offset \in Nat /\ length \in Nat /\ None \notin Nat /\ removing \in Nat \union {None}
      /\ removing # None => removing >= start_offset
      /\ "done" \in Ats /\ "compacting" \in Ats /\ {"ok", "err", "none"} \subseteq Results /\ 0 \in Nat
  BY StoreClientsAssumption DEF TypeOK, CountInv, Ats, Results
<1>1. CASE CompactStart(c)
  <2>1. op[c].at = "begun" /\ removing = None /\ op[c].req.kind = "compact"
    BY <1>1 DEF CompactStart
  <2>2. op[c].req.rev \in Int /\ op[c].req \in CompactRequests
    <3>1. op[c].req \in Requested
      BY <2>1 DEF TypeOK, OpFits
    <3>2. op[c].req \in CompactRequests
      BY <2>1, <3>1 DEF Requested, SetRequests, RangeRequests, RevisionRequest
    <3> QED
      BY <3>2 DEF CompactRequests
  <2>3. UNCHANGED <<tree_map, prefix_map, items, values, start_offset, log>>
    BY <1>1 DEF CompactStart
  <2>4. CASE Proceed(c, "done", "err", 0) /\ UNCHANGED <<length, removing>>
    <3>1. OpIs(c, op'[c]) /\ op'[c].at = "done" /\ op'[c].req = op[c].req
      BY <1>0, <2>4, ProceedFacts
    <3>2. Assigned' = Assigned
      BY <2>3, <2>4 DEF Assigned
    <3> QED
      BY <1>0, <2>1, <2>2, <2>3, <2>4, <3>1, <3>2 DEF CompactFacts
  <2>5. CASE ~(Proceed(c, "done", "err", 0) /\ UNCHANGED <<length, removing>>)
    <3>1. PICK rev \in Int : rev = op[c].req.rev
      BY <2>2
    <3>2. /\ rev >= 1
          /\ rev - 1 <= start_offset + length
          /\ rev - 1 >= start_offset
          /\ length' = Shortened(rev - 1)
          /\ removing' = rev - 1
          /\ Proceed(c, "compacting", "none", 0)
      BY <1>1, <2>5, <3>1 DEF CompactStart
    <3>3. OpIs(c, op'[c]) /\ op'[c].at = "compacting" /\ op'[c].req = op[c].req
      BY <1>0, <3>2, ProceedFacts
    <3>4. /\ length' = length - ((rev - 1) - start_offset) /\ length' \in Nat
          /\ removing' \in Nat /\ removing' # None
      BY <1>0, <3>2 DEF Shortened
    <3>5. Assigned' = Assigned
      <4>1. Assigned = start_offset + length
        BY <1>0, <2>1 DEF Assigned
      <4>2. Assigned' = start_offset' + length' + (removing' - start_offset')
        BY <3>4 DEF Assigned
      <4>3. Assigned' = start_offset + length' + ((rev - 1) - start_offset)
        BY <2>3, <3>2, <4>2
      <4> QED
        BY <1>0, <3>4, <4>1, <4>3
    <3> QED
      BY <1>0, <2>1, <2>2, <2>3, <3>2, <3>3, <3>4, <3>5 DEF CompactFacts
  <2> QED
    BY <2>4, <2>5
<1>2. CASE CompactFinish(c)
  <2>1. /\ op[c].at = "compacting"
        /\ start_offset' = removing /\ removing' = None
        /\ Proceed(c, "done", "ok", 0)
        /\ UNCHANGED <<tree_map, prefix_map, items, values, length, log>>
    BY <1>2 DEF CompactFinish
  <2>2. removing # None /\ op[c].req \in CompactRequests
    BY <2>1 DEF CountInv, TypeOK, OpFits
  <2>3. OpIs(c, op'[c]) /\ op'[c].at = "done" /\ op'[c].req = op[c].req
    BY <1>0, <2>1, ProceedFacts
  <2>4. Assigned' = Assigned
    BY <1>0, <2>1, <2>2 DEF Assigned
  <2> QED
    BY <1>0, <2>1, <2>2, <2>3, <2>4 DEF CompactFacts
<1> QED
  BY <1>1, <1>2

-------------------------------------------------------------------------------
(***************************************************************************)
(* The types and the counters survive those steps too.                     *)
(***************************************************************************)
LEMMA TypeNext ==
  ASSUME TypeOK, NEW c \in Clients, OpIs(c, op'[c]), OpFits(op'[c]),
         tree_map' \in [Keys -> Revs \union {None}],
         prefix_map' \in [Keys -> Revs \union {None}],
         items' \in [Revs -> Item],
         values' \in [Revs -> Value],
         start_offset' \in Nat,
         length' \in Nat,
         removing' \in Nat \union {None},
         log' \in [Revs -> Entry]
  PROVE  TypeOK'
<1>1. \A d \in Clients : OpFits(op'[d])
  BY DEF OpIs, TypeOK
<1>2. op' \in [Clients -> Op]
  BY DEF OpIs
<1>3. TypeOK' <=> /\ tree_map' \in [Keys -> Revs \union {None}]
                  /\ prefix_map' \in [Keys -> Revs \union {None}]
                  /\ items' \in [Revs -> Item]
                  /\ values' \in [Revs -> Value]
                  /\ start_offset' \in Nat
                  /\ length' \in Nat
                  /\ removing' \in Nat \union {None}
                  /\ op' \in [Clients -> Op]
                  /\ \A d \in Clients : OpFits(op'[d])
                  /\ log' \in [Revs -> Entry]
  BY DEF TypeOK, OpFits
<1> QED
  BY <1>1, <1>2, <1>3

(* Of a scan only the client that makes it changes what is left. *)
LEMMA LeftKept ==
  ASSUME LeftInv, NEW c \in Clients, OpIs(c, op'[c]), op'[c].at # "scan",
         prefix_map' = prefix_map \/ \A d \in Clients : op[d].at # "scan"
  PROVE  LeftInv'
BY DEF LeftInv, OpIs

LEMMA PushBase ==
  ASSUME BaseInv, NEW c \in Clients, SetPush(c) \/ CreatePush(c)
  PROVE  BaseInv'
<1> USE DEF BaseInv
<1>1. PICK i : /\ Pushed(c, i)
               /\ op[c].at \in {"found", "create"} /\ op[c].req \in SetRequests
               /\ OpIs(c, op'[c])
               /\ op'[c].at \in {"pushed", "created"} /\ op'[c].req = op[c].req
               /\ op'[c].item = op[c].item
               /\ op'[c].at = "pushed" => op[c].item \in Revs
               /\ op'[c].rev = Assigned + 1
               /\ items' \in [Revs -> Item]
               /\ UNCHANGED <<tree_map, prefix_map, values, start_offset, removing>>
  <2>1. CASE SetPush(c)
    BY <2>1, SetPushFacts DEF ItemIs
  <2>2. CASE CreatePush(c)
    BY <2>2, CreatePushFacts DEF TypeOK
  <2> QED
    BY <2>1, <2>2
<1>2. TypeOK'
  <2>1. OpFits(op'[c])
    BY <1>1 DEF OpFits, Pushed
  <2>2. length' \in Nat /\ log' \in [Revs -> Entry]
    BY <1>1 DEF Pushed, TypeOK
  <2> QED
    BY <1>1, <2>1, <2>2, TypeNext DEF TypeOK
<1>3. CountInv'
  <2>1. Cardinality(MayPush') = Cardinality(MayPush) - 1
    <3>1. WillPush(op[c]) /\ ~WillPush(op'[c])
      BY <1>1 DEF WillPush, SetRequests
    <3> QED
      BY <1>1, <3>1, MayPushLess
  <2>2. (Assigned + Cardinality(MayPush) <= MaxRev)'
    BY <1>1, <2>1, MayPushFinite, StoreMaxRevAssumption DEF CountInv, Pushed
  <2>3. Assigned' \in Nat /\ Assigned' >= 1
    BY <1>1 DEF CountInv, Pushed
  <2>4. \A d \in Clients : op'[d].at = "compacting" => op[d].at = "compacting"
    BY <1>1 DEF OpIs
  <2> QED
    BY <1>1, <2>2, <2>3, <2>4 DEF CountInv
<1>4. LeftInv'
  <2>1. op'[c].at # "scan"
    BY <1>1
  <2> QED
    BY <1>1, <2>1, LeftKept
<1> QED
  BY <1>2, <1>3, <1>4

LEMMA StoreBase ==
  ASSUME BaseInv, NEW c \in Clients, SetStore(c) \/ CreatePrefix(c) \/ CreateTree(c)
  PROVE  BaseInv'
<1> USE DEF BaseInv
<1>1. /\ op[c].at \in {"pushed", "created", "prefixed"} /\ op[c].req \in SetRequests
      /\ op[c].rev \in Revs
      /\ OpIs(c, op'[c])
      /\ op'[c].at \in {"done", "prefixed"} /\ op'[c].req = op[c].req /\ op'[c].rev = op[c].rev
      /\ items' \in [Revs -> Item]
      /\ values' \in [Revs -> Value]
      /\ log' \in [Revs -> Entry]
      /\ tree_map' \in [Keys -> Revs \union {None}]
      /\ prefix_map' \in [Keys -> Revs \union {None}]
      /\ prefix_map' = prefix_map \/ \A d \in Clients : op[d].at # "scan"
      /\ UNCHANGED <<start_offset, length, removing>>
  <2>1. CASE SetStore(c)
    BY <2>1, SetStoreFacts DEF ItemIs, ValueSet, TypeOK
  <2>2. CASE CreatePrefix(c)
    <3>1. prefix_map' \in [Keys -> Revs \union {None}]
      BY <2>2, CreatePrefixItem DEF TypeOK
    <3> QED
      BY <2>2, <3>1, CreatePrefixItem, CreatePrefixFacts DEF ItemIs, ValueSet, TypeOK
  <2>3. CASE CreateTree(c)
    <3>1. tree_map' \in [Keys -> Revs \union {None}]
      BY <2>3, CreateTreeFacts DEF TypeOK
    <3> QED
      BY <2>3, <3>1, CreateTreeFacts DEF TypeOK
  <2> QED
    BY <2>1, <2>2, <2>3
<1>2. TypeOK'
  <2>1. OpFits(op'[c])
    BY <1>1 DEF OpFits
  <2> QED
    BY <1>1, <2>1, TypeNext DEF TypeOK
<1>3. CountInv'
  <2>1. ~WillPush(op'[c]) /\ op'[c].at # "compacting"
    BY <1>1 DEF WillPush
  <2> QED
    BY <1>1, <2>1, CountKept
<1>4. LeftInv'
  <2>1. op'[c].at # "scan"
    BY <1>1
  <2> QED
    BY <1>1, <2>1, LeftKept
<1> QED
  BY <1>2, <1>3, <1>4

LEMMA CompactBase ==
  ASSUME BaseInv, NEW c \in Clients, CompactFacts(c)
  PROVE  BaseInv'
<1> USE DEF BaseInv, CompactFacts
<1>1. OpIs(c, op'[c]) /\ op'[c].at \in {"compacting", "done"}
  OBVIOUS
<1>2. TypeOK'
  <2>1. OpFits(op'[c])
    BY <1>1 DEF OpFits
  <2> QED
    BY <1>1, <2>1, TypeNext DEF TypeOK
<1>3. CountInv'
  <2>1. Cardinality(MayPush') <= Cardinality(MayPush) /\ Cardinality(MayPush') \in Int
    <3>1. ~WillPush(op'[c])
      BY <1>1 DEF WillPush
    <3>2. CASE WillPush(op[c])
      BY <1>1, <3>1, <3>2, MayPushLess, MayPushFinite
    <3>3. CASE ~WillPush(op[c])
      BY <1>1, <3>1, <3>3, MayPushSame, MayPushFinite
    <3> QED
      BY <3>2, <3>3
  <2>2. (Assigned + Cardinality(MayPush) <= MaxRev)'
    BY <2>1, MayPushFinite, StoreMaxRevAssumption DEF CountInv
  <2>3. \A d \in Clients : op'[d].at = "compacting" => d = c \/ op[d].at = "compacting"
    BY <1>1 DEF OpIs
  <2>4. \A d \in Clients : op'[d].at = "compacting" => removing' # None
    BY <1>1, <2>3 DEF CountInv
  <2>5. \A d, e \in Clients : op'[d].at = "compacting" /\ op'[e].at = "compacting" => d = e
    BY <1>1, <2>3 DEF CountInv
  <2>6. Assigned' \in Nat /\ Assigned' >= 1 /\ (removing' # None => removing' >= start_offset')
    BY DEF CountInv
  <2> QED
    BY <2>2, <2>4, <2>5, <2>6 DEF CountInv
<1>4. LeftInv'
  <2>1. op'[c].at # "scan"
    BY <1>1
  <2> QED
    BY <1>1, <2>1, LeftKept
<1> QED
  BY <1>2, <1>3, <1>4

(* A step is one of a client's, of one of six kinds. *)
LEMMA NextCases ==
  ASSUME BaseInv, Next
  PROVE  \E c \in Clients :
           \/ QuietStep(c)
           \/ SetPush(c)
           \/ CreatePush(c)
           \/ SetStore(c)
           \/ CreatePrefix(c)
           \/ CreateTree(c)
           \/ CompactFacts(c)
<1>1. PICK c \in Clients : StoreStep(c) \/ \E req \in Requests : Begin(c, req)
  BY DEF Next
<1>2. CASE CompactStart(c) \/ CompactFinish(c)
  BY <1>2, CompactStepFacts
<1>3. CASE ~(CompactStart(c) \/ CompactFinish(c))
  BY <1>1, <1>3 DEF StoreStep, QuietStep
<1> QED
  BY <1>2, <1>3

LEMMA BaseInit == Init => BaseInv
<1> SUFFICES ASSUME Init PROVE BaseInv
  OBVIOUS
<1>1. MaxRev \in Nat /\ MaxRev >= 1 /\ 1 \in Revs
  BY StoreMaxRevAssumption DEF Revs
<1>2. NoValue \in Value /\ NoItem \in Item
  BY DEF NoValue, Value, NoItem, Item
<1>3. values \in [Revs -> Value]
  BY <1>2 DEF Init, Value
<1>4. log \in [Revs -> Entry]
  BY <1>1, <1>2 DEF Init, Entry
<1>5. op \in [Clients -> Op] /\ \A c \in Clients : op[c] = Idle
  BY IdleType DEF Init
<1>6. \A c \in Clients : op[c].at = "idle"
  BY <1>5 DEF Idle
<1>7. TypeOK
  <2>1. \A c \in Clients : OpFits(op[c])
    BY <1>6 DEF OpFits
  <2> QED
    BY <1>2, <1>3, <1>4, <1>5, <2>1 DEF Init, TypeOK
<1>8. CountInv
  <2>1. Assigned = 1
    BY DEF Init, Assigned
  <2>2. MayPush = {}
    BY <1>6 DEF MayPush
  <2>3. Cardinality(MayPush) = 0
    BY <2>2, FS_EmptySet, Zenon
  <2>4. removing = None
    BY DEF Init
  <2> QED
    BY <1>1, <1>6, <2>1, <2>3, <2>4 DEF CountInv
<1>9. LeftInv
  BY <1>6 DEF LeftInv
<1> QED
  BY <1>7, <1>8, <1>9 DEF BaseInv

LEMMA BaseStep == BaseInv /\ [Next]_vars => BaseInv'
<1> SUFFICES ASSUME BaseInv, [Next]_vars PROVE BaseInv'
  OBVIOUS
<1>1. CASE UNCHANGED vars
  BY <1>1 DEF vars, storeVars, BaseInv, TypeOK, OpFits, CountInv, Assigned, MayPush, LeftInv
<1>2. CASE Next
  <2>1. PICK c \in Clients :
           \/ QuietStep(c)
           \/ SetPush(c)
           \/ CreatePush(c)
           \/ SetStore(c)
           \/ CreatePrefix(c)
           \/ CreateTree(c)
           \/ CompactFacts(c)
    BY <1>2, NextCases
  <2>2. CASE QuietStep(c)
    BY <2>2, QuietStepFacts, QuietBase
  <2>3. CASE SetPush(c) \/ CreatePush(c)
    BY <2>3, PushBase
  <2>4. CASE SetStore(c) \/ CreatePrefix(c) \/ CreateTree(c)
    BY <2>4, StoreBase
  <2>5. CASE CompactFacts(c)
    BY <2>5, CompactBase
  <2> QED
    BY <2>1, <2>2, <2>3, <2>4, <2>5
<1> QED
  BY <1>1, <1>2

(***************************************************************************)
(* The types of the store's state, and its counters: however requests      *)
(* interleave, a set that has passed its checks finds a revision free, and *)
(* a compaction under way never makes the number of revisions assigned     *)
(* come out wrong.                                                         *)
(***************************************************************************)
THEOREM TypeCorrect == Spec => []BaseInv
BY BaseInit, BaseStep, PTL DEF Spec

-------------------------------------------------------------------------------
(***************************************************************************)
(* What an item's lock orders.                                             *)
(***************************************************************************)
(* The steps that leave the items and the log alone. *)
LEMMA LockFrame ==
  ASSUME BaseInv, LockInv, NEW c \in Clients, OpIs(c, op'[c]),
         op[c].at \notin {"pushed", "created"},
         op'[c].at \notin {"pushed", "created", "prefixed"},
         op'[c].at = "found" => Known(op'[c].item),
         Assigned' = Assigned,
         UNCHANGED <<items, log>>,
         MapsOK'
  PROVE  LockInv'
<1> USE DEF BaseInv, LockInv
<1>1. LogOK'
  BY DEF LogOK, Known
<1>2. FlightOK'
  <2> SUFFICES ASSUME NEW d \in Clients
               PROVE /\ op'[d].at = "found" => Known(op[d].item)'
                     /\ op'[d].at = "pushed" =>
                          /\ Known(op[d].item)'
                          /\ log'[op'[d].rev].item = op'[d].item
                          /\ items'[op'[d].item].writer = d
                     /\ op'[d].at = "created" =>
                          log'[op'[d].rev].item = op'[d].rev /\ ~Known(op[d].rev)'
                     /\ op'[d].at \in {"pushed", "created"} =>
                          op'[d].rev > 1 /\ op'[d].rev <= Assigned' /\ log'[op'[d].rev].value = NoValue
                     /\ op'[d].at = "prefixed" => Known(op[d].rev)'
    BY DEF FlightOK
  <2>1. CASE d = c
    BY <2>1 DEF Known
  <2>2. CASE d # c
    <3>1. op'[d] = op[d]
      BY <2>2 DEF OpIs
    <3> QED
      BY <3>1 DEF FlightOK, Known
  <2> QED
    BY <2>1, <2>2
<1>3. FlightsDiffer'
  BY DEF FlightsDiffer, InFlight, OpIs
<1>4. \A i \in Revs : items[i].writer # None =>
        items[i].writer \in Clients /\ op'[items[i].writer] = op[items[i].writer]
  BY DEF WriterOK, TypeOK, Item, OpIs
<1>5. WriterOK'
  BY <1>4 DEF WriterOK
<1>6. LatestOK'
  BY <1>4 DEF LatestOK, Known, OfItem, Published
<1>7. SettledOK'
  BY DEF SettledOK, Published
<1> QED
  BY <1>1, <1>2, <1>3, <1>5, <1>6, <1>7

LEMMA QuietLock ==
  ASSUME BaseInv, LockInv, NEW c \in Clients, QuietFacts(c)
  PROVE  LockInv'
<1>1. UNCHANGED <<tree_map, prefix_map, items, log, start_offset, length, removing>>
  BY DEF QuietFacts, storeVars
<1>2. MapsOK' /\ Assigned' = Assigned
  BY <1>1 DEF LockInv, MapsOK, Known, Assigned
<1>3. op'[c].at = "found" => Known(op'[c].item)
  BY DEF QuietFacts, LockInv, MapsOK
<1> QED
  BY <1>1, <1>2, <1>3, LockFrame DEF QuietFacts

LEMMA CompactLock ==
  ASSUME BaseInv, LockInv, NEW c \in Clients, CompactFacts(c)
  PROVE  LockInv'
<1>1. MapsOK'
  BY DEF LockInv, MapsOK, Known, CompactFacts
<1> QED
  BY <1>1, LockFrame DEF CompactFacts

LEMMA CreateTreeLock ==
  ASSUME BaseInv, LockInv, NEW c \in Clients, CreateTree(c)
  PROVE  LockInv'
<1>1. /\ op[c].at = "prefixed" /\ op[c].rev \in Revs /\ op[c].req \in SetRequests
      /\ tree_map' = [tree_map EXCEPT ![op[c].req.key] = op[c].rev]
      /\ OpIs(c, op'[c]) /\ op'[c].at = "done"
      /\ UNCHANGED <<prefix_map, items, values, start_offset, length, removing, log>>
  BY CreateTreeFacts DEF BaseInv
<1>2. Known(op[c].rev)
  BY <1>1 DEF LockInv, FlightOK
<1>3. \A k \in Keys : tree_map'[k] = tree_map[k] \/ tree_map'[k] = op[c].rev
  BY <1>1 DEF BaseInv, TypeOK
<1>4. MapsOK'
  BY <1>1, <1>2, <1>3 DEF LockInv, MapsOK, Known
<1>5. Assigned' = Assigned
  BY <1>1 DEF Assigned
<1> QED
  BY <1>1, <1>4, <1>5, LockFrame

(* An item with a value has a revision for it, not younger than the last. *)
LEMMA KnownFacts ==
  ASSUME BaseInv, LockInv, NEW i \in Revs, Known(i)
  PROVE  LET m == items[i].latest_value.mod_revision
         IN  /\ m \in Revs /\ log[m].item = i /\ i <= m /\ m <= Assigned
             /\ Published(m) /\ log[m].value = items[i].latest_value
             /\ items[i].latest_value.version >= 1
             /\ \A q \in OfItem(i) :
                  q <= m \/ (items[i].writer # None /\ q = op[items[i].writer].rev)
             /\ \A q \in OfItem(i) : q < m => Published(q)
<1>1. PICK m : m = items[i].latest_value.mod_revision
  OBVIOUS
<1>2. /\ m \in Revs /\ log[m].item = i
      /\ log[m].value = items[i].latest_value /\ items[i].latest_value.version >= 1
      /\ \A q \in OfItem(i) :
           q <= m \/ (items[i].writer # None /\ q = op[items[i].writer].rev)
  BY <1>1 DEF LockInv, LatestOK
<1>3. i <= m
  BY <1>2 DEF LockInv, LogOK
<1>4. m <= Assigned
  <2>1. i # 0 /\ m \in Nat /\ Assigned \in Nat
    BY <1>2 DEF Revs, BaseInv, CountInv
  <2> QED
    BY <1>2, <2>1 DEF LockInv, LogOK
<1>5. Published(m)
  BY <1>1, <1>2 DEF Published
<1>6. \A q \in OfItem(i) : q < m => Published(q)
  BY <1>2 DEF LockInv, SettledOK, OfItem, Revs
<1> QED
  BY <1>1, <1>2, <1>3, <1>4, <1>5, <1>6

LEMMA SetPushLock ==
  ASSUME BaseInv, LockInv, NEW c \in Clients, SetPush(c)
  PROVE  LockInv'
<1> USE DEF BaseInv, LockInv
<1>1. PICK i \in Revs : i = op[c].item
  BY SetPushFacts
<1>2. PICK n \in Revs : n = Assigned + 1
  BY SetPushFacts DEF Pushed
<1>3. /\ op[c].at = "found" /\ items[i].writer = None
      /\ Pushed(c, i)
      /\ ItemIs(i, items'[i])
      /\ items'[i].writer = c /\ items'[i].latest_value = items[i].latest_value
      /\ OpIs(c, op'[c])
      /\ op'[c].at = "pushed" /\ op'[c].item = i /\ op'[c].rev = n
      /\ UNCHANGED <<tree_map, prefix_map>>
  BY <1>1, <1>2, SetPushFacts
<1>4. /\ log' \in [Revs -> Entry]
      /\ \A r \in Revs : r # n => log'[r] = log[r]
      /\ log'[n].item = i /\ log'[n].value = NoValue
      /\ Assigned' = n
  BY <1>2, <1>3 DEF Pushed
<1>5. Known(i)
  BY <1>1, <1>3 DEF FlightOK
<1>6. PICK m \in Revs : /\ m = items[i].latest_value.mod_revision
                        /\ log[m].item = i /\ i <= m /\ m <= Assigned
                        /\ Published(m) /\ log[m].value = items[i].latest_value
                        /\ items[i].latest_value.version >= 1
                        /\ \A q \in OfItem(i) : q <= m
                        /\ \A q \in OfItem(i) : q < m => Published(q)
  BY <1>3, <1>5, KnownFacts
<1>7. n \in Nat /\ Assigned \in Nat /\ n > 1 /\ i < n /\ i # 0 /\ m < n
  BY <1>2, <1>6 DEF CountInv, Revs
<1>8. \A j \in Revs : items'[j].latest_value = items[j].latest_value
  BY <1>3 DEF ItemIs
<1>9. \A j \in Revs : Known(j)' <=> Known(j)
  BY <1>8 DEF Known
<1>10. \A r \in Revs : r > Assigned => log[r].item = 0
  BY DEF LogOK
<1>11. \A d \in Clients : d # c => op'[d] = op[d]
  BY <1>3 DEF OpIs
<1>12. \A d \in Clients : op[d].at \in {"pushed", "created"} => op[d].rev < n /\ op[d].rev \in Revs
  BY <1>2, <1>7 DEF FlightOK, TypeOK, OpFits, Revs
<1>13. LogOK'
  <2> SUFFICES ASSUME NEW r \in Revs
               PROVE /\ r > Assigned' \/ r = 1 => log'[r].item = 0
                     /\ log'[r].item <= r
                     /\ log'[r].item # 0 /\ log'[r].item # r => Known(log[r].item)'
    BY DEF LogOK
  <2>1. CASE r = n
    BY <1>4, <1>5, <1>7, <1>8, <2>1 DEF Known
  <2>2. CASE r # n
    <3>1. log'[r] = log[r] /\ log[r].item \in 0 .. MaxRev
      BY <1>4, <2>2 DEF TypeOK, Entry
    <3>2. r > n => r > Assigned
      BY <1>2, <1>7 DEF Revs
    <3>3. log[r].item # 0 => log[r].item \in Revs
      BY <3>1, StoreMaxRevAssumption DEF Revs
    <3> QED
      BY <1>4, <1>8, <3>1, <3>2, <3>3 DEF LogOK, Known
  <2> QED
    BY <2>1, <2>2
<1>14. FlightOK'
  <2> SUFFICES ASSUME NEW d \in Clients
               PROVE /\ op'[d].at = "found" => Known(op[d].item)'
                     /\ op'[d].at = "pushed" =>
                          /\ Known(op[d].item)'
                          /\ log'[op'[d].rev].item = op'[d].item
                          /\ items'[op'[d].item].writer = d
                     /\ op'[d].at = "created" =>
                          log'[op'[d].rev].item = op'[d].rev /\ ~Known(op[d].rev)'
                     /\ op'[d].at \in {"pushed", "created"} =>
                          op'[d].rev > 1 /\ op'[d].rev <= Assigned' /\ log'[op'[d].rev].value = NoValue
                     /\ op'[d].at = "prefixed" => Known(op[d].rev)'
    BY DEF FlightOK
  <2>1. CASE d = c
    BY <1>3, <1>4, <1>5, <1>7, <1>8, <2>1 DEF Known, Revs
  <2>2. CASE d # c
    <3>1. op'[d] = op[d]
      BY <1>11, <2>2
    <3>2. /\ op[d].at \in {"found", "pushed"} => op[d].item \in Revs
          /\ op[d].at \in {"pushed", "created", "prefixed"} => op[d].rev \in Revs
      BY DEF TypeOK, OpFits
    <3>3. op[d].at = "pushed" => op[d].item # i
      BY <1>3, StoreClientsAssumption DEF FlightOK
    <3>4. op[d].at = "pushed" => items'[op[d].item] = items[op[d].item]
      BY <1>3, <3>2, <3>3 DEF ItemIs
    <3>5. op[d].at \in {"pushed", "created"} => log'[op[d].rev] = log[op[d].rev] /\ op[d].rev <= Assigned'
      BY <1>4, <1>7, <1>12 DEF Revs
    <3> QED
      BY <1>8, <3>1, <3>2, <3>4, <3>5 DEF FlightOK, Known
  <2> QED
    BY <2>1, <2>2
<1>15. FlightsDiffer'
  BY <1>3, <1>7, <1>11, <1>12 DEF FlightsDiffer, InFlight
<1>16. \A j \in Revs : j # i /\ items[j].writer # None =>
        items[j].writer \in Clients /\ op'[items[j].writer] = op[items[j].writer]
  BY <1>3, <1>11 DEF WriterOK, TypeOK, Item
<1>17. WriterOK'
  BY <1>3, <1>16 DEF WriterOK, ItemIs
<1>18. MapsOK'
  BY <1>3, <1>8 DEF MapsOK, Known, TypeOK
<1>19. LatestOK'
  <2> SUFFICES ASSUME NEW j \in Revs
               PROVE /\ Known(j)' =>
                          LET k == items'[j].latest_value.mod_revision
                          IN  /\ k \in Revs
                              /\ log'[k].item = j
                              /\ log'[k].value = items'[j].latest_value
                              /\ items'[j].latest_value.version >= 1
                              /\ \A q \in OfItem(j)' :
                                   q <= k \/ (items'[j].writer # None /\ q = op'[items'[j].writer].rev)
                     /\ ~Known(j)' => \A q \in OfItem(j)' : ~Published(q)'
    BY DEF LatestOK
  <2>1. CASE j = i
    <3>1. \A q \in OfItem(i)' : q <= m \/ q = n
      BY <1>4, <1>6 DEF OfItem
    <3>2. log'[m] = log[m]
      BY <1>4, <1>7
    <3> QED
      BY <1>3, <1>5, <1>6, <1>8, <1>9, <2>1, <3>1, <3>2, StoreClientsAssumption
  <2>2. CASE j # i
    <3>1. items'[j] = items[j]
      BY <1>3, <2>2 DEF ItemIs
    <3>2. \A q \in OfItem(j)' : q # n /\ q \in OfItem(j) /\ log'[q] = log[q]
      BY <1>4, <2>2 DEF OfItem
    <3>3. CASE Known(j)
      <4>1. PICK k \in Revs : /\ k = items[j].latest_value.mod_revision
                              /\ log[k].item = j /\ k <= Assigned
                              /\ log[k].value = items[j].latest_value
                              /\ items[j].latest_value.version >= 1
                              /\ \A q \in OfItem(j) :
                                   q <= k \/ (items[j].writer # None /\ q = op[items[j].writer].rev)
        BY <3>3, KnownFacts
      <4>2. log'[k] = log[k]
        BY <1>2, <1>4, <1>7, <4>1
      <4> QED
        BY <1>9, <1>16, <2>2, <3>1, <3>2, <3>3, <4>1, <4>2
    <3>4. CASE ~Known(j)
      BY <1>9, <3>2, <3>4 DEF LatestOK, Published
    <3> QED
      BY <3>3, <3>4
  <2> QED
    BY <2>1, <2>2
<1>20. SettledOK'
  <2> SUFFICES ASSUME NEW q \in Revs, NEW r \in Revs, q < r, log'[q].item = log'[r].item,
                      log'[r].item # 0
               PROVE  Published(q)'
    BY DEF SettledOK
  <2>1. r <= n
    <3>1. r > n => r > Assigned /\ r # n
      BY <1>2, <1>7 DEF Revs
    <3> QED
      BY <1>4, <1>7, <1>10, <3>1 DEF Revs
  <2>2. q # n /\ log'[q] = log[q]
    BY <1>4, <1>7, <2>1 DEF Revs
  <2>3. CASE r = n
    <3>1. q \in OfItem(i)
      BY <1>4, <2>2, <2>3 DEF OfItem
    <3>2. Published(q)
      BY <1>6, <3>1 DEF Revs
    <3> QED
      BY <2>2, <3>2 DEF Published
  <2>4. CASE r # n
    BY <1>4, <2>2, <2>4 DEF SettledOK, Published
  <2> QED
    BY <2>3, <2>4
<1> QED
  BY <1>13, <1>14, <1>15, <1>17, <1>18, <1>19, <1>20

LEMMA CreatePushLock ==
  ASSUME BaseInv, LockInv, NEW c \in Clients, CreatePush(c)
  PROVE  LockInv'
<1> USE DEF BaseInv, LockInv
<1>1. PICK n \in Revs : n = Assigned + 1
  BY CreatePushFacts DEF Pushed
<1>2. /\ op[c].at = "create"
      /\ Pushed(c, n)
      /\ OpIs(c, op'[c])
      /\ op'[c].at = "created" /\ op'[c].rev = n
      /\ UNCHANGED <<tree_map, prefix_map, items>>
  BY <1>1, CreatePushFacts
<1>3. /\ log' \in [Revs -> Entry]
      /\ \A r \in Revs : r # n => log'[r] = log[r]
      /\ log'[n].item = n /\ log'[n].value = NoValue
      /\ Assigned' = n
  BY <1>1, <1>2 DEF Pushed
<1>4. n \in Nat /\ Assigned \in Nat /\ n > 1
  BY <1>1 DEF CountInv, Revs
<1>5. ~Known(n)
  BY <1>1, <1>4, KnownFacts DEF Revs
<1>6. \A d \in Clients : d # c => op'[d] = op[d]
  BY <1>2 DEF OpIs
<1>7. \A d \in Clients : op[d].at \in {"pushed", "created"} => op[d].rev < n /\ op[d].rev \in Revs
  BY <1>1, <1>4 DEF FlightOK, TypeOK, OpFits, Revs
<1>8. LogOK'
  <2> SUFFICES ASSUME NEW r \in Revs
               PROVE /\ r > Assigned' \/ r = 1 => log'[r].item = 0
                     /\ log'[r].item <= r
                     /\ log'[r].item # 0 /\ log'[r].item # r => Known(log[r].item)'
    BY DEF LogOK
  <2>1. CASE r = n
    BY <1>3, <1>4, <2>1
  <2>2. CASE r # n
    <3>1. log'[r] = log[r]
      BY <1>3, <2>2
    <3>2. r > n => r > Assigned
      BY <1>1, <1>4 DEF Revs
    <3> QED
      BY <1>2, <1>3, <3>1, <3>2 DEF LogOK, Known
  <2> QED
    BY <2>1, <2>2
<1>9. FlightOK'
  <2> SUFFICES ASSUME NEW d \in Clients
               PROVE /\ op'[d].at = "found" => Known(op[d].item)'
                     /\ op'[d].at = "pushed" =>
                          /\ Known(op[d].item)'
                          /\ log'[op'[d].rev].item = op'[d].item
                          /\ items'[op'[d].item].writer = d
                     /\ op'[d].at = "created" =>
                          log'[op'[d].rev].item = op'[d].rev /\ ~Known(op[d].rev)'
                     /\ op'[d].at \in {"pushed", "created"} =>
                          op'[d].rev > 1 /\ op'[d].rev <= Assigned' /\ log'[op'[d].rev].value = NoValue
                     /\ op'[d].at = "prefixed" => Known(op[d].rev)'
    BY DEF FlightOK
  <2>1. CASE d = c
    BY <1>2, <1>3, <1>4, <1>5, <2>1 DEF Known, Revs
  <2>2. CASE d # c
    <3>1. op'[d] = op[d]
      BY <1>6, <2>2
    <3>2. op[d].at \in {"pushed", "created"} => log'[op[d].rev] = log[op[d].rev] /\ op[d].rev <= Assigned'
      BY <1>3, <1>4, <1>7 DEF Revs
    <3> QED
      BY <1>2, <3>1, <3>2 DEF FlightOK, Known
  <2> QED
    BY <2>1, <2>2
<1>10. FlightsDiffer'
  BY <1>2, <1>4, <1>6, <1>7 DEF FlightsDiffer, InFlight
<1>11. \A j \in Revs : items[j].writer # None =>
        items[j].writer \in Clients /\ op'[items[j].writer] = op[items[j].writer]
  BY <1>2, <1>6 DEF WriterOK, TypeOK, Item
<1>12. WriterOK'
  BY <1>2, <1>11 DEF WriterOK
<1>13. MapsOK'
  BY <1>2 DEF MapsOK, Known
<1>14. LatestOK'
  <2> SUFFICES ASSUME NEW j \in Revs
               PROVE /\ Known(j)' =>
                          LET k == items'[j].latest_value.mod_revision
                          IN  /\ k \in Revs
                              /\ log'[k].item = j
                              /\ log'[k].value = items'[j].latest_value
                              /\ items'[j].latest_value.version >= 1
                              /\ \A q \in OfItem(j)' :
                                   q <= k \/ (items'[j].writer # None /\ q = op'[items'[j].writer].rev)
                     /\ ~Known(j)' => \A q \in OfItem(j)' : ~Published(q)'
    BY DEF LatestOK
  <2>1. Known(j)' <=> Known(j)
    BY <1>2 DEF Known
  <2>2. CASE Known(j)
    <3>1. j # n
      BY <1>5, <2>2
    <3>2. \A q \in OfItem(j)' : q # n /\ q \in OfItem(j)
      BY <1>3, <3>1 DEF OfItem
    <3>3. PICK k \in Revs : /\ k = items[j].latest_value.mod_revision
                            /\ log[k].item = j /\ k <= Assigned
                            /\ log[k].value = items[j].latest_value
                            /\ items[j].latest_value.version >= 1
                            /\ \A q \in OfItem(j) :
                                 q <= k \/ (items[j].writer # None /\ q = op[items[j].writer].rev)
      BY <2>2, KnownFacts
    <3>4. log'[k] = log[k]
      <4>1. k # n
        BY <1>1, <1>4, <3>3 DEF Revs
      <4> QED
        BY <1>3, <4>1
    <3> QED
      BY <1>2, <1>11, <2>1, <2>2, <3>2, <3>3, <3>4
  <2>3. CASE ~Known(j)
    <3>1. ~Published(n)'
      BY <1>3, <1>4 DEF Published, NoValue
    <3>2. \A q \in OfItem(j)' : q # n => q \in OfItem(j) /\ log'[q] = log[q]
      BY <1>3 DEF OfItem
    <3> QED
      BY <2>1, <2>3, <3>1, <3>2 DEF LatestOK, Published
  <2> QED
    BY <2>2, <2>3
<1>15. SettledOK'
  <2> SUFFICES ASSUME NEW q \in Revs, NEW r \in Revs, q < r, log'[q].item = log'[r].item,
                      log'[r].item # 0
               PROVE  Published(q)'
    BY DEF SettledOK
  <2>1. r <= n
    <3>1. r > n => r > Assigned /\ r # n
      BY <1>1, <1>4 DEF Revs
    <3> QED
      BY <1>3, <3>1 DEF LogOK, Revs
  <2>2. q # n /\ log'[q] = log[q]
    BY <1>3, <1>4, <2>1 DEF Revs
  <2>3. r # n
    <3>1. log[q].item <= q /\ log[q].item \in Int
      BY DEF LogOK, TypeOK, Entry
    <3> QED
      BY <1>3, <2>2, <3>1 DEF Revs
  <2> QED
    BY <1>3, <2>2, <2>3 DEF SettledOK, Published
<1> QED
  BY <1>8, <1>9, <1>10, <1>12, <1>13, <1>14, <1>15

(***************************************************************************)
(* Setting the value of revision rev and making it the latest of item i,   *)
(* by the client that holds rev: the common part of an update and of the   *)
(* insertion of a new item.                                                *)
(***************************************************************************)
Settles(c, i, rev, v) ==
  /\ InFlight(c) /\ op[c].rev = rev /\ log[rev].item = i
  /\ ValueSet(rev, v)
  /\ v \in Value /\ v.mod_revision = rev /\ v.version >= 1
  /\ ItemIs(i, items'[i]) /\ items'[i].latest_value = v /\ items'[i].writer = None
  /\ OpIs(c, op'[c]) /\ op'[c].at \in {"done", "prefixed"} /\ op'[c].rev = rev
  /\ op'[c].at = "prefixed" => rev = i
  /\ op[c].at = "pushed" => op[c].item = i
  /\ \A q \in OfItem(i) : q <= rev
  /\ \A d \in Clients : d # c /\ op[d].at = "pushed" => op[d].item # i
  /\ \A d \in Clients : d # c /\ op[d].at = "created" => op[d].rev # i
  /\ \A k \in Keys : prefix_map'[k] = prefix_map[k] \/ prefix_map'[k] = i
  /\ UNCHANGED <<tree_map, start_offset, length, removing>>

LEMMA SetStoreSettles ==
  ASSUME BaseInv, LockInv, NEW c \in Clients, SetStore(c)
  PROVE  LET i == op[c].item
             v == Successor(items[i].latest_value, op[c].rev, ~op[c].req.del)
         IN  /\ Settles(c, i, op[c].rev, v)
             /\ Known(i)
             /\ items[i].latest_value.mod_revision < op[c].rev
             /\ \A q \in OfItem(i) : q = op[c].rev \/ q <= items[i].latest_value.mod_revision
             /\ items'[i].revisions = items[i].revisions \union {op[c].rev}
<1> USE DEF BaseInv, LockInv
<1>1. PICK i \in Revs : i = op[c].item
  BY SetStoreFacts
<1>2. PICK rev \in Revs : rev = op[c].rev
  BY SetStoreFacts
<1>3. PICK v : v = Successor(items[i].latest_value, rev, ~op[c].req.del)
  OBVIOUS
<1>4. /\ op[c].at = "pushed"
      /\ ValueSet(rev, v)
      /\ ItemIs(i, items'[i]) /\ items'[i].latest_value = v /\ items'[i].writer = None
      /\ items'[i].revisions = items[i].revisions \union {rev}
      /\ OpIs(c, op'[c]) /\ op'[c].at = "done" /\ op'[c].rev = rev
      /\ UNCHANGED <<tree_map, prefix_map, start_offset, length, removing>>
      /\ op[c].req \in SetRequests
  BY <1>1, <1>2, <1>3, SetStoreFacts
<1>5. v \in Value /\ v.mod_revision = rev /\ v.version >= 1
  <2>1. items[i].latest_value \in Value /\ rev \in Nat /\ (~op[c].req.del) \in BOOLEAN
    BY <1>4 DEF TypeOK, Item, Revs, SetRequests
  <2>2. PICK old \in Value : old = items[i].latest_value
    BY <2>1
  <2>3. PICK live \in BOOLEAN : live = ~op[c].req.del
    BY <2>1, Zenon
  <2>4. v = Successor(old, rev, live)
    BY <1>3, <2>2, <2>3, Zenon
  <2> QED
    BY <2>1, <2>4, SuccessorFacts
<1>6. Known(i) /\ log[rev].item = i /\ items[i].writer = c /\ log[rev].value = NoValue
  BY <1>1, <1>2, <1>4 DEF FlightOK
<1>7. PICK m \in Revs : /\ m = items[i].latest_value.mod_revision
                        /\ log[m].item = i /\ Published(m)
                        /\ \A q \in OfItem(i) : q <= m \/ q = rev
                        /\ \A q \in OfItem(i) : q < m => Published(q)
  BY <1>2, <1>6, KnownFacts
<1>8. ~Published(rev) /\ rev \in OfItem(i)
  BY <1>6 DEF Published, NoValue, Revs, OfItem
<1>9. m < rev
  BY <1>7, <1>8 DEF Revs
<1>10. \A q \in OfItem(i) : q <= rev
  BY <1>7, <1>9 DEF Revs, OfItem
<1>11. \A d \in Clients : d # c /\ op[d].at = "pushed" => op[d].item # i
  BY <1>6 DEF FlightOK
<1>12. \A d \in Clients : d # c /\ op[d].at = "created" => op[d].rev # i
  BY <1>6 DEF FlightOK
<1>13. Settles(c, i, rev, v)
  BY <1>1, <1>2, <1>4, <1>5, <1>6, <1>10, <1>11, <1>12 DEF Settles, InFlight
<1> QED
  BY <1>1, <1>2, <1>3, <1>4, <1>6, <1>7, <1>9, <1>13

LEMMA CreatePrefixSettles ==
  ASSUME BaseInv, LockInv, NEW c \in Clients, CreatePrefix(c)
  PROVE  LET rev == op[c].rev
             v == Successor(NoValue, rev, TRUE)
         IN  /\ Settles(c, rev, rev, v)
             /\ ~Known(rev)
             /\ \A q \in OfItem(rev) : q = rev
             /\ items'[rev].revisions = {rev}
<1> USE DEF BaseInv, LockInv
<1>1. PICK rev \in Revs : rev = op[c].rev
  BY CreatePrefixItem
<1>2. PICK v : v = Successor(NoValue, rev, TRUE)
  OBVIOUS
<1>3. /\ op[c].at = "created"
      /\ ValueSet(rev, v)
      /\ ItemIs(rev, items'[rev]) /\ items'[rev].latest_value = v /\ items'[rev].writer = None
      /\ items'[rev].revisions = {rev}
      /\ prefix_map' = [prefix_map EXCEPT ![op[c].req.key] = rev]
      /\ UNCHANGED <<tree_map, start_offset, length, removing>>
  BY <1>1, <1>2, CreatePrefixItem
<1>4. OpIs(c, op'[c]) /\ op'[c].at = "prefixed" /\ op'[c].rev = rev
  BY <1>1, CreatePrefixFacts
<1>5. v \in Value /\ v.mod_revision = rev /\ v.version >= 1
  <2>1. PICK old \in Value : old = NoValue
    BY DEF NoValue, Value
  <2>2. PICK live \in BOOLEAN : live = TRUE
    BY Zenon
  <2>3. v = Successor(old, rev, live) /\ rev \in Nat
    BY <1>2, <2>1, <2>2 DEF Revs
  <2> QED
    BY <2>3, SuccessorFacts
<1>6. ~Known(rev) /\ log[rev].item = rev
  BY <1>1, <1>3 DEF FlightOK
<1>7. \A q \in OfItem(rev) : q = rev
  BY <1>6 DEF LogOK, OfItem, Revs
<1>8. \A q \in OfItem(rev) : q <= rev
  BY <1>7 DEF Revs
<1>9. \A d \in Clients : d # c /\ op[d].at = "pushed" => op[d].item # rev
  BY <1>6 DEF FlightOK
<1>10. \A d \in Clients : d # c /\ op[d].at = "created" => op[d].rev # rev
  BY <1>1, <1>3 DEF FlightsDiffer, InFlight
<1>11. \A k \in Keys : prefix_map'[k] = prefix_map[k] \/ prefix_map'[k] = rev
  BY <1>3 DEF TypeOK
<1>12. Settles(c, rev, rev, v)
  BY <1>1, <1>3, <1>4, <1>5, <1>6, <1>8, <1>9, <1>10, <1>11 DEF Settles, InFlight
<1> QED
  BY <1>1, <1>2, <1>3, <1>6, <1>7, <1>12

LEMMA SettlesLock ==
  ASSUME BaseInv, LockInv, NEW c \in Clients, NEW i \in Revs, NEW rev \in Revs, NEW v,
         Settles(c, i, rev, v)
  PROVE  LockInv'
<1> USE DEF BaseInv, LockInv
<1>1. /\ InFlight(c) /\ op[c].rev = rev /\ log[rev].item = i
      /\ v.mod_revision = rev /\ v.version >= 1
      /\ items'[i].latest_value = v /\ items'[i].writer = None
      /\ op'[c].at \in {"done", "prefixed"} /\ op'[c].rev = rev
      /\ op'[c].at = "prefixed" => rev = i
      /\ op[c].at = "pushed" => op[c].item = i
      /\ \A q \in OfItem(i) : q <= rev
      /\ \A k \in Keys : prefix_map'[k] = prefix_map[k] \/ prefix_map'[k] = i
      /\ UNCHANGED <<tree_map, start_offset, length, removing>>
  BY DEF Settles
<1>2. /\ \A r \in Revs : r # rev => log'[r] = log[r]
      /\ log'[rev].item = i /\ log'[rev].value = v
  BY DEF Settles, ValueSet
<1>3. \A r \in Revs : log'[r].item = log[r].item
  BY <1>1, <1>2
<1>4. \A j \in Revs : j # i => items'[j] = items[j]
  BY DEF Settles, ItemIs
<1>5. \A d \in Clients : d # c => op'[d] = op[d]
  BY DEF Settles, OpIs
<1>6. rev \in Nat /\ rev # 0 /\ Assigned' = Assigned
  BY <1>1 DEF Revs, Assigned
<1>7. \A j \in Revs : (Known(j) \/ j = i) => Known(j)'
  BY <1>1, <1>4, <1>6 DEF Known
<1>8. \A j \in Revs : j # i => (Known(j)' <=> Known(j))
  BY <1>4 DEF Known
<1>9. \A q \in Revs : (Published(q) \/ q = rev) => Published(q)'
  BY <1>1, <1>2 DEF Published
<1>10. LogOK'
  <2> SUFFICES ASSUME NEW r \in Revs
               PROVE /\ r > Assigned' \/ r = 1 => log'[r].item = 0
                     /\ log'[r].item <= r
                     /\ log'[r].item # 0 /\ log'[r].item # r => Known(log[r].item)'
    BY DEF LogOK
  <2>1. PICK j \in 0 .. MaxRev : j = log[r].item
    BY DEF TypeOK, Entry
  <2>2. log'[r].item = j /\ (j # 0 => j \in Revs)
    BY <1>3, <2>1, StoreMaxRevAssumption DEF Revs
  <2>3. j # 0 /\ j # r => items'[j].latest_value.mod_revision # 0
    BY <1>7, <2>1, <2>2 DEF LogOK, Known
  <2> QED
    BY <1>6, <2>1, <2>2, <2>3 DEF LogOK, Known
<1>11. FlightOK'
  <2> SUFFICES ASSUME NEW d \in Clients
               PROVE /\ op'[d].at = "found" => Known(op[d].item)'
                     /\ op'[d].at = "pushed" =>
                          /\ Known(op[d].item)'
                          /\ log'[op'[d].rev].item = op'[d].item
                          /\ items'[op'[d].item].writer = d
                     /\ op'[d].at = "created" =>
                          log'[op'[d].rev].item = op'[d].rev /\ ~Known(op[d].rev)'
                     /\ op'[d].at \in {"pushed", "created"} =>
                          op'[d].rev > 1 /\ op'[d].rev <= Assigned' /\ log'[op'[d].rev].value = NoValue
                     /\ op'[d].at = "prefixed" => Known(op[d].rev)'
    BY DEF FlightOK
  <2>1. CASE d = c
    BY <1>1, <1>7, <2>1 DEF Known
  <2>2. CASE d # c
    <3>1. op'[d] = op[d]
      BY <1>5, <2>2
    <3>2. /\ op[d].at \in {"found", "pushed"} => op[d].item \in Revs
          /\ op[d].at \in {"pushed", "created", "prefixed"} => op[d].rev \in Revs
      BY DEF TypeOK, OpFits
    <3>3. /\ op[d].at = "pushed" => op[d].item # i
          /\ op[d].at = "created" => op[d].rev # i
      BY <2>2 DEF Settles
    <3>4. op[d].at \in {"pushed", "created"} => op[d].rev # rev
      BY <1>1, <2>2 DEF FlightsDiffer, InFlight
    <3>5. op[d].at \in {"pushed", "created"} => log'[op[d].rev] = log[op[d].rev]
      BY <1>2, <3>2, <3>4
    <3>6. op[d].at = "found" => Known(op[d].item)'
      BY <1>7, <3>1, <3>2 DEF FlightOK, Known
    <3>7. op[d].at = "prefixed" => Known(op[d].rev)'
      BY <1>7, <3>1, <3>2 DEF FlightOK, Known
    <3>8. op[d].at = "pushed" => items'[op[d].item] = items[op[d].item]
      BY <1>4, <3>2, <3>3
    <3>9. op[d].at = "created" => items'[op[d].rev] = items[op[d].rev]
      BY <1>4, <3>2, <3>3
    <3> QED
      BY <1>6, <3>1, <3>5, <3>6, <3>7, <3>8, <3>9 DEF FlightOK, Known
  <2> QED
    BY <2>1, <2>2
<1>12. FlightsDiffer'
  BY <1>1, <1>5 DEF FlightsDiffer, InFlight
<1>13. \A j \in Revs : j # i /\ items[j].writer # None =>
        items[j].writer \in Clients /\ op'[items[j].writer] = op[items[j].writer]
  <2> SUFFICES ASSUME NEW j \in Revs, j # i, items[j].writer # None
               PROVE  items[j].writer \in Clients /\ op'[items[j].writer] = op[items[j].writer]
    OBVIOUS
  <2>1. PICK w \in Clients : w = items[j].writer
    BY DEF TypeOK, Item
  <2>2. op[w].at = "pushed" /\ op[w].item = j
    BY <2>1 DEF WriterOK
  <2>3. w # c
    BY <1>1, <2>2
  <2> QED
    BY <1>5, <2>1, <2>3
<1>14. WriterOK'
  BY <1>1, <1>4, <1>13 DEF WriterOK
<1>15. MapsOK'
  <2> SUFFICES ASSUME NEW k \in Keys
               PROVE /\ tree_map[k] # None => Known(tree_map[k])'
                     /\ prefix_map'[k] # None => Known(prefix_map[k])'
    BY <1>1 DEF MapsOK, Known
  <2>1. tree_map[k] # None => tree_map[k] \in Revs /\ Known(tree_map[k])
    BY DEF TypeOK, MapsOK
  <2>2. prefix_map[k] # None => prefix_map[k] \in Revs /\ Known(prefix_map[k])
    BY DEF TypeOK, MapsOK
  <2>3. prefix_map'[k] = prefix_map[k] \/ prefix_map'[k] = i
    BY <1>1
  <2> QED
    BY <1>1, <1>7, <2>1, <2>2, <2>3 DEF Known
<1>16. LatestOK'
  <2> SUFFICES ASSUME NEW j \in Revs
               PROVE /\ Known(j)' =>
                          LET k == items'[j].latest_value.mod_revision
                          IN  /\ k \in Revs
                              /\ log'[k].item = j
                              /\ log'[k].value = items'[j].latest_value
                              /\ items'[j].latest_value.version >= 1
                              /\ \A q \in OfItem(j)' :
                                   q <= k \/ (items'[j].writer # None /\ q = op'[items'[j].writer].rev)
                     /\ ~Known(j)' => \A q \in OfItem(j)' : ~Published(q)'
    BY DEF LatestOK
  <2>1. \A q : q \in OfItem(j)' <=> q \in OfItem(j)
    BY <1>3 DEF OfItem
  <2>2. CASE j = i
    BY <1>1, <1>2, <1>7, <2>1, <2>2
  <2>3. CASE j # i
    <3>1. items'[j] = items[j] /\ \A q \in OfItem(j) : q # rev /\ q \in Revs
      BY <1>1, <1>4, <2>3 DEF OfItem
    <3>2. CASE Known(j)
      <4>1. PICK k \in Revs : /\ k = items[j].latest_value.mod_revision
                              /\ log[k].item = j
                              /\ log[k].value = items[j].latest_value
                              /\ items[j].latest_value.version >= 1
                              /\ \A q \in OfItem(j) :
                                   q <= k \/ (items[j].writer # None /\ q = op[items[j].writer].rev)
        BY <3>2, KnownFacts
      <4>2. k # rev /\ log'[k] = log[k]
        BY <1>1, <1>2, <2>3, <4>1
      <4> QED
        BY <1>8, <1>13, <2>1, <2>3, <3>1, <3>2, <4>1, <4>2
    <3>3. CASE ~Known(j)
      BY <1>2, <1>8, <2>1, <2>3, <3>1, <3>3 DEF LatestOK, Published
    <3> QED
      BY <3>2, <3>3
  <2> QED
    BY <2>2, <2>3
<1>17. SettledOK'
  BY <1>3, <1>9 DEF SettledOK
<1> QED
  BY <1>10, <1>11, <1>12, <1>14, <1>15, <1>16, <1>17

LEMMA LockInit == Init => LockInv
<1> SUFFICES ASSUME Init PROVE LockInv
  OBVIOUS
<1>1. MaxRev \in Nat /\ MaxRev >= 1 /\ 1 \in Revs
  BY StoreMaxRevAssumption DEF Revs
<1>2. \A c \in Clients : op[c].at = "idle"
  BY DEF Init, Idle
<1>3. \A i \in Revs : ~Known(i) /\ items[i].writer = None
  BY DEF Init, Known, NoItem, NoValue
<1>4. \A r \in Revs : log[r].item = 0 /\ log[r].item <= r
  BY <1>1 DEF Init, Revs
<1>5. \A k \in Keys : tree_map[k] = None /\ prefix_map[k] = None
  BY DEF Init
<1>6. LogOK /\ FlightOK /\ FlightsDiffer /\ WriterOK /\ MapsOK /\ SettledOK
  BY <1>2, <1>3, <1>4, <1>5 DEF LogOK, FlightOK, FlightsDiffer, InFlight, WriterOK, MapsOK, SettledOK
<1>7. \A i \in Revs : OfItem(i) = {}
  BY <1>4 DEF OfItem, Revs
<1>8. LatestOK
  BY <1>3, <1>7 DEF LatestOK
<1> QED
  BY <1>6, <1>8 DEF LockInv

LEMMA LockStep == BaseInv /\ LockInv /\ [Next]_vars => LockInv'
<1> SUFFICES ASSUME BaseInv, LockInv, [Next]_vars PROVE LockInv'
  OBVIOUS
<1>1. CASE UNCHANGED vars
  BY <1>1 DEF vars, storeVars, LockInv, LogOK, FlightOK, FlightsDiffer, InFlight, WriterOK, MapsOK,
              LatestOK, SettledOK, Known, OfItem, Published, Assigned
<1>2. CASE Next
  <2>1. PICK c \in Clients :
           \/ QuietStep(c)
           \/ SetPush(c)
           \/ CreatePush(c)
           \/ SetStore(c)
           \/ CreatePrefix(c)
           \/ CreateTree(c)
           \/ CompactFacts(c)
    BY <1>2, NextCases
  <2>2. CASE QuietStep(c)
    BY <2>2, QuietStepFacts, QuietLock
  <2>3. CASE SetPush(c)
    BY <2>3, SetPushLock
  <2>4. CASE CreatePush(c)
    BY <2>4, CreatePushLock
  <2>5. CASE SetStore(c)
    <3>1. op[c].item \in Revs /\ op[c].rev \in Revs
      BY <2>5, SetStoreFacts DEF BaseInv
    <3> QED
      BY <2>5, <3>1, SetStoreSettles, SettlesLock
  <2>6. CASE CreatePrefix(c)
    <3>1. op[c].rev \in Revs
      BY <2>6, CreatePrefixItem DEF BaseInv
    <3> QED
      BY <2>6, <3>1, CreatePrefixSettles, SettlesLock
  <2>7. CASE CreateTree(c)
    BY <2>7, CreateTreeLock
  <2>8. CASE CompactFacts(c)
    BY <2>8, CompactLock
  <2> QED
    BY <2>1, <2>2, <2>3, <2>4, <2>5, <2>6, <2>7, <2>8
<1> QED
  BY <1>1, <1>2

(***************************************************************************)
(* The item's lock does its work: no two sets hold the same revision, an   *)
(* item's revisions become visible in their order, and its latest value is *)
(* that of its newest revision but for the one the holder of the lock is   *)
(* about to set.                                                           *)
(***************************************************************************)
THEOREM LocksOrder == Spec => []LockInv
BY TypeCorrect, LockInit, LockStep, PTL DEF Spec

-------------------------------------------------------------------------------
(***************************************************************************)
(* What a revision replaced, and what its version counts.                  *)
(***************************************************************************)
LEMMA ValueFrame ==
  ASSUME ValueInv, UNCHANGED log
  PROVE  ValueInv'
<1>1. \A r \in Revs : Published(r)' = Published(r) /\ \A d : Life(d, r)' = Life(d, r)
  BY DEF Published, Life
<1>2. CompareOK'
  BY DEF ValueInv, CompareOK, IsPrev, Required, Deleted, Published
<1>3. ASSUME NEW r \in Revs, NEW d \in 0 .. MaxRev, Counts(d, r) PROVE Counts(d, r)'
  <2>1. IsLastDeletion(d, r)'
    BY <1>3 DEF Counts, IsLastDeletion, Published
  <2> QED
    BY <1>1, <1>3, <2>1 DEF Counts
<1>4. VersionsOK'
  BY <1>1, <1>3 DEF ValueInv, VersionsOK
<1> QED
  BY <1>2, <1>4 DEF ValueInv

(* A revision just assigned changes nothing for those before it. *)
LEMMA PushValue ==
  ASSUME BaseInv, LockInv, ValueInv, NEW c \in Clients, NEW i, i # 0, Pushed(c, i),
         NEW n \in Revs, n = Assigned + 1,
         NEW p \in 0 .. MaxRev, IsPrev(p, n)', Required(p, n)'
  PROVE  ValueInv'
<1> USE DEF BaseInv, LockInv, ValueInv
<1>1. n = Assigned + 1
  OBVIOUS
<1>2. /\ log' \in [Revs -> Entry]
      /\ \A r \in Revs : r # n => log'[r] = log[r]
      /\ log'[n].item = i /\ log'[n].value = NoValue
  BY <1>1 DEF Pushed
<1>3. n \in Nat /\ Assigned \in Nat /\ n > 1
  BY <1>1 DEF CountInv, Revs
<1>4. \A r \in Revs : log[r].item # 0 => r < n
  BY <1>1, <1>3 DEF LogOK, Revs
<1>5. \A r \in Revs : r > n => log'[r].item = 0
  BY <1>2, <1>3, <1>4 DEF Revs
<1>6. CompareOK'
  <2> SUFFICES ASSUME NEW r \in Revs, log'[r].item # 0
               PROVE  \E q \in 0 .. MaxRev : IsPrev(q, r)' /\ Required(q, r)'
    BY DEF CompareOK
  <2>1. CASE r = n
    BY <1>1, <2>1
  <2>2. CASE r # n
    <3>1. log'[r] = log[r] /\ r < n
      BY <1>2, <1>4, <2>2
    <3>2. PICK q \in 0 .. MaxRev : IsPrev(q, r) /\ Required(q, r)
      BY <3>1 DEF CompareOK
    <3>3. q # 0 => q \in Revs /\ q < r /\ log[q].item = log[r].item /\ Published(q)
      BY <3>2 DEF IsPrev
    <3>4. q # 0 => log'[q] = log[q]
      BY <1>2, <1>3, <3>1, <3>3 DEF Revs
    <3>5. \A s \in Revs : s < r => log'[s] = log[s]
      BY <1>2, <1>3, <3>1 DEF Revs
    <3>6. IsPrev(q, r)'
      <4>1. q # 0 => q \in Revs /\ q < r /\ log'[q].item = log'[r].item /\ Published(q)'
        BY <3>1, <3>3, <3>4 DEF Published
      <4>2. \A s \in Revs : log'[s].item = log'[r].item /\ s < r => s <= q
        BY <3>1, <3>2, <3>5 DEF IsPrev
      <4> QED
        BY <4>1, <4>2 DEF IsPrev
    <3>7. Required(q, r)'
      BY <3>1, <3>2, <3>4 DEF Required, Deleted
    <3> QED
      BY <3>6, <3>7
  <2> QED
    BY <2>1, <2>2
<1>7. VersionsOK'
  <2> SUFFICES ASSUME NEW r \in Revs, Published(r)', log'[r].value.live, log'[r].item # 0
               PROVE  \E d \in 0 .. MaxRev : Counts(d, r)'
    BY DEF VersionsOK
  <2>1. r # n
    BY <1>2, <1>3 DEF Published, NoValue
  <2>2. log'[r] = log[r] /\ r < n
    BY <1>2, <1>4, <2>1
  <2>3. PICK d \in 0 .. MaxRev : Counts(d, r)
    BY <2>2 DEF VersionsOK, Published
  <2>4. \A s \in Revs : s <= r => log'[s] = log[s]
    BY <1>2, <1>3, <2>2 DEF Revs
  <2>5. Life(d, r)' = Life(d, r)
    BY <2>2, <2>4 DEF Life
  <2>6. IsLastDeletion(d, r)'
    <3>1. IsLastDeletion(d, r)
      BY <2>3 DEF Counts
    <3>2. d # 0 => log'[d] = log[d]
      BY <2>4, <3>1 DEF IsLastDeletion, Revs
    <3>3. d # 0 => /\ d \in Revs /\ d < r /\ log'[d].item = log'[r].item
                   /\ Published(d)' /\ ~log'[d].value.live
      BY <2>2, <3>1, <3>2 DEF IsLastDeletion, Published
    <3>4. \A s \in Revs : log'[s].item = log'[r].item /\ s <= r /\ Published(s)' /\ ~log'[s].value.live
                            => s <= d
      BY <2>2, <2>4, <3>1 DEF IsLastDeletion, Published
    <3> QED
      BY <3>3, <3>4 DEF IsLastDeletion
  <2> QED
    BY <2>2, <2>3, <2>5, <2>6 DEF Counts
<1> QED
  BY <1>6, <1>7

(* Under the item's lock the comparison is with the item's last revision. *)
LEMMA SetPushValue ==
  ASSUME BaseInv, LockInv, ValueInv, NEW c \in Clients, SetPush(c)
  PROVE  ValueInv'
<1> USE DEF BaseInv, LockInv, ValueInv
<1>1. PICK i \in Revs : i = op[c].item
  BY SetPushFacts
<1>2. PICK n \in Revs : n = Assigned + 1
  BY SetPushFacts DEF Pushed
<1>3. PICK req \in SetRequests : req = op[c].req
  BY SetPushFacts
<1>4. PICK v \in Value : v = items[i].latest_value
  BY DEF TypeOK, Item
<1>5. /\ op[c].at = "found" /\ items[i].writer = None /\ ~Refused(req, v) /\ Pushed(c, i)
  BY <1>1, <1>3, <1>4, SetPushFacts
<1>6. /\ \A r \in Revs : r # n => log'[r] = log[r]
      /\ log'[n].item = i /\ log'[n].last = req.last /\ log'[n].version = req.version
  BY <1>2, <1>3, <1>5 DEF Pushed
<1>7. Known(i)
  BY <1>1, <1>5 DEF FlightOK
<1>8. PICK m \in Revs : /\ m = v.mod_revision
                        /\ log[m].item = i /\ m <= Assigned
                        /\ Published(m) /\ log[m].value = v /\ v.version >= 1
                        /\ \A q \in OfItem(i) : q <= m
  BY <1>4, <1>5, <1>7, KnownFacts
<1>9. m < n /\ m # 0 /\ i # 0 /\ log'[m] = log[m]
  <2>1. m < n /\ m # 0 /\ i # 0
    BY <1>2, <1>8 DEF Revs, CountInv
  <2> QED
    BY <1>6, <2>1 DEF Revs
<1>10. IsPrev(m, n)'
  <2>1. \A q \in Revs : log'[q].item = i /\ q < n => q <= m
    BY <1>6, <1>8 DEF OfItem, Revs
  <2> QED
    BY <1>6, <1>8, <1>9, <2>1 DEF IsPrev, Published
<1>11. Required(m, n)'
  <2>1. /\ req.last \in Int /\ req.version \in Int
        /\ v.live => /\ ~(req.last >= 0 /\ req.last # m)
                     /\ ~(req.version >= 0 /\ req.version # v.version)
        /\ ~v.live => ~(req.last > 0) /\ ~(req.version > 0)
    BY <1>5, <1>8 DEF Refused, Mismatch, NeedsItem, SetRequests
  <2>2. log'[m].value = v
    BY <1>8, <1>9
  <2>3. m \in Nat /\ m # 0 /\ v.version \in Nat /\ v.version >= 1
    BY <1>8, <1>9 DEF Revs, Value
  <2> QED
    BY <1>6, <2>1, <2>2, <2>3 DEF Required, Deleted
<1>12. m \in 0 .. MaxRev
  BY StoreMaxRevAssumption DEF Revs
<1> QED
  BY <1>2, <1>5, <1>9, <1>10, <1>11, <1>12, PushValue

(* A new item has no revision before its first. *)
LEMMA CreatePushValue ==
  ASSUME BaseInv, LockInv, ValueInv, NEW c \in Clients, CreatePush(c)
  PROVE  ValueInv'
<1> USE DEF BaseInv, LockInv, ValueInv
<1>1. PICK n \in Revs : n = Assigned + 1
  BY CreatePushFacts DEF Pushed
<1>2. PICK req \in SetRequests : req = op[c].req
  BY CreatePushFacts
<1>3. op[c].at = "create" /\ Pushed(c, n)
  BY <1>1, CreatePushFacts
<1>4. /\ \A r \in Revs : r # n => log'[r] = log[r]
      /\ log'[n].item = n /\ log'[n].last = req.last /\ log'[n].version = req.version
  BY <1>1, <1>2, <1>3 DEF Pushed
<1>5. IsPrev(0, n)'
  <2>1. \A q \in Revs : q < n => log'[q].item # n
    <3> SUFFICES ASSUME NEW q \in Revs, q < n PROVE log'[q].item # n
      OBVIOUS
    <3>1. log[q].item <= q /\ log[q].item \in Int
      BY DEF LogOK, TypeOK, Entry
    <3> QED
      BY <1>4, <3>1 DEF Revs
  <2> QED
    BY <1>4, <2>1 DEF IsPrev
<1>6. Required(0, n)'
  <2>1. ~NeedsItem(req) /\ req.last \in Int /\ req.version \in Int
    BY <1>2, <1>3 DEF TypeOK, OpFits, SetRequests
  <2> QED
    BY <1>4, <2>1 DEF Required, Deleted, NeedsItem
<1>7. 0 \in 0 .. MaxRev /\ n # 0
  BY StoreMaxRevAssumption DEF Revs
<1> QED
  BY <1>1, <1>3, <1>5, <1>6, <1>7, PushValue

(* A value that is set changes nothing for other revisions. *)
LEMMA SettlesValue ==
  ASSUME BaseInv, LockInv, ValueInv, NEW c \in Clients, NEW i \in Revs, NEW rev \in Revs, NEW v,
         Settles(c, i, rev, v),
         v.live => \E d \in 0 .. MaxRev : Counts(d, rev)'
  PROVE  ValueInv'
<1> USE DEF BaseInv, LockInv, ValueInv
<1>1. /\ \A r \in Revs : r # rev => log'[r] = log[r]
      /\ log'[rev].item = i /\ log[rev].item = i /\ log'[rev].value = v
      /\ log'[rev].last = log[rev].last /\ log'[rev].version = log[rev].version
      /\ v.mod_revision = rev
      /\ \A q \in OfItem(i) : q <= rev
  BY DEF Settles, ValueSet
<1>2. \A r \in Revs : /\ log'[r].item = log[r].item
                      /\ log'[r].last = log[r].last /\ log'[r].version = log[r].version
  BY <1>1
<1>3. ~Published(rev)
  <2>1. log[rev].value = NoValue
    BY DEF Settles, InFlight, FlightOK
  <2> QED
    BY <2>1 DEF Published, NoValue, Revs
<1>4. \A q \in Revs : Published(q) => Published(q)' /\ log'[q] = log[q]
  BY <1>1, <1>3 DEF Published
<1>5. CompareOK'
  <2> SUFFICES ASSUME NEW r \in Revs, log[r].item # 0
               PROVE  \E p \in 0 .. MaxRev : IsPrev(p, r)' /\ Required(p, r)'
    BY <1>2 DEF CompareOK
  <2>1. PICK p \in 0 .. MaxRev : IsPrev(p, r) /\ Required(p, r)
    BY DEF CompareOK
  <2>2. p # 0 => p \in Revs /\ p < r /\ log[p].item = log[r].item /\ Published(p)
    BY <2>1 DEF IsPrev
  <2>3. p # 0 => Published(p)' /\ log'[p] = log[p]
    BY <1>4, <2>2
  <2>4. \A q \in Revs : log'[q].item = log'[r].item /\ q < r => q <= p
    BY <1>2, <2>1 DEF IsPrev
  <2>5. IsPrev(p, r)'
    BY <1>2, <2>2, <2>3, <2>4 DEF IsPrev
  <2>6. Required(p, r)'
    BY <1>2, <2>1, <2>3 DEF Required, Deleted
  <2> QED
    BY <2>5, <2>6
<1>6. VersionsOK'
  <2> SUFFICES ASSUME NEW r \in Revs, Published(r)', log'[r].value.live, log'[r].item # 0
               PROVE  \E d \in 0 .. MaxRev : Counts(d, r)'
    BY DEF VersionsOK
  <2>1. CASE r = rev
    BY <1>1, <2>1
  <2>2. CASE r # rev
    <3>1. log'[r] = log[r]
      BY <1>1, <2>2
    <3>2. PICK d \in 0 .. MaxRev : Counts(d, r)
      BY <3>1 DEF VersionsOK, Published
    <3>3. IsLastDeletion(d, r)
      BY <3>2 DEF Counts
    <3>4. d # 0 => /\ d \in Revs /\ d < r /\ log[d].item = log[r].item
                   /\ Published(d) /\ ~log[d].value.live
      BY <3>3 DEF IsLastDeletion
    <3>5. d # 0 => /\ d \in Revs /\ d < r /\ log'[d].item = log'[r].item
                   /\ Published(d)' /\ ~log'[d].value.live
      BY <1>4, <3>1, <3>4
    <3>6. ~(log[r].item = i /\ rev <= r)
      BY <1>1, <2>2 DEF OfItem, Revs
    <3>7. \A q \in Revs : log'[q].item = log'[r].item /\ q <= r /\ Published(q)' /\ ~log'[q].value.live
                            => q <= d
      <4> SUFFICES ASSUME NEW q \in Revs, log'[q].item = log'[r].item, q <= r, Published(q)',
                          ~log'[q].value.live
                   PROVE  q <= d
        OBVIOUS
      <4>1. q # rev
        BY <1>1, <3>1, <3>6
      <4>2. log'[q] = log[q]
        BY <1>1, <4>1
      <4> QED
        BY <3>1, <3>3, <4>2 DEF IsLastDeletion, Published
    <3>8. Life(d, r)' = Life(d, r)
      BY <1>2 DEF Life
    <3>9. IsLastDeletion(d, r)'
      BY <3>5, <3>7 DEF IsLastDeletion
    <3> QED
      BY <3>1, <3>2, <3>8, <3>9 DEF Counts
  <2> QED
    BY <2>1, <2>2
<1> QED
  BY <1>5, <1>6

LEMMA LifeFinite ==
  ASSUME NEW d, NEW r
  PROVE  IsFiniteSet(Life(d, r)) /\ Cardinality(Life(d, r)) \in Nat
<1>1. IsFiniteSet(Revs)
  BY StoreMaxRevAssumption, FS_Interval DEF Revs
<1>2. IsFiniteSet(Life(d, r))
  BY <1>1, FS_Subset DEF Life
<1> QED
  BY <1>2, FS_CardinalityType

(* The version goes on from that of a live value, and starts anew after a deletion. *)
LEMMA SetStoreValue ==
  ASSUME BaseInv, LockInv, ValueInv, NEW c \in Clients, SetStore(c)
  PROVE  ValueInv'
<1> USE DEF BaseInv, LockInv, ValueInv
<1>1. PICK i \in Revs : i = op[c].item
  BY SetStoreFacts
<1>2. PICK rev \in Revs : rev = op[c].rev
  BY SetStoreFacts
<1>3. PICK old \in Value : old = items[i].latest_value
  BY DEF TypeOK, Item
<1>4. PICK live \in BOOLEAN : live = ~op[c].req.del
  <2>1. (~op[c].req.del) \in BOOLEAN
    BY SetStoreFacts DEF SetRequests
  <2> QED
    BY <2>1, Zenon
<1>5. PICK v : v = Successor(old, rev, live)
  OBVIOUS
<1>6. v = Successor(items[i].latest_value, rev, ~op[c].req.del)
  BY <1>3, <1>4, <1>5, Zenon
<1>7. /\ Settles(c, i, rev, v) /\ Known(i)
      /\ old.mod_revision < rev
      /\ \A q \in OfItem(i) : q = rev \/ q <= old.mod_revision
  BY <1>1, <1>2, <1>3, <1>6, SetStoreSettles
<1>8. /\ v.live = live
      /\ v.version = IF old.live THEN old.version + 1 ELSE 1
      /\ v.create_revision = IF old.live THEN old.create_revision ELSE rev
  <2>1. rev \in Nat
    BY DEF Revs
  <2> QED
    BY <1>5, <2>1, SuccessorFacts
<1>9. PICK m \in Revs : /\ m = old.mod_revision /\ log[m].item = i /\ Published(m)
                        /\ log[m].value = old
  BY <1>3, <1>7, KnownFacts
<1>10. /\ \A r \in Revs : r # rev => log'[r] = log[r]
       /\ log'[rev].item = i /\ log[rev].item = i /\ log'[rev].value = v
  BY <1>7 DEF Settles, ValueSet
<1>11. m < rev /\ log'[m] = log[m] /\ m \in Nat /\ rev \in Nat /\ i # 0 /\ m # 0
  BY <1>7, <1>9, <1>10 DEF Revs
<1>12. \A q \in Revs : log'[q].item = i => log[q].item = i /\ (q = rev \/ q <= m)
  BY <1>7, <1>9, <1>10 DEF OfItem
<1>13. \A q \in Revs : log[q].item = i => log'[q].item = i
  BY <1>10
<1>14. m \in 0 .. MaxRev
  BY StoreMaxRevAssumption DEF Revs
<1>15. v.live => \E d \in 0 .. MaxRev : Counts(d, rev)'
  <2> SUFFICES ASSUME v.live PROVE \E d \in 0 .. MaxRev : Counts(d, rev)'
    OBVIOUS
  <2>1. CASE old.live
    <3>1. PICK d \in 0 .. MaxRev : Counts(d, m)
      BY <1>9, <1>11, <2>1 DEF VersionsOK
    <3>2. /\ IsLastDeletion(d, m) /\ old.version = Cardinality(Life(d, m))
          /\ old.create_revision \in Life(d, m)
          /\ \A q \in Life(d, m) : old.create_revision <= q
      BY <1>9, <3>1 DEF Counts
    <3>3. d # 0 => /\ d \in Revs /\ d < m /\ log[d].item = i
                   /\ Published(d) /\ ~log[d].value.live
      BY <1>9, <3>2 DEF IsLastDeletion
    <3>4. d < m
      BY <1>11, <3>3
    <3>5. \A q : q \in Life(d, rev)' <=> q \in Life(d, m) \union {rev}
      <4>1. \A q \in Revs : q \in Life(d, rev)' <=> log'[q].item = i /\ q > d /\ q <= rev
        BY <1>10 DEF Life
      <4>2. \A q \in Revs : q \in Life(d, m) <=> log[q].item = i /\ q > d /\ q <= m
        BY <1>9 DEF Life
      <4>3. \A q \in Revs : q <= m => q <= rev
        BY <1>11 DEF Revs
      <4>4. rev > d /\ rev <= rev
        BY <1>11, <3>4
      <4>5. \A q \in Revs : q \in Life(d, rev)' <=> q \in Life(d, m) \union {rev}
        BY <1>10, <1>12, <1>13, <4>1, <4>2, <4>3, <4>4
      <4> QED
        BY <4>5 DEF Life
    <3>6. Life(d, rev)' = Life(d, m) \union {rev}
      BY <3>5, Zenon
    <3>7. rev \notin Life(d, m)
      BY <1>11 DEF Life
    <3>8. Cardinality(Life(d, rev)') = Cardinality(Life(d, m)) + 1
      <4>1. PICK L : L = Life(d, m) /\ IsFiniteSet(L) /\ rev \notin L
        BY <3>7, LifeFinite
      <4>2. Cardinality(L \union {rev}) = Cardinality(L) + 1
        BY <4>1, FS_AddElement
      <4> QED
        BY <3>6, <4>1, <4>2
    <3>9. IsLastDeletion(d, rev)'
      <4>1. d # 0 => log'[d] = log[d]
        BY <1>10, <1>11, <3>3 DEF Revs
      <4>2. d # 0 => /\ d \in Revs /\ d < rev /\ log'[d].item = log'[rev].item
                     /\ Published(d)' /\ ~log'[d].value.live
        BY <1>10, <1>11, <3>3, <4>1 DEF Published, Revs
      <4>3. \A q \in Revs : log'[q].item = log'[rev].item /\ q <= rev /\ Published(q)'
                              /\ ~log'[q].value.live => q <= d
        <5> SUFFICES ASSUME NEW q \in Revs, log'[q].item = i, Published(q)', ~log'[q].value.live
                     PROVE  q <= d
          BY <1>10
        <5>1. q # rev /\ q <= m
          BY <1>10, <1>12
        <5>2. log'[q] = log[q]
          BY <1>10, <5>1
        <5> QED
          BY <1>9, <3>2, <5>1, <5>2 DEF IsLastDeletion, Published
      <4> QED
        BY <4>2, <4>3 DEF IsLastDeletion
    <3>10. /\ v.create_revision \in Life(d, rev)'
           /\ \A q \in Life(d, rev)' : v.create_revision <= q
      <4>1. old.create_revision <= rev
        BY <1>11, <3>2 DEF Life, Revs
      <4> QED
        BY <1>8, <2>1, <3>2, <3>6, <4>1
    <3>11. v.version = Cardinality(Life(d, rev)')
      BY <1>8, <2>1, <3>2, <3>8
    <3> QED
      BY <1>10, <3>9, <3>10, <3>11 DEF Counts
  <2>2. CASE ~old.live
    <3>1. \A q : q \in Life(m, rev)' <=> q = rev
      <4>1. \A q \in Revs : q \in Life(m, rev)' <=> log'[q].item = i /\ q > m /\ q <= rev
        BY <1>10 DEF Life
      <4>2. \A q \in Revs : q \in Life(m, rev)' <=> q = rev
        BY <1>10, <1>11, <1>12, <4>1 DEF Revs
      <4> QED
        BY <4>2 DEF Life
    <3>2. Life(m, rev)' = {rev}
      BY <3>1, Zenon
    <3>3. Cardinality(Life(m, rev)') = 1
      BY <3>2, FS_Singleton, Zenon
    <3>4. IsLastDeletion(m, rev)'
      <4>1. /\ m \in Revs /\ m < rev /\ log'[m].item = log'[rev].item
            /\ Published(m)' /\ ~log'[m].value.live
        BY <1>9, <1>10, <1>11, <2>2 DEF Published
      <4>2. \A q \in Revs : log'[q].item = log'[rev].item /\ q <= rev /\ Published(q)'
                              /\ ~log'[q].value.live => q <= m
        BY <1>10, <1>12
      <4> QED
        BY <4>1, <4>2 DEF IsLastDeletion
    <3>5. Counts(m, rev)'
      BY <1>8, <1>10, <1>11, <2>2, <3>2, <3>3, <3>4 DEF Counts
    <3> QED
      BY <1>14, <3>5
  <2> QED
    BY <2>1, <2>2
<1> QED
  BY <1>7, <1>15, SettlesValue

LEMMA CreatePrefixValue ==
  ASSUME BaseInv, LockInv, ValueInv, NEW c \in Clients, CreatePrefix(c)
  PROVE  ValueInv'
<1> USE DEF BaseInv, LockInv, ValueInv
<1>1. PICK rev \in Revs : rev = op[c].rev
  BY CreatePrefixItem
<1>2. PICK v : v = Successor(NoValue, rev, TRUE)
  OBVIOUS
<1>3. Settles(c, rev, rev, v) /\ \A q \in OfItem(rev) : q = rev
  BY <1>1, <1>2, CreatePrefixSettles
<1>4. v.version = 1 /\ v.create_revision = rev
  BY <1>2 DEF Successor, NoValue
<1>5. v.live
  BY <1>2 DEF Successor
<1>6. /\ \A r \in Revs : r # rev => log'[r] = log[r]
      /\ log'[rev].item = rev /\ log[rev].item = rev /\ log'[rev].value = v
  BY <1>3 DEF Settles, ValueSet
<1>7. \A q \in Revs : log'[q].item = rev <=> q = rev
  BY <1>3, <1>6 DEF OfItem
<1>8. Counts(0, rev)'
  <2>1. \A q : q \in Life(0, rev)' <=> q = rev
    BY <1>6, <1>7 DEF Life, Revs
  <2>2. Life(0, rev)' = {rev}
    BY <2>1, Zenon
  <2>3. Cardinality(Life(0, rev)') = 1
    BY <2>2, FS_Singleton, Zenon
  <2>4. IsLastDeletion(0, rev)'
    BY <1>5, <1>6, <1>7 DEF IsLastDeletion
  <2>5. rev <= rev
    BY DEF Revs
  <2> QED
    BY <1>4, <1>6, <2>2, <2>3, <2>4, <2>5 DEF Counts
<1>9. 0 \in 0 .. MaxRev
  BY StoreMaxRevAssumption
<1> QED
  BY <1>3, <1>8, <1>9, SettlesValue

LEMMA ValueInit == Init => ValueInv
<1> SUFFICES ASSUME Init PROVE ValueInv
  OBVIOUS
<1>1. \A r \in Revs : log[r].item = 0
  BY DEF Init
<1> QED
  BY <1>1 DEF ValueInv, CompareOK, VersionsOK

LEMMA ValueStep == BaseInv /\ LockInv /\ ValueInv /\ [Next]_vars => ValueInv'
<1> SUFFICES ASSUME BaseInv, LockInv, ValueInv, [Next]_vars PROVE ValueInv'
  OBVIOUS
<1>1. CASE UNCHANGED vars
  BY <1>1, ValueFrame DEF vars, storeVars
<1>2. CASE Next
  <2>1. PICK c \in Clients :
           \/ QuietStep(c)
           \/ SetPush(c)
           \/ CreatePush(c)
           \/ SetStore(c)
           \/ CreatePrefix(c)
           \/ CreateTree(c)
           \/ CompactFacts(c)
    BY <1>2, NextCases
  <2>2. CASE QuietStep(c)
    <3>1. UNCHANGED log
      BY <2>2, QuietStepFacts DEF QuietFacts, storeVars
    <3> QED
      BY <3>1, ValueFrame
  <2>3. CASE SetPush(c)
    BY <2>3, SetPushValue
  <2>4. CASE CreatePush(c)
    BY <2>4, CreatePushValue
  <2>5. CASE SetStore(c)
    BY <2>5, SetStoreValue
  <2>6. CASE CreatePrefix(c)
    BY <2>6, CreatePrefixValue
  <2>7. CASE CreateTree(c)
    BY <2>7, ValueFrame DEF CreateTree
  <2>8. CASE CompactFacts(c)
    BY <2>8, ValueFrame DEF CompactFacts
  <2> QED
    BY <2>1, <2>2, <2>3, <2>4, <2>5, <2>6, <2>7, <2>8
<1> QED
  BY <1>1, <1>2

LEMMA ValuesCorrect == Spec => []ValueInv
BY TypeCorrect, LocksOrder, ValueInit, ValueStep, PTL DEF Spec

(* What NewestUpTo computes, given its result. *)
LEMMA NewestIs ==
  ASSUME NEW S, S \subseteq Revs, NEW r \in Int, NEW x \in 0 .. MaxRev,
         x # 0 => x \in S /\ x <= r,
         \A q \in S : q <= r => q <= x
  PROVE  NewestUpTo(S, r) = x
<1> DEFINE T == {q \in S : q <= r} \union {0}
<1>1. T \subseteq Int /\ x \in T /\ \A y \in T : y <= x
  <2>1. x \in Nat /\ \A y \in S : y \in Int
    <3>1. \A y \in Revs : y \in Int
      BY DEF Revs
    <3>2. x \in Nat
      BY StoreMaxRevAssumption
    <3> QED
      BY <3>1, <3>2
  <2>2. T \subseteq Int
    BY <2>1
  <2>3. x \in T
    OBVIOUS
  <2>4. \A y \in T : y <= x
    BY <2>1
  <2> QED
    BY <2>2, <2>3, <2>4
<1> HIDE DEF T
<1>2. Max(T) = x
  BY <1>1, MaxIs
<1> QED
  BY <1>2 DEF T, NewestUpTo

LEMMA CompareFollows == BaseInv /\ ValueInv => CompareIsAtomic
<1> SUFFICES ASSUME BaseInv, ValueInv, NEW r \in Revs, Published(r), log[r].item # 0
             PROVE  LET prev == NewestUpTo(OfItem(log[r].item), r - 1)
                    IN  /\ log[r].last > 0 => prev = log[r].last /\ ~Deleted(prev)
                        /\ log[r].version > 0 =>
                             ~Deleted(prev) /\ log[prev].value.version = log[r].version
                        /\ log[r].last = 0 \/ log[r].version = 0 => Deleted(prev)
  BY DEF CompareIsAtomic
<1>1. PICK p \in 0 .. MaxRev : IsPrev(p, r) /\ Required(p, r)
  BY DEF ValueInv, CompareOK
<1> DEFINE S == OfItem(log[r].item)
<1>2. S \subseteq Revs /\ r - 1 \in Int
  BY DEF OfItem, Revs
<1>3. /\ p # 0 => p \in S /\ p <= r - 1
      /\ \A q \in S : q <= r - 1 => q <= p
  BY <1>1 DEF IsPrev, OfItem, Revs
<1> HIDE DEF S
<1>4. NewestUpTo(S, r - 1) = p
  BY <1>2, <1>3, NewestIs
<1> QED
  BY <1>1, <1>4 DEF S, Required

LEMMA VersionsFollow == BaseInv /\ ValueInv => VersionsCount
<1> SUFFICES ASSUME BaseInv, ValueInv, NEW r \in Revs, Published(r), log[r].value.live,
                    log[r].item # 0
             PROVE  LET mine == OfItem(log[r].item)
                        dead == NewestUpTo({q \in mine : Published(q) /\ ~log[q].value.live}, r)
                        life == {q \in mine : q > dead /\ q <= r}
                    IN  /\ log[r].value.version = Cardinality(life)
                        /\ log[r].value.create_revision = Min(life)
  BY DEF VersionsCount
<1>1. PICK d \in 0 .. MaxRev : Counts(d, r)
  BY DEF ValueInv, VersionsOK
<1> DEFINE mine == OfItem(log[r].item)
           S == {q \in mine : Published(q) /\ ~log[q].value.live}
           life == {q \in mine : q > d /\ q <= r}
<1>2. S \subseteq Revs /\ r \in Int
  BY DEF OfItem, Revs
<1>3. /\ d # 0 => d \in S /\ d <= r
      /\ \A q \in S : q <= r => q <= d
  BY <1>1 DEF Counts, IsLastDeletion, OfItem, Revs
<1>4. NewestUpTo(S, r) = d
  <2> HIDE DEF S
  <2> QED
    BY <1>2, <1>3, NewestIs
<1>5. life = Life(d, r)
  BY DEF Life, OfItem
<1>6. log[r].value.create_revision = Min(Life(d, r))
  <2>1. Life(d, r) \subseteq Int
    BY DEF Life, Revs
  <2> QED
    BY <1>1, <2>1, MinIs DEF Counts
<1>7. log[r].value.version = Cardinality(Life(d, r))
  BY <1>1 DEF Counts
<1>8. life = {q \in mine : q > NewestUpTo(S, r) /\ q <= r}
  BY <1>4
<1> QED
  BY <1>5, <1>6, <1>7, <1>8, Zenon

(***************************************************************************)
(* Compare-and-set is atomic per item: whatever sets of the key, lookups   *)
(* and compactions come between the lookup in tree_map and the push, a set *)
(* that required a revision or a version replaced just that one.           *)
(***************************************************************************)
THEOREM CompareAndSet == Spec => []CompareIsAtomic
BY TypeCorrect, ValuesCorrect, CompareFollows, PTL

(***************************************************************************)
(* The version of a live value is the number of revisions of its item      *)
(* since the last deletion, and its create_revision the first of them.     *)
(***************************************************************************)
THEOREM VersionsAreCounts == Spec => []VersionsCount
BY TypeCorrect, ValuesCorrect, VersionsFollow, PTL

-------------------------------------------------------------------------------
(***************************************************************************)
(* What the store keeps for reading.                                       *)
(***************************************************************************)
LEMMA StoredFrame ==
  ASSUME StoredOK, BaseInv, UNCHANGED <<items, values, log>>,
         start_offset' \in Nat, start_offset' >= start_offset
  PROVE  StoredOK'
<1>1. \A r \in Revs : r > start_offset' => r > start_offset
  BY DEF BaseInv, TypeOK, Revs
<1> QED
  BY <1>1 DEF StoredOK, OfItem, Published

LEMMA PushStored ==
  ASSUME BaseInv, LockInv, StoredOK, NEW c \in Clients, SetPush(c) \/ CreatePush(c)
  PROVE  StoredOK'
<1> USE DEF BaseInv, LockInv
<1>1. PICK n \in Revs : n = Assigned + 1
  BY SetPushFacts, CreatePushFacts DEF Pushed
<1>2. PICK i : /\ Pushed(c, i) /\ i # 0
               /\ UNCHANGED <<values, start_offset>>
               /\ \A j \in Revs : items'[j].revisions \subseteq items[j].revisions
               /\ \A j \in Revs : \A r \in items[j].revisions :
                    r > start_offset => r \in items'[j].revisions
  <2>1. CASE SetPush(c)
    <3>1. PICK i \in Revs : i = op[c].item
      BY <2>1, SetPushFacts
    <3>2. /\ Pushed(c, i) /\ UNCHANGED <<values, start_offset>>
          /\ ItemIs(i, items'[i])
          /\ items'[i].revisions = {r \in items[i].revisions : r >= start_offset}
      BY <2>1, <3>1, SetPushFacts
    <3>3. i # 0 /\ \A j \in Revs : items[j].revisions \subseteq Revs
      BY DEF Revs, TypeOK, Item
    <3>4. \A r \in Revs : r > start_offset => r >= start_offset
      BY DEF Revs, TypeOK
    <3>5. \A j \in Revs : items'[j].revisions \subseteq items[j].revisions
      BY <3>2 DEF ItemIs
    <3>6. \A j \in Revs : \A r \in items[j].revisions : r > start_offset => r \in items'[j].revisions
      BY <3>2, <3>3, <3>4 DEF ItemIs
    <3> QED
      BY <3>2, <3>3, <3>5, <3>6
  <2>2. CASE CreatePush(c)
    <3>1. Pushed(c, n) /\ UNCHANGED <<values, start_offset, items>> /\ n # 0
      BY <1>1, <2>2, CreatePushFacts DEF Revs
    <3> QED
      BY <3>1
  <2> QED
    BY <2>1, <2>2
<1>3. /\ \A r \in Revs : r # n => log'[r] = log[r]
      /\ log'[n].item = i /\ log'[n].value = NoValue
  BY <1>1, <1>2 DEF Pushed
<1>4. ~Published(n)'
  BY <1>3 DEF Published, NoValue, Revs
<1>5. \A r \in Revs : log[r].item # 0 => r # n
  BY <1>1 DEF LogOK, CountInv, Revs
<1>6. \A r \in Revs : log'[r].item # 0 /\ Published(r)' /\ r > start_offset' => values'[r] = log'[r].value
  BY <1>2, <1>3, <1>4 DEF StoredOK, Published
<1>7. \A j \in Revs : \A r \in items'[j].revisions : log'[r].item = j /\ Published(r)'
  <2> SUFFICES ASSUME NEW j \in Revs, NEW r \in items'[j].revisions
               PROVE  log'[r].item = j /\ Published(r)'
    OBVIOUS
  <2>1. r \in items[j].revisions /\ r \in Revs
    BY <1>2 DEF TypeOK, Item
  <2>2. log[r].item = j /\ Published(r) /\ j # 0
    BY <2>1 DEF StoredOK, Revs
  <2>3. log'[r] = log[r]
    BY <1>3, <1>5, <2>1, <2>2
  <2> QED
    BY <2>2, <2>3 DEF Published
<1>8. \A j \in Revs : \A r \in OfItem(j)' : Published(r)' /\ r > start_offset' => r \in items'[j].revisions
  <2> SUFFICES ASSUME NEW j \in Revs, NEW r \in Revs, log'[r].item = j, Published(r)',
                      r > start_offset
               PROVE  r \in items'[j].revisions
    BY <1>2 DEF OfItem
  <2>1. log'[r] = log[r]
    BY <1>3, <1>4
  <2>2. r \in items[j].revisions
    BY <2>1 DEF StoredOK, OfItem, Published
  <2> QED
    BY <1>2, <2>2
<1> QED
  BY <1>6, <1>7, <1>8 DEF StoredOK

LEMMA SettlesStored ==
  ASSUME BaseInv, LockInv, StoredOK, NEW c \in Clients, NEW i \in Revs, NEW rev \in Revs, NEW v,
         Settles(c, i, rev, v),
         \/ items'[i].revisions = items[i].revisions \union {rev}
         \/ items'[i].revisions = {rev} /\ \A q \in OfItem(i) : q = rev
  PROVE  StoredOK'
<1> USE DEF BaseInv, LockInv
<1>1. /\ \A r \in Revs : r # rev => log'[r] = log[r] /\ values'[r] = values[r]
      /\ log'[rev].item = i /\ log[rev].item = i /\ log'[rev].value = v
      /\ rev > start_offset => values'[rev] = v
      /\ v.mod_revision = rev
      /\ UNCHANGED start_offset
  BY DEF Settles, ValueSet
<1>2. \A j \in Revs : j # i => items'[j] = items[j]
  BY DEF Settles, ItemIs
<1>3. Published(rev)' /\ \A r \in Revs : r # rev => (Published(r)' <=> Published(r))
  BY <1>1 DEF Published
<1>4. \A r \in Revs : log'[r].item # 0 /\ Published(r)' /\ r > start_offset' => values'[r] = log'[r].value
  BY <1>1, <1>3 DEF StoredOK
<1>5. \A j \in Revs : items[j].revisions \subseteq Revs
  BY DEF TypeOK, Item
<1>6. \A r \in Revs : log'[r].item = log[r].item
  BY <1>1
<1>7. \A r \in Revs : Published(r) => Published(r)'
  BY <1>3
<1>8. \A j \in Revs : \A r \in items'[j].revisions : log'[r].item = j /\ Published(r)'
  <2> SUFFICES ASSUME NEW j \in Revs, NEW r \in items'[j].revisions
               PROVE  log'[r].item = j /\ Published(r)'
    OBVIOUS
  <2>1. CASE r \in items[j].revisions
    BY <1>5, <1>6, <1>7, <2>1 DEF StoredOK
  <2>2. CASE r \notin items[j].revisions
    BY <1>1, <1>2, <1>3, <2>2
  <2> QED
    BY <2>1, <2>2
<1>9. \A j \in Revs : \A r \in OfItem(j)' : Published(r)' /\ r > start_offset' => r \in items'[j].revisions
  <2> SUFFICES ASSUME NEW j \in Revs, NEW r \in Revs, log[r].item = j, Published(r)',
                      r > start_offset
               PROVE  r \in items'[j].revisions
    BY <1>1, <1>6 DEF OfItem
  <2>1. CASE r = rev
    BY <1>1, <2>1
  <2>2. CASE r # rev
    <3>1. r \in items[j].revisions
      BY <1>3, <2>2 DEF StoredOK, OfItem
    <3>2. r \in OfItem(j)
      BY DEF OfItem
    <3> QED
      BY <1>2, <2>2, <3>1, <3>2
  <2> QED
    BY <2>1, <2>2
<1> QED
  BY <1>4, <1>8, <1>9 DEF StoredOK

LEMMA StoredStep ==
  ASSUME BaseInv, BaseInv', LockInv, StoredOK, [Next]_vars
  PROVE  StoredOK'
<1>1. start_offset \in Nat /\ start_offset' \in Nat
  BY DEF BaseInv, TypeOK
<1>2. CASE UNCHANGED vars
  BY <1>1, <1>2, StoredFrame DEF vars, storeVars
<1>3. CASE Next
  <2>1. PICK c \in Clients :
           \/ QuietStep(c)
           \/ SetPush(c)
           \/ CreatePush(c)
           \/ SetStore(c)
           \/ CreatePrefix(c)
           \/ CreateTree(c)
           \/ CompactFacts(c)
    BY <1>3, NextCases
  <2>2. CASE QuietStep(c)
    <3>1. UNCHANGED storeVars
      BY <2>2, QuietStepFacts DEF QuietFacts
    <3> QED
      BY <1>1, <3>1, StoredFrame DEF storeVars
  <2>3. CASE SetPush(c) \/ CreatePush(c)
    BY <2>3, PushStored
  <2>4. CASE SetStore(c)
    <3>1. op[c].item \in Revs /\ op[c].rev \in Revs
      BY <2>4, SetStoreFacts DEF BaseInv
    <3> QED
      BY <2>4, <3>1, SetStoreSettles, SettlesStored
  <2>5. CASE CreatePrefix(c)
    <3>1. op[c].rev \in Revs
      BY <2>5, CreatePrefixItem DEF BaseInv
    <3> QED
      BY <2>5, <3>1, CreatePrefixSettles, SettlesStored
  <2>6. CASE CreateTree(c)
    BY <1>1, <2>6, StoredFrame DEF CreateTree
  <2>7. CASE CompactFacts(c)
    BY <2>7, StoredFrame DEF CompactFacts
  <2> QED
    BY <2>1, <2>2, <2>3, <2>4, <2>5, <2>6, <2>7
<1> QED
  BY <1>2, <1>3

-------------------------------------------------------------------------------
(***************************************************************************)
(* What a range reads.                                                     *)
(***************************************************************************)
(* An item that no set holds has a newest revision up to any revision. *)
LEMMA NewestExists ==
  ASSUME BaseInv, LockInv, NEW i \in Revs, Known(i), items[i].writer = None, NEW R \in Int
  PROVE  \E n \in 0 .. MaxRev : IsNewest(i, R, n)
<1> DEFINE T == {q \in Revs : log[q].item = i /\ q <= R} \union {0}
<1>1. T \subseteq 0 .. MaxRev /\ T # {} /\ MaxRev \in Nat
  BY StoreMaxRevAssumption DEF Revs
<1>2. PICK n \in T : \A y \in T : n >= y
  <2> HIDE DEF T
  <2> QED
    BY <1>1, BoundedHasGreatest
<1>3. n \in 0 .. MaxRev
  BY <1>1, <1>2
<1>4. n # 0 => n \in Revs /\ log[n].item = i /\ n <= R
  OBVIOUS
<1>5. \A q \in Revs : log[q].item = i /\ q <= R => q <= n
  BY <1>2, <1>3 DEF Revs
<1>6. n # 0 => Published(n)
  <2>1. PICK m \in Revs : /\ log[m].item = i /\ Published(m)
                          /\ \A q \in OfItem(i) : q <= m
                          /\ \A q \in OfItem(i) : q < m => Published(q)
    BY KnownFacts
  <2> QED
    BY <1>4, <2>1 DEF OfItem, Revs
<1> QED
  BY <1>3, <1>4, <1>5, <1>6 DEF IsNewest

(* find_value_for_revision finds it, unless it is deleted or compacted. *)
LEMMA FindsNewest ==
  ASSUME BaseInv, LockInv, StoredOK, NEW i \in Revs, Known(i), items[i].writer = None, NEW R \in Int
  PROVE  \E n \in 0 .. MaxRev :
           /\ IsNewest(i, R, n)
           /\ LET v == FindValue(items[i], R)
              IN  /\ v.live => v.mod_revision = n /\ n # 0 /\ ~Deleted(n)
                  /\ ~v.live => Deleted(n) \/ n <= start_offset
<1> USE DEF BaseInv, LockInv
<1>1. PICK n \in 0 .. MaxRev : IsNewest(i, R, n)
  BY NewestExists
<1>2. PICK v \in Value : v = FindValue(items[i], R)
  BY FindValueType
<1>3. PICK m \in Revs : /\ m = items[i].latest_value.mod_revision
                        /\ log[m].item = i /\ Published(m)
                        /\ log[m].value = items[i].latest_value
                        /\ \A q \in OfItem(i) : q <= m
  BY KnownFacts
<1>4. start_offset \in Nat /\ n \in Nat /\ m \in Nat /\ m # 0
  BY StoreMaxRevAssumption DEF TypeOK, Revs
<1>5. n # 0 => n \in Revs /\ log[n].item = i /\ Published(n) /\ n <= R
  BY <1>1 DEF IsNewest
<1>6. \A q \in Revs : log[q].item = i /\ q <= R => q <= n
  BY <1>1 DEF IsNewest
<1> DEFINE upTo == {r \in items[i].revisions : r <= R}
<1>7. v = IF R >= m THEN items[i].latest_value ELSE IF upTo = {} THEN NoValue ELSE Get(Max(upTo))
  BY <1>2, <1>3 DEF FindValue
<1>8. upTo \subseteq 0 .. MaxRev /\ upTo \subseteq Revs
  BY StoreMaxRevAssumption DEF TypeOK, Item, Revs
<1>9. \A r \in upTo : log[r].item = i /\ Published(r) /\ r <= R
  BY DEF StoredOK
<1>10. n # 0 /\ n > start_offset => n \in upTo
  BY <1>5 DEF StoredOK, OfItem
<1>11. ~NoValue.live
  BY DEF NoValue
<1> HIDE DEF upTo
<1>12. CASE R >= m
  <2>1. n = m
    <3>1. m <= n
      BY <1>3, <1>4, <1>6, <1>12
    <3>2. n \in OfItem(i)
      BY <1>4, <1>5, <3>1 DEF OfItem
    <3> QED
      BY <1>3, <1>4, <3>1, <3>2
  <2>2. v = log[n].value /\ v.mod_revision = n /\ n # 0
    BY <1>3, <1>4, <1>7, <1>12, <2>1
  <2> QED
    BY <1>1, <1>2, <2>2 DEF Deleted
<1>13. CASE ~(R >= m) /\ upTo = {}
  BY <1>1, <1>2, <1>4, <1>7, <1>10, <1>11, <1>13 DEF Deleted
<1>14. CASE ~(R >= m) /\ upTo # {}
  <2>1. PICK x \in upTo : x = Max(upTo) /\ \A y \in upTo : y <= x
    BY <1>8, <1>14, MaxType, StoreMaxRevAssumption
  <2>2. v = Get(x) /\ x \in Revs /\ x <= n /\ log[x].item = i /\ Published(x)
    BY <1>6, <1>7, <1>8, <1>9, <1>14, <2>1
  <2>3. CASE x > start_offset
    <3>1. n \in upTo
      BY <1>4, <1>10, <2>2, <2>3 DEF Revs
    <3>2. n = x
      BY <1>4, <2>1, <2>2, <3>1 DEF Revs
    <3>3. v = values[x] /\ values[x] = log[x].value
      BY <1>4, <2>2, <2>3 DEF Get, StoredOK, Revs
    <3>4. v.mod_revision = n /\ n # 0 /\ v = log[n].value
      BY <2>2, <3>2, <3>3 DEF Published, Revs
    <3> QED
      BY <1>1, <1>2, <3>4 DEF Deleted
  <2>4. CASE ~(x > start_offset)
    <3>1. v = NoValue
      BY <1>4, <2>2, <2>4 DEF Get, Revs
    <3>2. n = 0 \/ n <= start_offset
      BY <1>4, <1>10, <2>1, <2>2, <2>4 DEF Revs
    <3> QED
      BY <1>1, <1>2, <1>11, <3>1, <3>2 DEF Deleted
  <2> QED
    BY <2>3, <2>4
<1> QED
  BY <1>12, <1>13, <1>14

(* The log only grows, and what is set in it stays. *)
LogGrows ==
  /\ Assigned' >= Assigned /\ Assigned' \in Nat
  /\ start_offset' >= start_offset /\ start_offset' \in Nat
  /\ \A r \in Revs : Published(r) /\ log[r].item # 0 => log'[r] = log[r]
  /\ \A r \in Revs : r <= Assigned =>
       /\ log'[r].item = log[r].item
       /\ log'[r].last = log[r].last
       /\ log'[r].version = log[r].version

(* The newest revision up to one that has been assigned stays the newest. *)
LEMMA NewestKept ==
  ASSUME BaseInv, LogGrows, NEW i \in Revs, NEW R \in Int, R <= Assigned,
         NEW n \in 0 .. MaxRev, IsNewest(i, R, n)
  PROVE  IsNewest(i, R, n)' /\ (Deleted(n)' <=> Deleted(n))
<1> USE DEF BaseInv
<1>1. n # 0 => n \in Revs /\ log[n].item = i /\ Published(n) /\ n <= R /\ log'[n] = log[n]
  BY DEF IsNewest, LogGrows, Revs
<1>2. \A q \in Revs : q <= R => log'[q].item = log[q].item
  BY DEF LogGrows, CountInv, Revs
<1>3. n # 0 => Published(n)'
  BY <1>1 DEF Published
<1>4. \A q \in Revs : log'[q].item = i /\ q <= R => q <= n
  BY <1>2 DEF IsNewest
<1>5. IsNewest(i, R, n)'
  BY <1>1, <1>3, <1>4 DEF IsNewest
<1>6. Deleted(n)' <=> Deleted(n)
  BY <1>1 DEF Deleted
<1> QED
  BY <1>5, <1>6

LEMMA ScanKept ==
  ASSUME BaseInv, LogGrows, prefix_map' = prefix_map, NEW c \in Clients, op[c].at = "scan",
         ScanOK(c), ScanReads(c), op'[c] = op[c]
  PROVE  ScanOK(c)' /\ ScanReads(c)'
<1> USE DEF BaseInv
<1>1. ScanOK(c)'
  <2>1. Page(c)' = Page(c)
    BY DEF Page
  <2> QED
    BY <2>1 DEF ScanOK
<1>2. ScanReads(c)'
  <2> SUFFICES ASSUME op[c].reached
               PROVE  /\ RangeRevision(op[c]) <= Assigned'
                      /\ \A k \in op[c].req.keys :
                           prefix_map[k] # None /\ k \notin op[c].left => ReadOK(c, k)'
    BY DEF ScanReads, RangeRevision
  <2>1. PICK R \in Int : R = RangeRevision(op[c]) /\ R = RangeRevision(op[c])'
    BY DEF RangeRevision, TypeOK, OpFits, Op, RangeRequests
  <2>2. R <= Assigned /\ Assigned \in Nat /\ R <= Assigned'
    BY <2>1 DEF ScanReads, CountInv, LogGrows
  <2>3. ASSUME NEW k \in op[c].req.keys, prefix_map[k] # None, k \notin op[c].left
        PROVE  ReadOK(c, k)'
    <3>1. ReadOK(c, k)
      BY <2>3 DEF ScanReads
    <3>2. PageBelow(c, k)' = PageBelow(c, k)
      BY DEF PageBelow
    <3>3. CASE op[c].got[k] = 0 /\ Cardinality(PageBelow(c, k)) = op[c].req.limit
      BY <3>2, <3>3 DEF ReadOK
    <3>4. CASE ~(op[c].got[k] = 0 /\ Cardinality(PageBelow(c, k)) = op[c].req.limit)
      <4>1. PICK n \in 0 .. MaxRev :
              /\ IsNewest(prefix_map[k], R, n)
              /\ op[c].got[k] = n \/ (op[c].got[k] = 0 /\ (Deleted(n) \/ n <= start_offset))
        BY <2>1, <3>1, <3>4 DEF ReadOK
      <4>2. PICK i \in Revs : i = prefix_map[k] /\ i = prefix_map'[k]
        <5>1. k \in Keys
          BY DEF TypeOK, OpFits, RangeRequests
        <5> QED
          BY <2>3, <5>1 DEF TypeOK
      <4>3. IsNewest(i, R, n)' /\ (Deleted(n)' <=> Deleted(n))
        BY <2>2, <4>1, <4>2, NewestKept
      <4>4. n <= start_offset => n <= start_offset'
        BY StoreMaxRevAssumption DEF LogGrows, TypeOK
      <4>5. IsNewest(prefix_map[k], RangeRevision(op[c]), n)'
        BY <2>1, <4>2, <4>3 DEF IsNewest
      <4> QED
        BY <4>1, <4>3, <4>4, <4>5 DEF ReadOK
    <3> QED
      BY <3>3, <3>4
  <2> QED
    BY <2>1, <2>2, <2>3
<1> QED
  BY <1>1, <1>2

LEMMA LogGrowsStep ==
  ASSUME BaseInv, BaseInv', LockInv, NEW c \in Clients,
         \/ QuietStep(c)
         \/ SetPush(c)
         \/ CreatePush(c)
         \/ SetStore(c)
         \/ CreatePrefix(c)
         \/ CreateTree(c)
         \/ CompactFacts(c)
  PROVE  LogGrows
<1> USE DEF BaseInv, LockInv
<1>1. /\ start_offset \in Nat /\ start_offset' \in Nat /\ Assigned \in Nat /\ Assigned' \in Nat
      /\ start_offset' = start_offset => start_offset' >= start_offset
      /\ Assigned' = Assigned => Assigned' >= Assigned
  BY DEF TypeOK, CountInv
<1>2. ASSUME UNCHANGED <<start_offset, length, removing, log>> PROVE LogGrows
  BY <1>1, <1>2 DEF LogGrows, Assigned
<1>3. CASE QuietStep(c)
  BY <1>2, <1>3, QuietStepFacts DEF QuietFacts, storeVars
<1>4. CASE SetPush(c) \/ CreatePush(c)
  <2>1. PICK i : Pushed(c, i) /\ UNCHANGED start_offset
    BY <1>4, SetPushFacts, CreatePushFacts
  <2>2. PICK n \in Revs : n = Assigned + 1
    BY <2>1 DEF Pushed
  <2>3. /\ \A r \in Revs : r # n => log'[r] = log[r]
        /\ Assigned' = n
    BY <2>1, <2>2 DEF Pushed
  <2>4. log[n].item = 0
    BY <1>1, <2>2 DEF LogOK, Revs
  <2>5. \A r \in Revs : r <= Assigned => r # n
    BY <1>1, <2>2
  <2>6. \A r \in Revs : log[r].item # 0 => log'[r] = log[r]
    BY <2>3, <2>4
  <2>7. \A r \in Revs : r <= Assigned => log'[r] = log[r]
    BY <2>3, <2>5
  <2>8. Assigned' >= Assigned /\ start_offset' >= start_offset
    BY <1>1, <2>1, <2>2, <2>3
  <2> QED
    BY <1>1, <2>6, <2>7, <2>8 DEF LogGrows
<1>5. ASSUME NEW i \in Revs, NEW rev \in Revs, NEW v, Settles(c, i, rev, v) PROVE LogGrows
  <2>1. /\ \A r \in Revs : r # rev => log'[r] = log[r]
        /\ log'[rev].item = i /\ log[rev].item = i
        /\ log'[rev].last = log[rev].last /\ log'[rev].version = log[rev].version
        /\ UNCHANGED <<start_offset, length, removing>>
    BY <1>5 DEF Settles, ValueSet
  <2>2. ~Published(rev)
    <3>1. log[rev].value = NoValue
      BY <1>5 DEF Settles, InFlight, FlightOK
    <3> QED
      BY <3>1 DEF Published, NoValue, Revs
  <2>3. Assigned' = Assigned
    BY <2>1 DEF Assigned
  <2> QED
    BY <1>1, <2>1, <2>2, <2>3 DEF LogGrows
<1>6. CASE SetStore(c)
  <2>1. op[c].item \in Revs /\ op[c].rev \in Revs
    BY <1>6, SetStoreFacts
  <2> QED
    BY <1>5, <1>6, <2>1, SetStoreSettles
<1>7. CASE CreatePrefix(c)
  <2>1. op[c].rev \in Revs
    BY <1>7, CreatePrefixItem
  <2> QED
    BY <1>5, <1>7, <2>1, CreatePrefixSettles
<1>8. CASE CreateTree(c)
  BY <1>2, <1>8 DEF CreateTree
<1>9. CASE CompactFacts(c)
  BY <1>1, <1>9 DEF CompactFacts, LogGrows
<1> QED
  BY <1>3, <1>4, <1>6, <1>7, <1>8, <1>9

LEMMA LookupScan ==
  ASSUME BaseInv, NEW c \in Clients, RangeLookup(c)
  PROVE  ScanOK(c)' /\ ScanReads(c)'
<1> USE DEF BaseInv
<1>1. /\ op'[c].req = op[c].req
      /\ op[c].req \in RangeRequests
      /\ op'[c].left = {k \in op[c].req.keys : prefix_map[k] # None}
      /\ op'[c].got = NoKeys
      /\ op'[c].count = 0
      /\ op'[c].reached <=> RangeRevision(op'[c]) <= Assigned
  BY RangeLookupFacts DEF CountInv
<1>2. UNCHANGED <<prefix_map, start_offset, length, removing>>
  BY DEF RangeLookup, storeVars
<1>3. Assigned' = Assigned
  BY <1>2 DEF Assigned
<1>4. /\ op[c].req.keys \subseteq Keys /\ op[c].req.limit \in Nat
      /\ \A k \in Keys : op'[c].got[k] = 0
  BY <1>1 DEF RangeRequests, NoKeys
<1>5. Page(c)' = {}
  BY <1>4 DEF Page
<1>6. Cardinality(Page(c)') = 0
  BY <1>5, FS_EmptySet, Zenon
<1>7. ScanOK(c)'
  BY <1>1, <1>2, <1>4, <1>6 DEF ScanOK
<1>8. ScanReads(c)'
  BY <1>1, <1>2, <1>3 DEF ScanReads, RangeRevision
<1> QED
  BY <1>7, <1>8

(* When a page is full, all its keys are below the next one. *)
LEMMA FullPage ==
  ASSUME BaseInv, NEW c \in Clients, op[c].at = "scan", ScanOK(c), NEW k \in Keys, IsNext(c, k)
  PROVE  /\ PageBelow(c, k) = Page(c)
         /\ op[c].got[k] = 0
         /\ k \in op[c].req.keys
         /\ \A l \in op[c].left : l # k => k < l
         /\ IsFiniteSet(Page(c))
<1>1. k \in op[c].left /\ \A l \in op[c].left : k <= l
  BY DEF IsNext
<1>2. op[c].left \subseteq Keys /\ \A l \in Keys : l \in Nat
  BY StoreKeysAssumption DEF BaseInv, TypeOK, Op
<1>3. PageBelow(c, k) = Page(c)
  BY <1>1 DEF PageBelow, Page, ScanOK
<1>4. \A l \in op[c].left : l # k => k < l
  BY <1>1, <1>2
<1>5. IsFiniteSet(Page(c))
  BY StoreKeysAssumption, FS_Subset DEF Page
<1> QED
  BY <1>1, <1>3, <1>4, <1>5 DEF ScanOK

LEMMA SkipScan ==
  ASSUME BaseInv, NEW c \in Clients, RangeSkip(c), ScanOK(c), ScanReads(c)
  PROVE  ScanOK(c)' /\ ScanReads(c)'
<1> USE DEF BaseInv
<1>1. PICK k \in Keys :
        /\ IsNext(c, k)
        /\ OpIs(c, op'[c])
        /\ op'[c].req = op[c].req
        /\ op'[c].latest_rev = op[c].latest_rev
        /\ op'[c].reached = op[c].reached
        /\ op'[c].left = op[c].left \ {k}
        /\ op'[c].count = op[c].count + 1
        /\ op'[c].got = op[c].got
  BY RangeSkipFacts
<1>2. op[c].at = "scan" /\ op[c].count > op[c].req.limit
  BY DEF RangeSkip, PastLimit
<1>3. UNCHANGED <<prefix_map, start_offset, length, removing, log>>
  BY DEF RangeSkip, storeVars
<1>4. Assigned' = Assigned /\ RangeRevision(op'[c]) = RangeRevision(op[c])
  BY <1>1, <1>3 DEF Assigned, RangeRevision
<1>5. op[c].count \in Nat /\ op[c].req.limit \in Nat /\ op[c].req.keys \subseteq Keys
  BY <1>2 DEF TypeOK, Op, OpFits, RangeRequests
<1>6. /\ PageBelow(c, k) = Page(c)
      /\ op[c].got[k] = 0
      /\ \A l \in op[c].left : l # k => k < l
  BY <1>1, <1>2, FullPage
<1>7. Page(c)' = Page(c) /\ \A j : PageBelow(c, j)' = PageBelow(c, j)
  BY <1>1 DEF Page, PageBelow
<1>8. Cardinality(Page(c)) = op[c].req.limit
  BY <1>2, <1>5 DEF ScanOK
<1>9. ScanOK(c)'
  <2>1. \A j \in op'[c].left : j \in op'[c].req.keys /\ op'[c].got[j] = 0
    BY <1>1 DEF ScanOK
  <2>2. \A j \in Keys : op'[c].got[j] # 0 => \A l \in op'[c].left : j < l
    BY <1>1 DEF ScanOK
  <2>3. \A j \in op'[c].req.keys : prefix_map'[j] # None /\ j \notin op'[c].left =>
          \A l \in op'[c].left : j < l
    BY <1>1, <1>3, <1>6 DEF ScanOK
  <2>4. Cardinality(Page(c)') = IF op'[c].count <= op'[c].req.limit THEN op'[c].count
                                                                    ELSE op'[c].req.limit
    BY <1>1, <1>2, <1>5, <1>7, <1>8
  <2> QED
    BY <2>1, <2>2, <2>3, <2>4 DEF ScanOK
<1>10. ScanReads(c)'
  <2> SUFFICES ASSUME op[c].reached
               PROVE  /\ RangeRevision(op[c]) <= Assigned
                      /\ \A j \in op[c].req.keys :
                           prefix_map[j] # None /\ j \notin op'[c].left => ReadOK(c, j)'
    BY <1>1, <1>3, <1>4 DEF ScanReads, RangeRevision
  <2>1. RangeRevision(op[c]) <= Assigned
    BY DEF ScanReads
  <2>2. ASSUME NEW j \in op[c].req.keys, prefix_map[j] # None, j \notin op'[c].left
        PROVE  ReadOK(c, j)'
    <3>1. CASE j = k
      BY <1>1, <1>6, <1>7, <1>8, <3>1 DEF ReadOK
    <3>2. CASE j # k
      <4>1. ReadOK(c, j)
        BY <1>1, <2>2, <3>2 DEF ScanReads
      <4> QED
        BY <1>1, <1>3, <1>4, <1>7, <4>1 DEF ReadOK, IsNewest, RangeRevision, Published, Deleted
    <3> QED
      BY <3>1, <3>2
  <2> QED
    BY <2>1, <2>2
<1> QED
  BY <1>9, <1>10

LEMMA ItemScan ==
  ASSUME BaseInv, LockInv, StoredOK, NEW c \in Clients, RangeItem(c), ScanOK(c), ScanReads(c),
         op'[c].at = "scan"
  PROVE  ScanOK(c)' /\ ScanReads(c)'
<1> USE DEF BaseInv, LockInv
<1>1. op[c].at = "scan" /\ ~(op[c].count > op[c].req.limit)
  BY DEF RangeItem, PastLimit
<1>2. \A k \in Keys : IsNext(c, k) => Found(c, k).mod_revision \in Nat
  BY <1>1, FoundType DEF Value
<1>3. PICK k \in Keys :
        /\ IsNext(c, k)
        /\ items[prefix_map[k]].writer = None
        /\ OpIs(c, op'[c])
        /\ op'[c].req = op[c].req
        /\ op'[c].latest_rev = op[c].latest_rev
        /\ op'[c].reached = op[c].reached
        /\ op'[c].left = op[c].left \ {k}
        /\ op'[c].count = IF Found(c, k).live THEN op[c].count + 1 ELSE op[c].count
        /\ \A l \in Keys : l # k => op'[c].got[l] = op[c].got[l]
        /\ op'[c].got[k] = IF Found(c, k).live /\ op[c].count < op[c].req.limit
                           THEN Found(c, k).mod_revision ELSE 0
  BY <1>2, RangeItemFacts
<1>4. UNCHANGED <<prefix_map, start_offset, length, removing, log>>
  BY DEF RangeItem, storeVars
<1>5. Assigned' = Assigned /\ RangeRevision(op'[c]) = RangeRevision(op[c])
  BY <1>3, <1>4 DEF Assigned, RangeRevision
<1>6. op[c].count \in Nat /\ op[c].req.limit \in Nat /\ op[c].req.keys \subseteq Keys
  BY <1>1 DEF TypeOK, Op, OpFits, RangeRequests
<1>7. op[c].left \subseteq Keys /\ \A l \in Keys : l \in Nat
  BY StoreKeysAssumption DEF TypeOK, Op
<1>8. /\ PageBelow(c, k) = Page(c)
      /\ op[c].got[k] = 0
      /\ \A l \in op[c].left : l # k => k < l
      /\ IsFiniteSet(Page(c))
  BY <1>1, <1>3, FullPage
<1>9. Cardinality(Page(c)) = op[c].count /\ op[c].count <= op[c].req.limit
  BY <1>1, <1>6 DEF ScanOK
<1>10. PICK n \in 0 .. MaxRev :
         /\ IsNewest(prefix_map[k], RangeRevision(op[c]), n)
         /\ Found(c, k).live => Found(c, k).mod_revision = n /\ n # 0
         /\ ~Found(c, k).live => Deleted(n) \/ n <= start_offset
  <2>1. prefix_map[k] \in Revs
    BY <1>1, <1>3, FoundType
  <2>2. Known(prefix_map[k])
    BY <2>1, StoreClientsAssumption DEF MapsOK, Revs
  <2>3. RangeRevision(op[c]) \in Int
    BY <1>1 DEF RangeRevision, TypeOK, OpFits, Op, RangeRequests
  <2> QED
    BY <1>3, <2>1, <2>2, <2>3, FindsNewest DEF Found
<1>11. /\ Cardinality(Page(c)') = IF op'[c].count <= op'[c].req.limit THEN op'[c].count
                                                                      ELSE op'[c].req.limit
  <2>1. CASE Found(c, k).live /\ op[c].count < op[c].req.limit
    <3>1. op'[c].got[k] # 0
      BY <1>3, <1>10, <2>1
    <3>2. Page(c)' = Page(c) \union {k} /\ k \notin Page(c)
      BY <1>3, <1>8, <3>1 DEF Page
    <3>3. Cardinality(Page(c)') = Cardinality(Page(c)) + 1
      <4>1. PICK P : P = Page(c) /\ IsFiniteSet(P) /\ k \notin P
        BY <1>8, <3>2
      <4>2. Cardinality(P \union {k}) = Cardinality(P) + 1
        BY <4>1, FS_AddElement
      <4> QED
        BY <3>2, <4>1, <4>2
    <3> QED
      BY <1>3, <1>6, <1>9, <2>1, <3>3
  <2>2. CASE ~(Found(c, k).live /\ op[c].count < op[c].req.limit)
    <3>1. op'[c].got[k] = 0
      BY <1>3, <2>2
    <3>2. Page(c)' = Page(c)
      BY <1>3, <1>8, <3>1 DEF Page
    <3> QED
      BY <1>3, <1>6, <1>9, <2>2, <3>2
  <2> QED
    BY <2>1, <2>2
<1>12. ScanOK(c)'
  <2>1. \A j \in op'[c].left : j \in op'[c].req.keys /\ op'[c].got[j] = 0
    BY <1>3, <1>7 DEF ScanOK
  <2>2. \A j \in Keys : op'[c].got[j] # 0 => \A l \in op'[c].left : j < l
    BY <1>3, <1>8 DEF ScanOK
  <2>3. \A j \in op'[c].req.keys : prefix_map'[j] # None /\ j \notin op'[c].left =>
          \A l \in op'[c].left : j < l
    BY <1>3, <1>4, <1>8 DEF ScanOK
  <2> QED
    BY <1>11, <2>1, <2>2, <2>3 DEF ScanOK
<1>13. \A j \in op[c].req.keys : prefix_map[j] # None /\ j \notin op[c].left =>
         j < k /\ PageBelow(c, j)' = PageBelow(c, j)
  <2> SUFFICES ASSUME NEW j \in op[c].req.keys, prefix_map[j] # None, j \notin op[c].left
               PROVE  j < k /\ PageBelow(c, j)' = PageBelow(c, j)
    OBVIOUS
  <2>1. j < k /\ j \in Keys
    BY <1>3, <1>6 DEF ScanOK, IsNext
  <2>2. \A l \in Keys : l < j => l # k
    BY <1>7, <2>1
  <2> QED
    BY <1>3, <2>1, <2>2 DEF PageBelow
<1>14. PageBelow(c, k)' = PageBelow(c, k)
  <2>1. \A l \in Keys : l < k => l # k
    BY <1>7
  <2> QED
    BY <1>3, <2>1 DEF PageBelow
<1>15. ScanReads(c)'
  <2> SUFFICES ASSUME op[c].reached
               PROVE  /\ RangeRevision(op[c]) <= Assigned
                      /\ \A j \in op[c].req.keys :
                           prefix_map[j] # None /\ j \notin op'[c].left => ReadOK(c, j)'
    BY <1>3, <1>4, <1>5 DEF ScanReads, RangeRevision
  <2>1. RangeRevision(op[c]) <= Assigned
    BY DEF ScanReads
  <2>2. ASSUME NEW j \in op[c].req.keys, prefix_map[j] # None, j \notin op'[c].left
        PROVE  ReadOK(c, j)'
    <3>1. CASE j = k
      <4>1. IsNewest(prefix_map[k], RangeRevision(op[c]), n)'
        BY <1>3, <1>4, <1>5, <1>10 DEF IsNewest, RangeRevision, Published
      <4>2. Deleted(n)' <=> Deleted(n)
        BY <1>4 DEF Deleted
      <4>3. CASE Found(c, k).live /\ ~(op[c].count < op[c].req.limit)
        BY <1>3, <1>6, <1>8, <1>9, <1>14, <3>1, <4>3 DEF ReadOK
      <4>4. CASE ~(Found(c, k).live /\ ~(op[c].count < op[c].req.limit))
        BY <1>3, <1>4, <1>10, <3>1, <4>1, <4>2, <4>4 DEF ReadOK
      <4> QED
        BY <4>3, <4>4
    <3>2. CASE j # k
      <4>1. j \notin op[c].left /\ j \in Keys
        BY <1>3, <1>6, <2>2, <3>2
      <4>2. ReadOK(c, j)
        BY <2>2, <4>1 DEF ScanReads
      <4>3. op'[c].got[j] = op[c].got[j] /\ PageBelow(c, j)' = PageBelow(c, j)
        BY <1>3, <1>13, <2>2, <3>2, <4>1
      <4> QED
        BY <1>3, <1>4, <1>5, <4>2, <4>3 DEF ReadOK, IsNewest, RangeRevision, Published, Deleted
    <3> QED
      BY <3>1, <3>2
  <2> QED
    BY <2>1, <2>2
<1> QED
  BY <1>12, <1>15

LEMMA QuietScan ==
  ASSUME BaseInv, LockInv, StoredOK, ScanInv, NEW c \in Clients, QuietStep(c), op'[c].at = "scan"
  PROVE  ScanOK(c)' /\ ScanReads(c)'
<1> USE DEF BaseInv
<1>1. ASSUME NEW req \in Requests, Begin(c, req) PROVE FALSE
  BY <1>1, BeginFacts
<1>2. CASE ReadRevision(c)
  BY <1>2, ReadRevisionFacts
<1>3. CASE SetLookup(c)
  <2>1. op'[c].at \in {"found", "done", "create"}
    BY <1>3, SetLookupFacts
  <2> QED
    BY <2>1
<1>4. CASE SetRefused(c)
  BY <1>4, SetRefusedFacts
<1>5. CASE RangeLookup(c)
  BY <1>5, LookupScan
<1>6. CASE RangeSkip(c)
  <2>1. ScanOK(c) /\ ScanReads(c)
    BY <1>6 DEF ScanInv, RangeSkip
  <2> QED
    BY <1>6, <2>1, SkipScan
<1>7. CASE RangeItem(c)
  <2>1. ScanOK(c) /\ ScanReads(c)
    BY <1>7 DEF ScanInv, RangeItem
  <2> QED
    BY <1>7, <2>1, ItemScan
<1>8. CASE RangeDone(c)
  <2>1. "ok" \in Results /\ Finish(c, "ok")
    BY <1>8 DEF RangeDone, Results
  <2> QED
    BY <2>1, FinishFacts
<1>9. CASE Return(c)
  <2>1. op'[c] = Idle
    BY <1>9, ReturnFacts DEF OpIs
  <2> QED
    BY <2>1 DEF Idle
<1> QED
  BY <1>1, <1>2, <1>3, <1>4, <1>5, <1>6, <1>7, <1>8, <1>9 DEF QuietStep

(* What any step does to the records of clients, and to a scan's map. *)
LEMMA StepFrame ==
  ASSUME BaseInv, LockInv, NEW c \in Clients,
         \/ QuietStep(c)
         \/ SetPush(c)
         \/ CreatePush(c)
         \/ SetStore(c)
         \/ CreatePrefix(c)
         \/ CreateTree(c)
         \/ CompactFacts(c)
  PROVE  /\ OpIs(c, op'[c])
         /\ op'[c].at = "scan" => QuietStep(c)
         /\ prefix_map' = prefix_map \/ \A d \in Clients : op[d].at # "scan"
<1> USE DEF BaseInv
<1>1. CASE QuietStep(c)
  BY <1>1, QuietStepFacts DEF QuietFacts, storeVars
<1>2. CASE SetPush(c)
  BY <1>2, SetPushFacts
<1>3. CASE CreatePush(c)
  BY <1>3, CreatePushFacts
<1>4. CASE SetStore(c)
  BY <1>4, SetStoreFacts
<1>5. CASE CreatePrefix(c)
  BY <1>5, CreatePrefixFacts, CreatePrefixItem
<1>6. CASE CreateTree(c)
  BY <1>6, CreateTreeFacts
<1>7. CASE CompactFacts(c)
  BY <1>7 DEF CompactFacts
<1> QED
  BY <1>1, <1>2, <1>3, <1>4, <1>5, <1>6, <1>7

LEMMA ScanStep ==
  ASSUME BaseInv, BaseInv', LockInv, StoredOK, ScanInv, [Next]_vars
  PROVE  ScanInv'
<1>1. CASE UNCHANGED vars
  <2>1. UNCHANGED <<op, prefix_map, start_offset, length, removing, log>>
    BY <1>1 DEF vars, storeVars
  <2>2. LogGrows
    <3>1. Assigned' = Assigned /\ Assigned \in Nat /\ start_offset \in Nat
      BY <2>1 DEF Assigned, BaseInv, TypeOK, CountInv
    <3> QED
      BY <2>1, <3>1 DEF LogGrows
  <2>3. ASSUME NEW c \in Clients, op[c].at = "scan" PROVE ScanOK(c)' /\ ScanReads(c)'
    BY <2>1, <2>2, <2>3, ScanKept DEF ScanInv
  <2> QED
    BY <2>1, <2>3 DEF ScanInv
<1>2. CASE Next
  <2>1. PICK c \in Clients :
           \/ QuietStep(c)
           \/ SetPush(c)
           \/ CreatePush(c)
           \/ SetStore(c)
           \/ CreatePrefix(c)
           \/ CreateTree(c)
           \/ CompactFacts(c)
    BY <1>2, NextCases
  <2>2. /\ OpIs(c, op'[c])
        /\ op'[c].at = "scan" => QuietStep(c)
        /\ prefix_map' = prefix_map \/ \A d \in Clients : op[d].at # "scan"
    BY <2>1, StepFrame
  <2>3. LogGrows
    BY <2>1, LogGrowsStep
  <2> SUFFICES ASSUME NEW d \in Clients, op'[d].at = "scan"
               PROVE  ScanOK(d)' /\ ScanReads(d)'
    BY DEF ScanInv
  <2>4. CASE d = c
    BY <2>2, <2>4, QuietScan
  <2>5. CASE d # c
    <3>1. op'[d] = op[d]
      BY <2>2, <2>5 DEF OpIs
    <3>2. op[d].at = "scan" /\ prefix_map' = prefix_map
      BY <2>2, <3>1
    <3> QED
      BY <2>3, <3>1, <3>2, ScanKept DEF ScanInv
  <2> QED
    BY <2>4, <2>5
<1> QED
  BY <1>1, <1>2

LEMMA ReadInit == Init => ReadInv
<1> SUFFICES ASSUME Init PROVE ReadInv
  OBVIOUS
<1>1. \A r \in Revs : log[r].item = 0 /\ items[r].revisions = {}
  BY DEF Init, NoItem
<1>2. \A c \in Clients : op[c].at = "idle"
  BY DEF Init, Idle
<1>3. \A i \in Revs : OfItem(i) = {}
  BY <1>1 DEF OfItem, Revs
<1> QED
  BY <1>1, <1>2, <1>3 DEF ReadInv, StoredOK, ScanInv

LEMMA ReadStep == BaseInv /\ BaseInv' /\ LockInv /\ ReadInv /\ [Next]_vars => ReadInv'
BY StoredStep, ScanStep DEF ReadInv

LEMMA ReadsCorrect == Spec => []ReadInv
BY TypeCorrect, LocksOrder, ReadInit, ReadStep, PTL DEF Spec

LEMMA ReadsFollow == BaseInv /\ ReadInv => RangeReadsItems
<1> SUFFICES ASSUME BaseInv, ReadInv, NEW c \in Clients, op[c].at = "scan", op[c].reached,
                    NEW k \in op[c].req.keys, prefix_map[k] # None, k \notin op[c].left
             PROVE  \/ op[c].got[k] = NewestOf(c, k)
                    \/ /\ op[c].got[k] = 0
                       /\ \/ Deleted(NewestOf(c, k))
                          \/ NewestOf(c, k) <= start_offset
                          \/ Cardinality({l \in Keys : l < k /\ op[c].got[l] # 0}) = op[c].req.limit
  BY DEF RangeReadsItems
<1>1. ReadOK(c, k)
  BY DEF ReadInv, ScanInv, ScanReads
<1>2. CASE op[c].got[k] = 0 /\ Cardinality(PageBelow(c, k)) = op[c].req.limit
  BY <1>2 DEF PageBelow
<1>3. CASE ~(op[c].got[k] = 0 /\ Cardinality(PageBelow(c, k)) = op[c].req.limit)
  <2>1. PICK n \in 0 .. MaxRev :
          /\ IsNewest(prefix_map[k], RangeRevision(op[c]), n)
          /\ op[c].got[k] = n \/ (op[c].got[k] = 0 /\ (Deleted(n) \/ n <= start_offset))
    BY <1>1, <1>3 DEF ReadOK
  <2>2. PICK R \in Int : R = RangeRevision(op[c])
    BY DEF RangeRevision, BaseInv, TypeOK, OpFits, Op, RangeRequests
  <2>3. PICK S : S = OfItem(prefix_map[k])
    OBVIOUS
  <2>4. /\ S \subseteq Revs
        /\ n # 0 => n \in S /\ n <= R
        /\ \A q \in S : q <= R => q <= n
    BY <2>1, <2>2, <2>3 DEF IsNewest, OfItem
  <2>5. NewestUpTo(S, R) = n
    BY <2>4, NewestIs
  <2>6. NewestOf(c, k) = n
    BY <2>2, <2>3, <2>5 DEF NewestOf
  <2> QED
    BY <2>1, <2>6
<1> QED
  BY <1>2, <1>3

(***************************************************************************)
(* Of every item it visits, a range at a revision that has been reached    *)
(* finds the newest revision up to it, or nothing where that is a deletion *)
(* or compacted or the page is full, although sets and compactions go on   *)
(* while it iterates.                                                      *)
(***************************************************************************)
THEOREM RangesRead == Spec => []RangeReadsItems
BY TypeCorrect, ReadsCorrect, ReadsFollow, PTL

-------------------------------------------------------------------------------
(***************************************************************************)
(* What the count of a range says.                                         *)
(***************************************************************************)
(* The keys that a range has passed, and what they were at its revision. *)
Passed(c) == {k \in op[c].req.keys : prefix_map[k] # None /\ k \notin op[c].left}
WasLive(c, k) ==
  \E n \in 0 .. MaxRev : IsNewest(prefix_map[k], RangeRevision(op[c]), n) /\ ~Deleted(n)
WasGone(c, k) ==
  \E n \in 0 .. MaxRev : /\ IsNewest(prefix_map[k], RangeRevision(op[c]), n)
                         /\ Deleted(n) \/ n <= start_offset

(* Up to the limit the count is that of the live keys passed; it is past   *)
(* the limit only if they are.                                             *)
Tallies(c, L) ==
  /\ L \subseteq Passed(c)
  /\ \A k \in L : WasLive(c, k)
  /\ op[c].count <= op[c].req.limit =>
       Cardinality(L) = op[c].count /\ \A k \in Passed(c) : k \in L \/ WasGone(c, k)
  /\ op[c].count > op[c].req.limit => Cardinality(L) > op[c].req.limit

TallyInv ==
  \A c \in Clients : op[c].at = "scan" /\ op[c].reached => \E L \in SUBSET Keys : Tallies(c, L)

(* What has been passed stays what it was. *)
LEMMA PassedKept ==
  ASSUME BaseInv, LogGrows, prefix_map' = prefix_map, NEW c \in Clients, op[c].at = "scan",
         op'[c].req = op[c].req, op'[c].latest_rev = op[c].latest_rev,
         RangeRevision(op[c]) <= Assigned, NEW k \in Passed(c)
  PROVE  /\ k \in Keys
         /\ WasLive(c, k) => WasLive(c, k)'
         /\ WasGone(c, k) => WasGone(c, k)'
<1> USE DEF BaseInv
<1>1. PICK R \in Int : R = RangeRevision(op[c]) /\ R = RangeRevision(op[c])'
  BY DEF RangeRevision, TypeOK, OpFits, Op, RangeRequests
<1>2. k \in Keys /\ prefix_map[k] # None
  BY DEF Passed, TypeOK, OpFits, RangeRequests
<1>3. PICK i \in Revs : i = prefix_map[k] /\ i = prefix_map'[k]
  BY <1>2 DEF TypeOK
<1>4. ASSUME NEW n \in 0 .. MaxRev, IsNewest(prefix_map[k], RangeRevision(op[c]), n)
      PROVE  /\ IsNewest(prefix_map[k], RangeRevision(op[c]), n)'
             /\ Deleted(n)' <=> Deleted(n)
             /\ n <= start_offset => n <= start_offset'
  <2>1. IsNewest(i, R, n)
    BY <1>1, <1>3, <1>4
  <2>2. IsNewest(i, R, n)' /\ (Deleted(n)' <=> Deleted(n))
    BY <1>1, <2>1, NewestKept
  <2>3. IsNewest(prefix_map[k], RangeRevision(op[c]), n)'
    BY <1>1, <1>3, <2>2 DEF IsNewest
  <2>4. n <= start_offset => n <= start_offset'
    BY StoreMaxRevAssumption DEF LogGrows, TypeOK
  <2> QED
    BY <2>2, <2>3, <2>4
<1>5. WasLive(c, k) => WasLive(c, k)'
  BY <1>4 DEF WasLive
<1>6. WasGone(c, k) => WasGone(c, k)'
  BY <1>4 DEF WasGone
<1> QED
  BY <1>2, <1>5, <1>6

LEMMA TallyKept ==
  ASSUME BaseInv, LogGrows, prefix_map' = prefix_map, NEW c \in Clients, op[c].at = "scan",
         RangeRevision(op[c]) <= Assigned, op'[c] = op[c], NEW L, Tallies(c, L)
  PROVE  Tallies(c, L)'
<1>1. Passed(c)' = Passed(c)
  BY DEF Passed
<1>2. ASSUME NEW k \in Passed(c)
      PROVE  (WasLive(c, k) => WasLive(c, k)') /\ (WasGone(c, k) => WasGone(c, k)')
  BY <1>2, PassedKept
<1> QED
  BY <1>1, <1>2 DEF Tallies

LEMMA LookupTally ==
  ASSUME BaseInv, NEW c \in Clients, RangeLookup(c)
  PROVE  Tallies(c, {})'
<1> USE DEF BaseInv
<1>1. /\ op'[c].req = op[c].req
      /\ op[c].req \in RangeRequests
      /\ op'[c].left = {k \in op[c].req.keys : prefix_map[k] # None}
      /\ op'[c].count = 0
  BY RangeLookupFacts DEF CountInv
<1>2. prefix_map' = prefix_map
  BY DEF RangeLookup, storeVars
<1>3. Passed(c)' = {}
  BY <1>1, <1>2 DEF Passed
<1>4. Cardinality({}) = 0
  BY FS_EmptySet, Zenon
<1>5. op'[c].req.limit \in Nat
  BY <1>1 DEF RangeRequests
<1> QED
  BY <1>1, <1>3, <1>4, <1>5 DEF Tallies

LEMMA SkipTally ==
  ASSUME BaseInv, NEW c \in Clients, RangeSkip(c), LogGrows, RangeRevision(op[c]) <= Assigned,
         NEW L, Tallies(c, L)
  PROVE  Tallies(c, L)'
<1> USE DEF BaseInv
<1>1. PICK k \in Keys :
        /\ IsNext(c, k)
        /\ op'[c].req = op[c].req
        /\ op'[c].latest_rev = op[c].latest_rev
        /\ op'[c].left = op[c].left \ {k}
        /\ op'[c].count = op[c].count + 1
  BY RangeSkipFacts
<1>2. op[c].at = "scan" /\ op[c].count > op[c].req.limit
  BY DEF RangeSkip, PastLimit
<1>3. op[c].count \in Nat /\ op[c].req.limit \in Nat
  BY <1>2 DEF TypeOK, Op, OpFits, RangeRequests
<1>4. prefix_map' = prefix_map
  BY DEF RangeSkip, storeVars
<1>5. Passed(c) \subseteq Passed(c)'
  BY <1>1, <1>4 DEF Passed
<1>6. \A j \in L : WasLive(c, j)'
  BY <1>1, <1>2, <1>4, PassedKept DEF Tallies
<1>7. op'[c].count > op'[c].req.limit /\ ~(op'[c].count <= op'[c].req.limit)
  BY <1>1, <1>2, <1>3
<1>8. Cardinality(L) > op'[c].req.limit
  BY <1>1, <1>2 DEF Tallies
<1>9. L \subseteq Passed(c)'
  BY <1>5 DEF Tallies
<1> QED
  BY <1>6, <1>7, <1>8, <1>9 DEF Tallies

LEMMA ItemTally ==
  ASSUME BaseInv, LockInv, StoredOK, NEW c \in Clients, RangeItem(c), ScanOK(c), op'[c].at = "scan",
         LogGrows, RangeRevision(op[c]) <= Assigned, NEW L, Tallies(c, L)
  PROVE  \E M \in SUBSET Keys : Tallies(c, M)'
<1> USE DEF BaseInv, LockInv
<1>1. op[c].at = "scan" /\ ~(op[c].count > op[c].req.limit)
  BY DEF RangeItem, PastLimit
<1>2. \A k \in Keys : IsNext(c, k) => Found(c, k).mod_revision \in Nat
  BY <1>1, FoundType DEF Value
<1>3. PICK k \in Keys :
        /\ IsNext(c, k)
        /\ items[prefix_map[k]].writer = None
        /\ op'[c].req = op[c].req
        /\ op'[c].latest_rev = op[c].latest_rev
        /\ op'[c].left = op[c].left \ {k}
        /\ op'[c].count = IF Found(c, k).live THEN op[c].count + 1 ELSE op[c].count
  BY <1>2, RangeItemFacts
<1>4. UNCHANGED <<prefix_map, start_offset, log>>
  BY DEF RangeItem, storeVars
<1>5. op[c].count \in Nat /\ op[c].req.limit \in Nat /\ op[c].req.keys \subseteq Keys
  BY <1>1 DEF TypeOK, Op, OpFits, RangeRequests
<1>6. op[c].count <= op[c].req.limit /\ Cardinality(L) = op[c].count
      /\ \A j \in Passed(c) : j \in L \/ WasGone(c, j)
  BY <1>1, <1>5 DEF Tallies
<1>7. k \notin Passed(c) /\ L \subseteq Passed(c) /\ Passed(c) \subseteq Keys
  BY <1>3, <1>5 DEF IsNext, Passed, Tallies
<1>8. Passed(c)' \subseteq Passed(c) \union {k} /\ Passed(c) \subseteq Passed(c)'
  BY <1>3, <1>4 DEF Passed
<1>9. ASSUME NEW j \in Passed(c)
      PROVE  (WasLive(c, j) => WasLive(c, j)') /\ (WasGone(c, j) => WasGone(c, j)')
  BY <1>1, <1>3, <1>4, <1>9, PassedKept
<1>10. PICK n \in 0 .. MaxRev :
         /\ IsNewest(prefix_map[k], RangeRevision(op[c]), n)
         /\ Found(c, k).live => ~Deleted(n)
         /\ ~Found(c, k).live => Deleted(n) \/ n <= start_offset
  <2>1. prefix_map[k] \in Revs
    BY <1>1, <1>3, FoundType
  <2>2. Known(prefix_map[k])
    BY <2>1, StoreClientsAssumption DEF MapsOK, Revs
  <2>3. RangeRevision(op[c]) \in Int
    BY <1>1 DEF RangeRevision, TypeOK, OpFits, Op, RangeRequests
  <2> QED
    BY <1>3, <2>1, <2>2, <2>3, FindsNewest DEF Found
<1>11. IsNewest(prefix_map[k], RangeRevision(op[c]), n)' /\ (Deleted(n)' <=> Deleted(n))
  BY <1>3, <1>4, <1>10 DEF IsNewest, RangeRevision, Published, Deleted
<1>12. IsFiniteSet(L)
  BY <1>7, StoreKeysAssumption, FS_Subset
<1>13. CASE Found(c, k).live
  <2>1. WasLive(c, k)'
    BY <1>10, <1>11, <1>13 DEF WasLive
  <2>2. Cardinality(L \union {k}) = op[c].count + 1
    BY <1>6, <1>7, <1>12, FS_AddElement
  <2>3. k \in Passed(c)'
    <3>1. k \in op[c].req.keys /\ k \in op[c].left /\ prefix_map[k] # None
      BY <1>1, <1>3 DEF IsNext, LeftInv, ScanOK
    <3> QED
      BY <1>3, <1>4, <3>1 DEF Passed
  <2>4. L \union {k} \subseteq Passed(c)' /\ \A j \in L \union {k} : WasLive(c, j)'
    BY <1>7, <1>8, <1>9, <2>1, <2>3 DEF Tallies
  <2>5. \A j \in Passed(c)' : j \in L \union {k} \/ WasGone(c, j)'
    BY <1>6, <1>8, <1>9
  <2>6. op'[c].count = op[c].count + 1 /\ op'[c].req = op[c].req
    BY <1>3, <1>13
  <2>7. op'[c].count > op'[c].req.limit => Cardinality(L \union {k}) > op'[c].req.limit
    BY <2>2, <2>6
  <2>8. Tallies(c, L \union {k})' /\ L \union {k} \in SUBSET Keys
    BY <1>7, <2>2, <2>4, <2>5, <2>6, <2>7 DEF Tallies
  <2> QED
    BY <2>8
<1>14. CASE ~Found(c, k).live
  <2>1. WasGone(c, k)'
    BY <1>4, <1>10, <1>11, <1>14 DEF WasGone
  <2>2. L \subseteq Passed(c)' /\ \A j \in L : WasLive(c, j)'
    BY <1>7, <1>8, <1>9 DEF Tallies
  <2>3. \A j \in Passed(c)' : j \in L \/ WasGone(c, j)'
    BY <1>6, <1>8, <1>9, <2>1
  <2>4. op'[c].count = op[c].count /\ op'[c].req = op[c].req
    BY <1>3, <1>14
  <2>5. Tallies(c, L)' /\ L \in SUBSET Keys
    BY <1>5, <1>6, <1>7, <2>2, <2>3, <2>4 DEF Tallies
  <2> QED
    BY <2>5
<1> QED
  BY <1>13, <1>14

LEMMA QuietTally ==
  ASSUME BaseInv, LockInv, ReadInv, TallyInv, LogGrows, NEW c \in Clients, QuietStep(c),
         op'[c].at = "scan", op'[c].reached
  PROVE  \E L \in SUBSET Keys : Tallies(c, L)'
<1> USE DEF BaseInv
<1>1. ASSUME NEW req \in Requests, Begin(c, req) PROVE FALSE
  BY <1>1, BeginFacts
<1>2. CASE ReadRevision(c)
  BY <1>2, ReadRevisionFacts
<1>3. CASE SetLookup(c)
  <2>1. op'[c].at \in {"found", "done", "create"}
    BY <1>3, SetLookupFacts
  <2> QED
    BY <2>1
<1>4. CASE SetRefused(c)
  BY <1>4, SetRefusedFacts
<1>5. CASE RangeLookup(c)
  BY <1>5, LookupTally
<1>6. ASSUME op[c].at = "scan", op[c].reached
      PROVE  /\ ScanOK(c) /\ RangeRevision(op[c]) <= Assigned
             /\ \E L \in SUBSET Keys : Tallies(c, L)
  BY <1>6 DEF TallyInv, ReadInv, ScanInv, ScanReads
<1>7. CASE RangeSkip(c)
  <2>1. op[c].at = "scan" /\ op[c].reached
    BY <1>7, RangeSkipFacts DEF RangeSkip
  <2> QED
    BY <1>6, <1>7, <2>1, SkipTally
<1>8. CASE RangeItem(c)
  <2>1. op[c].at = "scan"
    BY <1>8 DEF RangeItem
  <2>2. \A k \in Keys : IsNext(c, k) => Found(c, k).mod_revision \in Nat
    BY <2>1, FoundType DEF Value
  <2>3. op[c].reached
    BY <1>8, <2>2, RangeItemFacts
  <2> QED
    BY <1>6, <1>8, <2>1, <2>3, ItemTally DEF ReadInv
<1>9. CASE RangeDone(c)
  <2>1. "ok" \in Results /\ Finish(c, "ok")
    BY <1>9 DEF RangeDone, Results
  <2> QED
    BY <2>1, FinishFacts
<1>10. CASE Return(c)
  <2>1. op'[c] = Idle
    BY <1>10, ReturnFacts DEF OpIs
  <2> QED
    BY <2>1 DEF Idle
<1> QED
  BY <1>1, <1>2, <1>3, <1>4, <1>5, <1>7, <1>8, <1>9, <1>10 DEF QuietStep

(* A step that changes nothing is a step of the log too. *)
LEMMA StutterGrows ==
  ASSUME BaseInv, UNCHANGED vars
  PROVE  LogGrows
<1>1. UNCHANGED <<start_offset, length, removing, log>>
  BY DEF vars, storeVars
<1>2. Assigned' = Assigned /\ Assigned \in Nat /\ start_offset \in Nat
  BY <1>1 DEF Assigned, BaseInv, TypeOK, CountInv
<1> QED
  BY <1>1, <1>2 DEF LogGrows

LEMMA TallyStep == BaseInv /\ BaseInv' /\ LockInv /\ ReadInv /\ TallyInv /\ [Next]_vars => TallyInv'
<1> SUFFICES ASSUME BaseInv, BaseInv', LockInv, ReadInv, TallyInv, [Next]_vars,
                    NEW d \in Clients, op'[d].at = "scan", op'[d].reached
             PROVE  \E L \in SUBSET Keys : Tallies(d, L)'
  BY DEF TallyInv
<1>1. ASSUME op'[d] = op[d], prefix_map' = prefix_map, LogGrows
      PROVE  \E L \in SUBSET Keys : Tallies(d, L)'
  <2>1. op[d].at = "scan" /\ op[d].reached
    BY <1>1
  <2>2. PICK L \in SUBSET Keys : Tallies(d, L)
    BY <2>1 DEF TallyInv
  <2>3. RangeRevision(op[d]) <= Assigned
    BY <2>1 DEF ReadInv, ScanInv, ScanReads
  <2>4. Tallies(d, L)'
    BY <1>1, <2>1, <2>2, <2>3, TallyKept
  <2> QED
    BY <2>4
<1>2. CASE UNCHANGED vars
  <2>1. op' = op /\ prefix_map' = prefix_map
    BY <1>2 DEF vars, storeVars
  <2> QED
    BY <1>1, <1>2, <2>1, StutterGrows
<1>3. CASE Next
  <2>1. PICK c \in Clients :
           \/ QuietStep(c)
           \/ SetPush(c)
           \/ CreatePush(c)
           \/ SetStore(c)
           \/ CreatePrefix(c)
           \/ CreateTree(c)
           \/ CompactFacts(c)
    BY <1>3, NextCases
  <2>2. /\ OpIs(c, op'[c])
        /\ op'[c].at = "scan" => QuietStep(c)
        /\ prefix_map' = prefix_map \/ \A e \in Clients : op[e].at # "scan"
    BY <2>1, StepFrame
  <2>3. LogGrows
    BY <2>1, LogGrowsStep
  <2>4. CASE d = c
    BY <2>2, <2>3, <2>4, QuietTally
  <2>5. CASE d # c
    <3>1. op'[d] = op[d]
      BY <2>2, <2>5 DEF OpIs
    <3>2. prefix_map' = prefix_map
      BY <2>2, <3>1
    <3> QED
      BY <1>1, <2>3, <3>1, <3>2
  <2> QED
    BY <2>4, <2>5
<1> QED
  BY <1>2, <1>3

LEMMA TallyInit == Init => TallyInv
<1> SUFFICES ASSUME Init PROVE TallyInv
  OBVIOUS
<1>1. \A c \in Clients : op[c].at = "idle"
  BY DEF Init, Idle
<1> QED
  BY <1>1 DEF TallyInv

LEMMA TalliesCorrect == Spec => []TallyInv
BY TypeCorrect, LocksOrder, ReadsCorrect, TallyInit, TallyStep, PTL DEF Spec

===============================================================================
