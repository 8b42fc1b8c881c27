----------------------------- MODULE KvServiceProof -----------------------------
(***************************************************************************)
(* Proofs about KvService: whatever calls clients make, the store only     *)
(* sees requests of the kind that Store speaks of, a transaction answers   *)
(* for its compare, a list says whether there is more, and every answer    *)
(* sees what was answered before its call began.                           *)
(***************************************************************************)
EXTENDS KvService, StoreProof

(* The request that a call becomes is one of Store's requests. *)
LEMMA ServedIsRequest ==
  ASSUME NEW rpc \in DOMAIN Served
  PROVE  Served[rpc] \in Requests
BY RequestsAssumption

(* A call that is served begins one of Store's requests. *)
LEMMA ServeBegins ==
  ASSUME NEW c \in Clients, NEW rpc \in Calls, Serve(c, rpc)
  PROVE  Next
<1>1. rpc \in DOMAIN Served /\ Begin(c, Served[rpc])
  BY DEF Serve
<1>2. Served[rpc] \in Requests
  BY <1>1, ServedIsRequest
<1> QED
  BY <1>1, <1>2 DEF Next

(* Every step of the services is a step of the store, or leaves it alone. *)
LEMMA KvStepIsStoreStep == [KvNext]_kvVars => [Next]_vars
<1> SUFFICES ASSUME [KvNext]_kvVars
             PROVE  [Next]_vars
  OBVIOUS
<1>1. CASE UNCHANGED kvVars
  BY <1>1 DEF kvVars
<1>2. CASE KvNext
  <2>1. PICK c \in Clients :
          \/ StoreStep(c)
          \/ \E rpc \in Calls : Serve(c, rpc) \/ Refuse(c, rpc)
    BY <1>2 DEF KvNext
  <2>2. CASE StoreStep(c)
    BY <2>2 DEF Next
  <2>3. CASE \E rpc \in Calls : Serve(c, rpc)
    BY <2>3, ServeBegins
  <2>4. CASE \E rpc \in Calls : Refuse(c, rpc)
    BY <2>4 DEF Refuse
  <2> QED
    BY <2>1, <2>2, <2>3, <2>4
<1> QED
  BY <1>1, <1>2

(***************************************************************************)
(* The store below kv_service.rs and maintenance_service.rs behaves as     *)
(* Store says, with the calls that pass their checks, translated, for its  *)
(* requests: what holds of Store for every set of requests holds of the    *)
(* server for every set of calls.                                          *)
(***************************************************************************)
THEOREM KvImplementsStore == KvSpec => Spec
<1>1. KvInit => Init
  BY DEF KvInit
<1> QED
  BY <1>1, KvStepIsStoreStep, PTL DEF KvSpec, Spec

(***************************************************************************)
(* The server's store does what StoreProof says of Store.                  *)
(***************************************************************************)
LEMMA KvStoreInv == KvSpec => [](BaseInv /\ LockInv /\ ValueInv /\ ReadInv)
BY KvImplementsStore, TypeCorrect, LocksOrder, ValuesCorrect, ReadsCorrect, PTL

(***************************************************************************)
(* Under any calls: compare-and-set is atomic per item, versions count the *)
(* revisions of a life, and a range reads every item at its revision.      *)
(***************************************************************************)
THEOREM ServerStoreIsSafe == KvSpec => [](CompareIsAtomic /\ VersionsCount /\ RangeReadsItems)
BY KvImplementsStore, CompareAndSet, VersionsAreCounts, RangesRead, PTL

-------------------------------------------------------------------------------
(***************************************************************************)
(* What a set answers.                                                     *)
(***************************************************************************)
(* The revision of c's set carries what the set required. *)
Carries(c) ==
  /\ op[c].rev \in Revs /\ op[c].rev <= Assigned
  /\ log[op[c].rev].item # 0
  /\ log[op[c].rev].last = op[c].req.last
  /\ log[op[c].rev].version = op[c].req.version

SetWon(c) == Carries(c) /\ Published(op[c].rev)

(* What c's set failed on: there was no value, or the one at its revision. *)
SetLost(c) ==
  \/ op[c].rev = 0 /\ NeedsItem(op[c].req)
  \/ /\ op[c].rev \in Revs /\ op[c].rev <= Assigned
     /\ log[op[c].rev].item # 0 /\ Published(op[c].rev) /\ log[op[c].rev].value.live
     /\ \/ Mismatch(op[c].req.last, op[c].rev)
        \/ Mismatch(op[c].req.version, log[op[c].rev].value.version)

SetAnswer(c) ==
  /\ op[c].at \in {"pushed", "created"} => Carries(c)
  /\ op[c].at = "prefixed" => SetWon(c)
  /\ op[c].at = "done" /\ op[c].req.kind = "set" =>
       (op[c].result = "ok" /\ SetWon(c)) \/ (op[c].result = "err" /\ SetLost(c))

AnswerInv == \A c \in Clients : SetAnswer(c)

(* What an answer speaks of stays in the log. *)
LEMMA AnswerKept ==
  ASSUME BaseInv, LogGrows, NEW c \in Clients, op'[c] = op[c], SetAnswer(c)
  PROVE  SetAnswer(c)'
<1> USE DEF BaseInv
<1>1. \A r \in Revs : r <= Assigned => r <= Assigned'
  BY DEF LogGrows, CountInv, Revs
<1>2. Carries(c) => Carries(c)'
  BY <1>1 DEF Carries, LogGrows
<1>3. SetWon(c) => SetWon(c)'
  BY <1>2 DEF SetWon, Carries, LogGrows, Published
<1>4. SetLost(c) => SetLost(c)'
  BY <1>1 DEF SetLost, LogGrows, Published
<1> QED
  BY <1>2, <1>3, <1>4 DEF SetAnswer

LEMMA QuietAnswer ==
  ASSUME BaseInv, LockInv, AnswerInv, NEW c \in Clients, QuietStep(c)
  PROVE  SetAnswer(c)'
<1> USE DEF BaseInv, LockInv
<1>1. /\ op'[c].at \in {"begun", "found", "create", "scan", "done", "idle"}
      /\ UNCHANGED storeVars
  BY QuietStepFacts DEF QuietFacts
<1>2. UNCHANGED <<items, start_offset, length, removing, log>>
  BY <1>1 DEF storeVars
<1>3. Assigned' = Assigned
  BY <1>2 DEF Assigned
<1>4. ASSUME op'[c].at # "done" PROVE SetAnswer(c)'
  BY <1>1, <1>4 DEF SetAnswer
<1>5. ASSUME op'[c].req.kind # "set" PROVE SetAnswer(c)'
  BY <1>1, <1>5 DEF SetAnswer
<1>6. ASSUME NEW req \in Requests, Begin(c, req) PROVE op'[c].at # "done"
  BY <1>6, BeginFacts
<1>7. CASE ReadRevision(c)
  <2>1. op'[c].req = op[c].req /\ op[c].req.kind = "revision"
    BY <1>7, ReadRevisionFacts DEF ReadRevision
  <2> QED
    BY <1>5, <2>1
<1>8. CASE SetLookup(c)
  <2>1. /\ op'[c].req = op[c].req
        /\ op'[c].at = IF tree_map[op[c].req.key] # None THEN "found"
                       ELSE IF NeedsItem(op[c].req) THEN "done" ELSE "create"
        /\ op'[c].at = "done" => op'[c].result = "err"
        /\ op'[c].rev = 0
    BY <1>8, SetLookupFacts
  <2>2. CASE op'[c].at = "done"
    <3>1. NeedsItem(op'[c].req)
      BY <2>1, <2>2
    <3>2. SetLost(c)'
      BY <2>1, <3>1 DEF SetLost, NeedsItem
    <3> QED
      BY <2>1, <2>2, <3>2 DEF SetAnswer
  <2> QED
    BY <1>4, <2>2
<1>9. CASE SetRefused(c)
  <2>1. op[c].at = "found" /\ op[c].item \in Revs /\ op[c].req \in SetRequests
    BY <1>9 DEF SetRefused, TypeOK, OpFits
  <2>2. PICK i \in Revs : i = op[c].item
    BY <2>1
  <2>3. PICK v \in Value : v = items[i].latest_value
    BY DEF TypeOK, Item
  <2>4. /\ op'[c].at = "done" /\ op'[c].req = op[c].req /\ op'[c].result = "err"
        /\ op'[c].rev = IF v.live THEN v.mod_revision ELSE 0
    BY <1>9, <2>2, <2>3, SetRefusedFacts
  <2>5. Refused(op[c].req, v)
    BY <1>9, <2>2, <2>3 DEF SetRefused
  <2>6. SetLost(c)'
    <3>1. CASE v.live
      <4>1. Known(i)
        BY <2>1, <2>2 DEF FlightOK
      <4>2. PICK m \in Revs : /\ m = v.mod_revision /\ log[m].item = i /\ m <= Assigned
                              /\ Published(m) /\ log[m].value = v
        BY <2>3, <4>1, KnownFacts
      <4>3. op'[c].rev = m /\ i # 0
        BY <2>4, <3>1, <4>2 DEF Revs
      <4>4. Mismatch(op[c].req.last, m) \/ Mismatch(op[c].req.version, v.version)
        BY <2>5, <3>1, <4>2 DEF Refused
      <4> QED
        BY <1>2, <1>3, <2>4, <3>1, <4>2, <4>3, <4>4 DEF SetLost, Published, Mismatch
    <3>2. CASE ~v.live
      <4>1. op'[c].rev = 0 /\ NeedsItem(op'[c].req)
        BY <2>4, <2>5, <3>2 DEF Refused
      <4> QED
        BY <4>1 DEF SetLost, NeedsItem
    <3> QED
      BY <3>1, <3>2
  <2> QED
    BY <2>4, <2>6 DEF SetAnswer
<1>10. ASSUME op[c].req \in RangeRequests, op'[c].req = op[c].req PROVE SetAnswer(c)'
  <2>1. op'[c].req.kind = "range"
    BY <1>10 DEF RangeRequests
  <2> QED
    BY <1>5, <2>1
<1>11. CASE RangeLookup(c)
  BY <1>10, <1>11, RangeLookupFacts DEF CountInv
<1>12. op[c].at = "scan" => op[c].req \in RangeRequests
  BY DEF TypeOK, OpFits
<1>13. CASE RangeSkip(c)
  <2>1. op[c].at = "scan" /\ op'[c].req = op[c].req
    BY <1>13, RangeSkipFacts DEF RangeSkip
  <2> QED
    BY <1>10, <1>12, <2>1
<1>14. CASE RangeItem(c)
  <2>1. op[c].at = "scan"
    BY <1>14 DEF RangeItem
  <2>2. \A k \in Keys : IsNext(c, k) => Found(c, k).mod_revision \in Nat
    BY <2>1, FoundType DEF Value
  <2>3. op'[c].req = op[c].req
    BY <1>14, <2>2, RangeItemFacts
  <2> QED
    BY <1>10, <1>12, <2>1, <2>3
<1>15. CASE RangeDone(c)
  <2>1. "ok" \in Results /\ Finish(c, "ok") /\ op[c].at = "scan"
    BY <1>15 DEF RangeDone, Results
  <2>2. op'[c].req = op[c].req
    BY <2>1, FinishFacts
  <2> QED
    BY <1>10, <1>12, <2>1, <2>2
<1>16. CASE Return(c)
  <2>1. op'[c].at = "idle"
    BY <1>16, ReturnFacts DEF OpIs, Idle
  <2> QED
    BY <1>4, <2>1
<1> QED
  BY <1>4, <1>6, <1>7, <1>8, <1>9, <1>11, <1>13, <1>14, <1>15, <1>16 DEF QuietStep

LEMMA OwnAnswer ==
  ASSUME BaseInv, LockInv, AnswerInv, NEW c \in Clients,
         \/ QuietStep(c)
         \/ SetPush(c)
         \/ CreatePush(c)
         \/ SetStore(c)
         \/ CreatePrefix(c)
         \/ CreateTree(c)
         \/ CompactFacts(c)
  PROVE  SetAnswer(c)'
<1> USE DEF BaseInv, LockInv
<1>1. CASE QuietStep(c)
  BY <1>1, QuietAnswer
<1>2. CASE SetPush(c) \/ CreatePush(c)
  <2>1. PICK i : /\ Pushed(c, i) /\ i # 0
                 /\ op'[c].at \in {"pushed", "created"} /\ op'[c].req = op[c].req
                 /\ op'[c].rev = Assigned + 1
    <3>1. CASE SetPush(c)
      BY <3>1, SetPushFacts DEF Revs
    <3>2. CASE CreatePush(c)
      BY <3>2, CreatePushFacts DEF CountInv
    <3> QED
      BY <1>2, <3>1, <3>2
  <2>2. PICK n \in Revs : n = Assigned + 1
    BY <2>1 DEF Pushed
  <2>3. /\ Assigned' = n /\ log'[n].item = i
        /\ log'[n].last = op'[c].req.last /\ log'[n].version = op'[c].req.version
    BY <2>1, <2>2 DEF Pushed
  <2>4. Carries(c)'
    BY <2>1, <2>2, <2>3 DEF Carries, Revs
  <2> QED
    BY <2>1, <2>4 DEF SetAnswer
<1>3. ASSUME NEW i \in Revs, NEW rev \in Revs, NEW v, Settles(c, i, rev, v),
             op'[c].req = op[c].req, op'[c].at = "done" => op'[c].result = "ok"
      PROVE  SetAnswer(c)'
  <2>1. /\ op[c].rev = rev /\ op'[c].rev = rev /\ op[c].at \in {"pushed", "created"}
        /\ op'[c].at \in {"done", "prefixed"}
        /\ log'[rev].item = log[rev].item /\ log'[rev].value = v /\ v.mod_revision = rev
        /\ log'[rev].last = log[rev].last /\ log'[rev].version = log[rev].version
        /\ UNCHANGED <<start_offset, length, removing>>
    BY <1>3 DEF Settles, ValueSet, InFlight
  <2>2. Assigned' = Assigned
    BY <2>1 DEF Assigned
  <2>3. Carries(c)
    BY <2>1 DEF AnswerInv, SetAnswer
  <2>4. SetWon(c)'
    BY <1>3, <2>1, <2>2, <2>3 DEF SetWon, Carries, Published
  <2> QED
    BY <1>3, <2>1, <2>4 DEF SetAnswer
<1>4. CASE SetStore(c)
  <2>1. /\ op[c].item \in Revs /\ op[c].rev \in Revs
        /\ op'[c].req = op[c].req /\ op'[c].result = "ok"
    BY <1>4, SetStoreFacts
  <2> QED
    BY <1>3, <1>4, <2>1, SetStoreSettles
<1>5. CASE CreatePrefix(c)
  <2>1. op[c].rev \in Revs /\ op'[c].req = op[c].req /\ op'[c].at = "prefixed"
    BY <1>5, CreatePrefixItem, CreatePrefixFacts
  <2> QED
    BY <1>3, <1>5, <2>1, CreatePrefixSettles
<1>6. CASE CreateTree(c)
  <2>1. /\ op[c].at = "prefixed" /\ op'[c].at = "done" /\ op'[c].req = op[c].req
        /\ op'[c].rev = op[c].rev /\ op'[c].result = "ok"
        /\ UNCHANGED <<start_offset, length, removing, log>>
    BY <1>6, CreateTreeFacts
  <2>2. Assigned' = Assigned
    BY <2>1 DEF Assigned
  <2>3. SetWon(c)
    BY <2>1 DEF AnswerInv, SetAnswer
  <2>4. SetWon(c)'
    BY <2>1, <2>2, <2>3 DEF SetWon, Carries, Published
  <2> QED
    BY <2>1, <2>4 DEF SetAnswer
<1>7. CASE CompactFacts(c)
  <2>1. op'[c].at \in {"compacting", "done"} /\ op'[c].req.kind = "compact"
    BY <1>7 DEF CompactFacts, CompactRequests
  <2> QED
    BY <2>1 DEF SetAnswer
<1> QED
  BY <1>1, <1>2, <1>4, <1>5, <1>6, <1>7

LEMMA AnswerInit == Init => AnswerInv
<1> SUFFICES ASSUME Init, NEW c \in Clients PROVE SetAnswer(c)
  BY DEF AnswerInv
<1>1. op[c].at = "idle"
  BY DEF Init, Idle
<1> QED
  BY <1>1 DEF SetAnswer

LEMMA AnswerStep == BaseInv /\ BaseInv' /\ LockInv /\ AnswerInv /\ [Next]_vars => AnswerInv'
<1> SUFFICES ASSUME BaseInv, BaseInv', LockInv, AnswerInv, [Next]_vars, NEW d \in Clients
             PROVE  SetAnswer(d)'
  BY DEF AnswerInv
<1>1. SetAnswer(d)
  BY DEF AnswerInv
<1>2. CASE UNCHANGED vars
  <2>1. op'[d] = op[d]
    BY <1>2 DEF vars
  <2> QED
    BY <1>1, <1>2, <2>1, StutterGrows, AnswerKept
<1>3. CASE Next
  <2>1. PICK c \in Clients :
           \/ QuietStep(c)
           \/ SetPush(c)
           \/ CreatePush(c)
           \/ SetStore(c)
           \/ CreatePrefix(c)
           \/ CreateTree(c)
           \/ CompactFacts(c)
    BY <1>3, NextCases
  <2>2. CASE d = c
    BY <2>1, <2>2, OwnAnswer
  <2>3. CASE d # c
    <3>1. op'[d] = op[d]
      BY <2>1, <2>3, StepFrame DEF OpIs
    <3>2. LogGrows
      BY <2>1, LogGrowsStep
    <3> QED
      BY <1>1, <3>1, <3>2, AnswerKept
  <2> QED
    BY <2>2, <2>3
<1> QED
  BY <1>2, <1>3

LEMMA AnswersCorrect == Spec => []AnswerInv
BY TypeCorrect, LocksOrder, AnswerInit, AnswerStep, PTL DEF Spec

-------------------------------------------------------------------------------
(***************************************************************************)
(* Which call a request came from.                                         *)
(***************************************************************************)
CallFits(c) == op[c].at # "idle" => call[c] \in DOMAIN Served /\ op[c].req = Served[call[c]]

CallInv == call \in [Clients -> Calls \union {NoCall}] /\ \A c \in Clients : CallFits(c)

(* A request keeps its arguments until it is answered. *)
LEMMA RequestKept ==
  ASSUME BaseInv, NEW c \in Clients, StoreStep(c)
  PROVE  /\ OpIs(c, op'[c])
         /\ op'[c].at # "idle" => op[c].at # "idle" /\ op'[c].req = op[c].req
<1> USE DEF BaseInv
<1>1. CASE ReadRevision(c)
  <2>1. op[c].at = "begun"
    BY <1>1 DEF ReadRevision
  <2> QED
    BY <1>1, <2>1, ReadRevisionFacts
<1>2. CASE SetLookup(c)
  <2>1. op[c].at = "begun"
    BY <1>2 DEF SetLookup
  <2> QED
    BY <1>2, <2>1, SetLookupFacts
<1>3. CASE SetRefused(c)
  <2>1. op[c].at = "found"
    BY <1>3 DEF SetRefused
  <2> QED
    BY <1>3, <2>1, SetRefusedFacts
<1>4. CASE SetPush(c)
  BY <1>4, SetPushFacts
<1>5. CASE SetStore(c)
  BY <1>5, SetStoreFacts
<1>6. CASE CreatePush(c)
  BY <1>6, CreatePushFacts
<1>7. CASE CreatePrefix(c)
  <2>1. op[c].at = "created"
    BY <1>7 DEF CreatePrefix
  <2> QED
    BY <1>7, <2>1, CreatePrefixFacts
<1>8. CASE CreateTree(c)
  BY <1>8, CreateTreeFacts
<1>9. CASE RangeLookup(c)
  <2>1. op[c].at = "begun" /\ Assigned \in Nat
    BY <1>9 DEF RangeLookup, CountInv
  <2> QED
    BY <1>9, <2>1, RangeLookupFacts
<1>10. CASE RangeSkip(c)
  <2>1. op[c].at = "scan"
    BY <1>10 DEF RangeSkip
  <2> QED
    BY <1>10, <2>1, RangeSkipFacts
<1>11. CASE RangeItem(c)
  <2>1. op[c].at = "scan"
    BY <1>11 DEF RangeItem
  <2>2. \A k \in Keys : IsNext(c, k) => Found(c, k).mod_revision \in Nat
    BY <2>1, FoundType DEF Value
  <2> QED
    BY <1>11, <2>1, <2>2, RangeItemFacts
<1>12. CASE RangeDone(c)
  <2>1. "ok" \in Results /\ Finish(c, "ok") /\ op[c].at = "scan"
    BY <1>12 DEF RangeDone, Results
  <2> QED
    BY <2>1, FinishFacts
<1>13. CASE CompactStart(c) \/ CompactFinish(c)
  <2>1. op[c].at \in {"begun", "compacting"}
    BY <1>13 DEF CompactStart, CompactFinish
  <2> QED
    BY <1>13, <2>1, CompactStepFacts DEF CompactFacts
<1>14. CASE Return(c)
  <2>1. OpIs(c, Idle) /\ op'[c] = Idle
    BY <1>14, ReturnFacts DEF OpIs
  <2> QED
    BY <2>1 DEF Idle
<1> QED
  BY <1>1, <1>2, <1>3, <1>4, <1>5, <1>6, <1>7, <1>8, <1>9, <1>10, <1>11, <1>12, <1>13, <1>14
     DEF StoreStep

LEMMA CallInit == KvInit => CallInv
<1> SUFFICES ASSUME KvInit PROVE CallInv
  OBVIOUS
<1>1. \A c \in Clients : op[c].at = "idle"
  BY DEF KvInit, Init, Idle
<1>2. call \in [Clients -> Calls \union {NoCall}]
  BY DEF KvInit
<1> QED
  BY <1>1, <1>2 DEF CallInv, CallFits

LEMMA CallStep == BaseInv /\ CallInv /\ [KvNext]_kvVars => CallInv'
<1> SUFFICES ASSUME BaseInv, CallInv, [KvNext]_kvVars PROVE CallInv'
  OBVIOUS
<1> USE DEF BaseInv
<1>1. CASE UNCHANGED kvVars
  <2>1. call' = call /\ op' = op
    BY <1>1 DEF kvVars, vars
  <2> QED
    BY <2>1 DEF CallInv, CallFits
<1>2. ASSUME NEW c \in Clients, NEW r \in Calls \union {NoCall}, call' = [call EXCEPT ![c] = r]
      PROVE  /\ call' \in [Clients -> Calls \union {NoCall}]
             /\ call'[c] = r
             /\ \A d \in Clients : d # c => call'[d] = call[d]
  BY <1>2 DEF CallInv
<1>3. ASSUME NEW c \in Clients, StoreStep(c),
             call' = [call EXCEPT ![c] = IF op'[c] = Idle THEN NoCall ELSE @]
      PROVE  CallInv'
  <2>1. PICK r \in Calls \union {NoCall} : r = IF op'[c] = Idle THEN NoCall ELSE call[c]
    BY DEF CallInv
  <2>2. call' = [call EXCEPT ![c] = r]
    BY <1>3, <2>1 DEF CallInv
  <2>3. /\ call' \in [Clients -> Calls \union {NoCall}]
        /\ call'[c] = r
        /\ \A d \in Clients : d # c => call'[d] = call[d]
    BY <1>2, <2>2
  <2>4. /\ \A d \in Clients : d # c => op'[d] = op[d]
        /\ op'[c].at # "idle" => op[c].at # "idle" /\ op'[c].req = op[c].req
    BY <1>3, RequestKept DEF OpIs
  <2>5. op'[c].at # "idle" => r = call[c]
    BY <2>1 DEF Idle
  <2> QED
    BY <2>3, <2>4, <2>5 DEF CallInv, CallFits
<1>4. ASSUME NEW c \in Clients, NEW rpc \in Calls, Serve(c, rpc)
      PROVE  CallInv'
  <2>1. rpc \in DOMAIN Served /\ Served[rpc] \in Requests /\ Begin(c, Served[rpc])
    BY <1>4, ServedIsRequest DEF Serve
  <2>2. /\ \A d \in Clients : d # c => op'[d] = op[d]
        /\ op'[c].req = Served[rpc]
    BY <2>1, BeginFacts DEF OpIs
  <2>3. /\ call' \in [Clients -> Calls \union {NoCall}]
        /\ call'[c] = rpc
        /\ \A d \in Clients : d # c => call'[d] = call[d]
    BY <1>2, <1>4 DEF Serve
  <2> QED
    BY <2>1, <2>2, <2>3 DEF CallInv, CallFits
<1>5. ASSUME NEW c \in Clients, op[c].at = "idle", NEW rpc \in Calls, Refuse(c, rpc)
      PROVE  CallInv'
  <2>1. op' = op /\ op[c].at = "idle"
    BY <1>5 DEF Refuse, vars
  <2>2. /\ call' \in [Clients -> Calls \union {NoCall}]
        /\ \A d \in Clients : d # c => call'[d] = call[d]
    BY <1>2, <1>5 DEF Refuse
  <2> QED
    BY <2>1, <2>2 DEF CallInv, CallFits
<1> QED
  BY <1>1, <1>3, <1>4, <1>5 DEF KvNext

LEMMA CallsCorrect == KvSpec => []CallInv
<1>1. KvSpec => []BaseInv
  BY KvImplementsStore, TypeCorrect, PTL
<1> QED
  BY <1>1, CallInit, CallStep, PTL DEF KvSpec

(* What a transaction is for the store. *)
LEMMA TxnRequest ==
  ASSUME NEW rpc \in DOMAIN Served, rpc.method = "txn"
  PROVE  LET req == Served[rpc]
             cmp == rpc.compare[1]
         IN  /\ req \in SetRequests
             /\ req.kind = "set"
             /\ req.del <=> rpc.success[1].kind = "delete_range"
             /\ cmp.target \in {"mod", "version"}
             /\ cmp.target = "mod" => req.last = cmp.value /\ req.version = -1
             /\ cmp.target = "version" => req.last = -1 /\ req.version = cmp.value
<1>1. rpc \in Calls /\ Valid(rpc) /\ Served[rpc] = StoreRequest(rpc)
  BY DEF Served
<1>2. ValidTxn(rpc)
  BY <1>1 DEF Valid
<1>3. Served[rpc] = SetOf(rpc)
  BY <1>1 DEF StoreRequest
<1>4. rpc.compare[1].target \in {"mod", "version"}
  BY <1>2 DEF ValidTxn, CompareTaken
<1>5. PICK cmp : cmp = rpc.compare[1]
  OBVIOUS
<1>6. PICK key, del, last, version :
        /\ key = KeyOf(rpc.success[1].key)
        /\ del = (rpc.success[1].kind = "delete_range")
        /\ last = (IF cmp.target = "mod" THEN cmp.value ELSE -1)
        /\ version = (IF cmp.target = "version" THEN cmp.value ELSE -1)
  OBVIOUS
<1>7. Served[rpc] = [kind |-> "set", key |-> key, del |-> del, last |-> last, version |-> version]
  BY <1>3, <1>5, <1>6, Zenon DEF SetOf, SetRequest
<1>8. /\ Served[rpc].kind = "set" /\ Served[rpc].del = del
      /\ Served[rpc].last = last /\ Served[rpc].version = version
  BY <1>7
<1>9. Served[rpc] \in SetRequests
  <2>1. Served[rpc] \in Requested
    BY ServedIsRequest, StoreRequestsAssumption DEF Requested
  <2> QED
    BY <1>8, <2>1 DEF Requested, SetRequests, RangeRequests, CompactRequests, RevisionRequest
<1>10. Served[rpc].del <=> rpc.success[1].kind = "delete_range"
  BY <1>6, <1>8, Zenon
<1> QED
  BY <1>4, <1>5, <1>6, <1>8, <1>9, <1>10

(* The answers of sets, the calls they came from and the order of the log
   make a transaction's answer one about its compare. *)
LEMMA TxnFollows ==
  BaseInv /\ ValueInv /\ AnswerInv /\ CallInv => TxnAnswersCompare
<1> SUFFICES ASSUME BaseInv, ValueInv, AnswerInv, CallInv, NEW c \in Clients,
                    Answers(c, "txn"),
                    call[c].compare[1].result = "equal",
                    call[c].compare[1].value >= 0
             PROVE  LET compare == call[c].compare[1]
                        rev     == Header(c)
                        kv      == TxnResponse(c).kv
                    IN  IF TxnResponse(c).succeeded
                        THEN Holds(compare, NewestUpTo(OfItem(log[rev].item), rev - 1))
                        ELSE \/ ~Holds(compare, kv)
                             \/ kv = 0 /\ call[c].success[1].kind = "delete_range"
  BY DEF TxnAnswersCompare
<1>1. op[c].at = "done" /\ call[c].method = "txn" /\ op[c].result \in {"ok", "err"}
  BY DEF Answers
<1>2. call[c] \in DOMAIN Served /\ op[c].req = Served[call[c]]
  BY <1>1 DEF CallInv, CallFits
<1>3. PICK cmp : cmp = call[c].compare[1]
  OBVIOUS
<1>5. PICK req : req = op[c].req
  OBVIOUS
<1>6. /\ req \in SetRequests
      /\ req.kind = "set"
      /\ req.del <=> call[c].success[1].kind = "delete_range"
      /\ cmp.target \in {"mod", "version"}
      /\ cmp.target = "mod" => req.last = cmp.value /\ req.version = -1
      /\ cmp.target = "version" => req.last = -1 /\ req.version = cmp.value
  BY <1>1, <1>2, <1>3, <1>5, TxnRequest
<1>4. cmp.value \in Nat /\ cmp.result = "equal"
  <2>1. req.last \in Int /\ req.version \in Int
    BY <1>6 DEF SetRequests
  <2> QED
    BY <1>3, <1>6, <2>1
<1>7. (op[c].result = "ok" /\ SetWon(c)) \/ (op[c].result = "err" /\ SetLost(c))
  BY <1>1, <1>5, <1>6 DEF AnswerInv, SetAnswer
<1>8. CASE op[c].result = "ok" /\ SetWon(c)
  <2>1. PICK rev \in Revs : rev = op[c].rev
    BY <1>8 DEF SetWon, Carries
  <2>2. /\ log[rev].item # 0 /\ Published(rev)
        /\ log[rev].last = req.last /\ log[rev].version = req.version
    BY <1>5, <1>8, <2>1 DEF SetWon, Carries
  <2>3. Header(c) = rev
    BY <1>1, <1>5, <1>6, <1>8, <2>1 DEF Header
  <2>4. TxnResponse(c).succeeded
    BY <1>8 DEF TxnResponse
  <2>5. PICK prev : prev = NewestUpTo(OfItem(log[rev].item), rev - 1)
    OBVIOUS
  <2>6. /\ req.last > 0 => prev = req.last /\ ~Deleted(prev)
        /\ req.version > 0 => ~Deleted(prev) /\ log[prev].value.version = req.version
        /\ req.last = 0 \/ req.version = 0 => Deleted(prev)
    BY <2>2, <2>5, CompareFollows DEF CompareIsAtomic
  <2>7. Holds(cmp, prev)
    BY <1>4, <1>6, <2>6 DEF Holds, TargetOf
  <2> QED
    BY <1>3, <2>3, <2>4, <2>5, <2>7
<1>9. CASE op[c].result = "err" /\ SetLost(c)
  <2>1. ~TxnResponse(c).succeeded /\ TxnResponse(c).kv = op[c].rev
    BY <1>9 DEF TxnResponse
  <2>2. CASE op[c].rev = 0 /\ NeedsItem(req)
    <3>1. Deleted(0)
      BY DEF Deleted
    <3>2. req.del \/ cmp.value > 0
      BY <1>4, <1>6, <2>2 DEF NeedsItem
    <3>3. cmp.value > 0 => ~Holds(cmp, 0)
      BY <1>4, <3>1 DEF Holds, TargetOf
    <3> QED
      BY <1>3, <1>6, <2>1, <2>2, <3>2, <3>3
  <2>3. CASE /\ op[c].rev \in Revs
             /\ log[op[c].rev].value.live
             /\ \/ Mismatch(req.last, op[c].rev)
                \/ Mismatch(req.version, log[op[c].rev].value.version)
    <3>1. PICK rev \in Revs : rev = op[c].rev
      BY <2>3
    <3>2. ~Deleted(rev)
      BY <2>3, <3>1 DEF Deleted, Revs
    <3>3. ~Holds(cmp, rev)
      BY <1>4, <1>6, <2>3, <3>1, <3>2 DEF Holds, TargetOf, Mismatch
    <3> QED
      BY <1>3, <2>1, <3>1, <3>3
  <2> QED
    BY <1>5, <1>9, <2>2, <2>3 DEF SetLost
<1> QED
  BY <1>7, <1>8, <1>9

(***************************************************************************)
(* Whatever calls are made: a transaction (kv_service.rs txn) whose        *)
(* compare is EQUAL to a natural number and that succeeded replaced the    *)
(* very value its compare holds of, and one that failed answers with a     *)
(* value of which the compare does not hold, or had nothing to delete,     *)
(* however the sets of the key interleave between the lookup, the item's   *)
(* lock and the push.  Of compares that are not EQUAL it says nothing:     *)
(* txn does not read their result.                                         *)
(***************************************************************************)
THEOREM TxnsAnswerForCompares == KvSpec => []TxnAnswersCompare
<1>1. BaseInv /\ ValueInv /\ AnswerInv /\ CallInv => TxnAnswersCompare
  BY TxnFollows
<1>2. KvSpec => []AnswerInv
  BY KvImplementsStore, AnswersCorrect, PTL
<1> QED
  BY <1>1, <1>2, KvStoreInv, CallsCorrect, PTL

-------------------------------------------------------------------------------
(***************************************************************************)
(* What a range answers about more keys.                                   *)
(***************************************************************************)
(* What a call of range is for the store. *)
LEMMA RangeCallRequest ==
  ASSUME NEW rpc \in DOMAIN Served, Served[rpc] \in RangeRequests
  PROVE  Served[rpc].limit = Limit(rpc) /\ rpc.limit \in Int
<1>1. Served[rpc] = StoreRequest(rpc) /\ Served[rpc].kind = "range"
  BY DEF Served, RangeRequests
<1>2. ASSUME rpc.method = "put" PROVE FALSE
  <2>1. StoreRequest(rpc) = SetRequest(KeyOf(rpc.key), FALSE, -1, -1)
    BY <1>2 DEF StoreRequest
  <2> QED
    BY <1>1, <2>1 DEF SetRequest
<1>3. ASSUME rpc.method = "delete_range" PROVE FALSE
  <2>1. StoreRequest(rpc) = SetRequest(KeyOf(rpc.key), TRUE, -1, -1)
    BY <1>3 DEF StoreRequest
  <2> QED
    BY <1>1, <2>1 DEF SetRequest
<1>4. ASSUME rpc.method = "txn" PROVE FALSE
  BY <1>1, <1>4, TxnRequest
<1>5. ASSUME rpc.method = "compact" PROVE FALSE
  <2>1. StoreRequest(rpc) = CompactRequest(rpc.revision)
    BY <1>5 DEF StoreRequest
  <2> QED
    BY <1>1, <2>1 DEF CompactRequest
<1>6. ASSUME rpc.method \notin {"range", "put", "delete_range", "txn", "compact"} PROVE FALSE
  <2>1. StoreRequest(rpc) = RevisionRequest
    BY <1>6 DEF StoreRequest
  <2> QED
    BY <1>1, <2>1 DEF RevisionRequest
<1>7. rpc.method = "range"
  BY <1>2, <1>3, <1>4, <1>5, <1>6
<1>8. Served[rpc] = RangeOf(rpc)
  BY <1>1, <1>7 DEF StoreRequest
<1>9. PICK keys, bounds : RangeOf(rpc) = RangeRequest(keys, bounds, rpc.revision, Limit(rpc))
  BY Zenon DEF RangeOf
<1>10. PICK rev, limit : rev = rpc.revision /\ limit = Limit(rpc)
  OBVIOUS
<1>11. Served[rpc] = [kind |-> "range", keys |-> keys, bounds |-> bounds, rev |-> rev,
                      limit |-> limit]
  BY <1>8, <1>9, <1>10, Zenon DEF RangeRequest
<1>12. Served[rpc].limit = limit
  BY <1>11
<1>13. rpc.limit \in Int
  BY <1>7, LimitAssumption DEF Served
<1> QED
  BY <1>10, <1>12, <1>13

(* What a key that a range has passed is, as MoreMeansMore says it. *)
LEMMA PassedNewest ==
  ASSUME BaseInv, NEW c \in Clients, op[c].at = "scan", NEW k \in Passed(c)
  PROVE  /\ WasLive(c, k) => ~Deleted(NewestOf(c, k))
         /\ WasGone(c, k) => Deleted(NewestOf(c, k)) \/ NewestOf(c, k) <= start_offset
<1>1. PICK R \in Int : R = RangeRevision(op[c])
  BY DEF RangeRevision, BaseInv, TypeOK, OpFits, Op, RangeRequests
<1>2. PICK S : S = OfItem(prefix_map[k])
  OBVIOUS
<1>3. ASSUME NEW n \in 0 .. MaxRev, IsNewest(prefix_map[k], RangeRevision(op[c]), n)
      PROVE  NewestOf(c, k) = n
  <2>1. /\ S \subseteq Revs
        /\ n # 0 => n \in S /\ n <= R
        /\ \A q \in S : q <= R => q <= n
    BY <1>1, <1>2, <1>3 DEF IsNewest, OfItem
  <2>2. NewestUpTo(S, R) = n
    BY <2>1, NewestIs
  <2> QED
    BY <1>1, <1>2, <2>2 DEF NewestOf
<1> QED
  BY <1>3 DEF WasLive, WasGone

LEMMA MoreFollows == BaseInv /\ TallyInv /\ CallInv => MoreMeansMore
<1> DEFINE live(c) == {k \in op[c].req.keys : prefix_map[k] # None /\ ~Deleted(NewestOf(c, k))}
<1> SUFFICES ASSUME BaseInv, TallyInv, CallInv, NEW c \in Clients,
                    op[c].at = "scan", op[c].left = {}, op[c].reached,
                    \A k \in live(c) : NewestOf(c, k) > start_offset, ~call[c].count_only,
                    call[c].limit >= 0
             PROVE  LET answer == RangeResponse(c)
                    IN  /\ answer.more <=> call[c].limit > 0 /\ Cardinality(live(c)) > call[c].limit
                        /\ ~answer.more => answer.count = Cardinality(live(c))
  BY DEF MoreMeansMore
<1> USE DEF BaseInv
<1>1. op[c].req \in RangeRequests /\ op[c].count \in Nat
  BY DEF TypeOK, OpFits, Op
<1>2. call[c] \in DOMAIN Served /\ op[c].req = Served[call[c]]
  BY DEF CallInv, CallFits
<1>3. PICK limit \in Nat : limit = op[c].req.limit /\ limit = Limit(call[c])
  BY <1>1, <1>2, RangeCallRequest DEF RangeRequests
<1>4. call[c].limit \in Nat /\ limit = IF call[c].limit = 0 THEN Unlimited ELSE call[c].limit
  BY <1>1, <1>2, <1>3, RangeCallRequest DEF Limit
<1>5. PICK L \in SUBSET Keys : Tallies(c, L)
  BY DEF TallyInv
<1>6. PICK V : V = live(c)
  OBVIOUS
<1>7. \A k \in Passed(c) : k \in Keys /\ (k \in V <=> ~Deleted(NewestOf(c, k)))
  BY <1>1, <1>6 DEF Passed, RangeRequests
<1>8. V \subseteq Passed(c)
  BY <1>6 DEF Passed
<1>9. L \subseteq V
  BY <1>5, <1>7, PassedNewest DEF Tallies
<1>10. V \subseteq Keys
  BY <1>7, <1>8
<1>11. /\ IsFiniteSet(V) /\ IsFiniteSet(L) /\ IsFiniteSet(Keys)
       /\ Cardinality(L) <= Cardinality(V) /\ Cardinality(V) <= Cardinality(Keys)
       /\ Cardinality(L) \in Nat /\ Cardinality(V) \in Nat /\ Cardinality(Keys) \in Nat
  BY <1>9, <1>10, StoreKeysAssumption, FS_Subset, FS_CardinalityType
<1>12. PICK l \in Nat, v \in Nat, m \in Nat :
         l = Cardinality(L) /\ v = Cardinality(V) /\ m = Cardinality(Keys)
  BY <1>11
<1>13. l <= v /\ v <= m /\ Unlimited = m + 1
  BY <1>11, <1>12 DEF Unlimited
<1>14. op[c].count <= limit => v = op[c].count
  <2> SUFFICES ASSUME op[c].count <= limit PROVE v = op[c].count
    OBVIOUS
  <2>1. Cardinality(L) = op[c].count /\ \A k \in Passed(c) : k \in L \/ WasGone(c, k)
    BY <1>3, <1>5 DEF Tallies
  <2>2. \A k \in V : ~(NewestOf(c, k) <= start_offset)
    <3> SUFFICES ASSUME NEW k \in V PROVE ~(NewestOf(c, k) <= start_offset)
      OBVIOUS
    <3>1. NewestOf(c, k) > start_offset
      BY <1>6
    <3>2. NewestOf(c, k) \in Int
      <4>1. PICK R \in Int : R = RangeRevision(op[c])
        BY DEF RangeRevision, TypeOK, OpFits, Op, RangeRequests
      <4>2. PICK T : T = {q \in OfItem(prefix_map[k]) : q <= R} \union {0}
        OBVIOUS
      <4>3. T \subseteq 0 .. MaxRev /\ T # {} /\ MaxRev \in Nat
        BY <4>2, StoreMaxRevAssumption DEF OfItem, Revs
      <4>4. Max(T) \in 0 .. MaxRev
        BY <4>3, MaxType
      <4> QED
        BY <4>1, <4>2, <4>4 DEF NewestOf, NewestUpTo
    <3> QED
      BY <3>1, <3>2 DEF TypeOK
  <2>3. \A k \in V : k \in L
    BY <1>7, <1>8, <2>1, <2>2, PassedNewest
  <2>4. V = L
    BY <1>9, <2>3
  <2> QED
    BY <1>12, <2>1, <2>4
<1>15. op[c].count > limit => v > limit
  BY <1>3, <1>5, <1>12, <1>13 DEF Tallies
<1>16. /\ RangeResponse(c).more <=> call[c].limit # 0 /\ op[c].count > call[c].limit
       /\ RangeResponse(c).count = op[c].count
  BY DEF RangeResponse
<1>17. (call[c].limit # 0 /\ op[c].count > call[c].limit)
         <=> (call[c].limit > 0 /\ v > call[c].limit)
  BY <1>1, <1>4, <1>13, <1>14, <1>15
<1>18. ~(call[c].limit # 0 /\ op[c].count > call[c].limit) => op[c].count = v
  BY <1>1, <1>4, <1>13, <1>14, <1>15
<1> QED
  BY <1>6, <1>12, <1>16, <1>17, <1>18

(***************************************************************************)
(* Whatever calls are made: of a range whose limit is not negative,        *)
(* kv_service.rs sets more exactly when more keys than the limit are live  *)
(* at the range's revision, and without it answers with their number,      *)
(* although sets, creations and compactions go on while Store::range       *)
(* counts, and although past the limit it counts deletions.                *)
(***************************************************************************)
THEOREM MoreIsExact == KvSpec => []MoreMeansMore
<1>1. KvSpec => [](BaseInv /\ TallyInv)
  BY KvImplementsStore, TypeCorrect, TalliesCorrect, PTL
<1> QED
  BY <1>1, CallsCorrect, MoreFollows, PTL

-------------------------------------------------------------------------------
(***************************************************************************)
(* What a call owes to the answers before it: what the steps of a request  *)
(* do to the revision it has loaded and to its history.                    *)
(***************************************************************************)
LEMMA ProceedSeen ==
  ASSUME TypeOK, NEW c \in Clients, NEW at, NEW result, NEW rev, Proceed(c, at, result, rev)
  PROVE  op'[c].seen = op[c].seen
<1>1. PICK i \in Op : i = Idle
  BY IdleType
<1>2. PICK req, item, seen :
        /\ req = op[c].req /\ item = IF at = "done" THEN 0 ELSE op[c].item
        /\ seen = op[c].seen
  OBVIOUS
<1> DEFINE o == [i EXCEPT !.at = at, !.req = req, !.result = result, !.item = item, !.rev = rev,
                          !.seen = seen]
<1>3. op' = [op EXCEPT ![c] = o]
  BY <1>1, <1>2, Zenon DEF Proceed
<1>4. o.seen = seen
  BY DEF Op
<1> HIDE DEF o
<1>5. op'[c] = o
  BY <1>3 DEF TypeOK
<1> QED
  BY <1>2, <1>4, <1>5

LEMMA FinishSeen ==
  ASSUME TypeOK, NEW c \in Clients, NEW result, Finish(c, result)
  PROVE  /\ op'[c].seen = op[c].seen /\ op'[c].latest_rev = op[c].latest_rev
         /\ op'[c].got = op[c].got /\ op'[c].result = result
<1>1. PICK p \in Op : p = op[c]
  BY DEF TypeOK
<1> DEFINE o == [p EXCEPT !.at = "done", !.result = result, !.item = 0, !.left = {}]
<1>2. op' = [op EXCEPT ![c] = o]
  BY <1>1, Zenon DEF Finish
<1>3. o.seen = p.seen /\ o.latest_rev = p.latest_rev /\ o.got = p.got /\ o.result = result
  BY DEF Op
<1> HIDE DEF o
<1>4. op'[c] = o
  BY <1>2 DEF TypeOK
<1> QED
  BY <1>1, <1>3, <1>4

LEMMA BeginSeen ==
  ASSUME TypeOK, NEW c \in Clients, NEW req, Begin(c, req)
  PROVE  op'[c].seen = Seen(req) /\ op'[c].len = length /\ op'[c].offset = start_offset
<1>1. PICK i \in Op : i = Idle
  BY IdleType
<1>2. PICK seen : seen = Seen(req)
  OBVIOUS
<1> DEFINE o == [i EXCEPT !.at = "begun", !.req = req, !.len = length, !.seen = seen,
                          !.offset = start_offset]
<1>3. op' = [op EXCEPT ![c] = o]
  BY <1>1, <1>2, Zenon DEF Begin
<1>4. o.seen = seen /\ o.len = length /\ o.offset = start_offset
  BY DEF Op
<1> HIDE DEF o
<1>5. op'[c] = o
  BY <1>3 DEF TypeOK
<1> QED
  BY <1>2, <1>4, <1>5

(* The second load, and what is still owed after it. *)
LoadSeen(c) ==
  /\ op'[c].latest_rev = op[c].len + start_offset
  /\ op'[c].seen = IF op[c].offset = start_offset THEN op[c].seen ELSE NoKeys

LEMMA LoadedSeen ==
  ASSUME TypeOK, NEW c \in Clients
  PROVE  /\ Loaded(c) \in Op
         /\ Loaded(c).latest_rev = op[c].len + start_offset
         /\ Loaded(c).seen = IF op[c].offset = start_offset THEN op[c].seen ELSE NoKeys
<1>1. PICK p \in Op : p = op[c]
  BY DEF TypeOK
<1>2. PICK latest : latest = Latest(c)
  OBVIOUS
<1>3. PICK seen : seen = IF p.offset = start_offset THEN p.seen ELSE NoKeys
  OBVIOUS
<1> DEFINE o == [p EXCEPT !.latest_rev = latest, !.len = 0, !.offset = 0, !.seen = seen]
<1>4. o = Loaded(c)
  BY <1>1, <1>2, <1>3, Zenon DEF Loaded
<1>5. o.latest_rev = latest /\ o.seen = seen
  BY DEF Op
<1> HIDE DEF o
<1> QED
  BY <1>1, <1>2, <1>3, <1>4, <1>5, LoadedFacts DEF Latest

LEMMA ReadRevisionSeen ==
  ASSUME TypeOK, NEW c \in Clients, ReadRevision(c)
  PROVE  LoadSeen(c)
<1>1. PICK p \in Op : p = Loaded(c)
  BY LoadedSeen
<1> DEFINE o == [p EXCEPT !.at = "done", !.result = "ok"]
<1>2. op' = [op EXCEPT ![c] = o]
  BY <1>1, Zenon DEF ReadRevision
<1>3. o.seen = p.seen /\ o.latest_rev = p.latest_rev
  BY DEF Op
<1> HIDE DEF o
<1>4. op'[c] = o
  BY <1>2 DEF TypeOK
<1> QED
  BY <1>1, <1>3, <1>4, LoadedSeen DEF LoadSeen

LEMMA SetLookupSeen ==
  ASSUME TypeOK, NEW c \in Clients, SetLookup(c)
  PROVE  LoadSeen(c)
<1>1. PICK p \in Op : p = Loaded(c)
  BY LoadedSeen
<1>2. PICK item, at, result : op' = [op EXCEPT ![c] = [p EXCEPT !.item = item, !.at = at, !.result = result]]
  BY <1>1, Zenon DEF SetLookup
<1> DEFINE o == [p EXCEPT !.item = item, !.at = at, !.result = result]
<1>3. o.seen = p.seen /\ o.latest_rev = p.latest_rev
  BY DEF Op
<1>4. op' = [op EXCEPT ![c] = o]
  BY <1>2
<1> HIDE DEF o
<1>5. op'[c] = o
  BY <1>4 DEF TypeOK
<1> QED
  BY <1>1, <1>3, <1>5, LoadedSeen DEF LoadSeen

LEMMA RangeLookupSeen ==
  ASSUME TypeOK, NEW c \in Clients, RangeLookup(c)
  PROVE  LoadSeen(c) /\ (op'[c].at = "done" => op'[c].result # "ok")
<1>1. PICK p \in Op : p = Loaded(c)
  BY LoadedSeen
<1> DEFINE panics == op[c].req.bounds = "inverted" /\ \E k \in Keys : prefix_map[k] # None
<1>2. PICK at : at = IF RangeInvalid(c) \/ panics THEN "done" ELSE "scan"
  OBVIOUS
<1>3. PICK result : result = IF RangeInvalid(c) THEN "err" ELSE IF panics THEN "panic" ELSE p.result
  OBVIOUS
<1>4. PICK reached, left :
        op' = [op EXCEPT ![c] = [p EXCEPT !.at = at, !.result = result, !.reached = reached,
                                          !.left = left]]
  BY <1>1, <1>2, <1>3, Zenon DEF RangeLookup
<1> DEFINE o == [p EXCEPT !.at = at, !.result = result, !.reached = reached, !.left = left]
<1>5. o.seen = p.seen /\ o.latest_rev = p.latest_rev /\ o.at = at /\ o.result = result
  BY DEF Op
<1>6. op' = [op EXCEPT ![c] = o]
  BY <1>4
<1>7. at = "done" => result # "ok"
  BY <1>2, <1>3
<1> HIDE DEF o, panics
<1>8. op'[c] = o
  BY <1>6 DEF TypeOK
<1> QED
  BY <1>1, <1>5, <1>7, <1>8, LoadedSeen DEF LoadSeen

(* What a request owes, and the revision it has loaded, stay as they are. *)
KeepSeen(c) == op'[c].seen = op[c].seen /\ op'[c].latest_rev = op[c].latest_rev

LEMMA SetRefusedSeen ==
  ASSUME TypeOK, NEW c \in Clients, SetRefused(c)
  PROVE  KeepSeen(c)
<1>1. PICK p \in Op : p = op[c]
  BY DEF TypeOK
<1>2. PICK rev : op' = [op EXCEPT ![c] = [p EXCEPT !.at = "done", !.result = "err", !.item = 0, !.rev = rev]]
  BY <1>1, Zenon DEF SetRefused
<1> DEFINE o == [p EXCEPT !.at = "done", !.result = "err", !.item = 0, !.rev = rev]
<1>3. o.seen = p.seen /\ o.latest_rev = p.latest_rev
  BY DEF Op
<1>4. op' = [op EXCEPT ![c] = o]
  BY <1>2
<1> HIDE DEF o
<1>5. op'[c] = o
  BY <1>4 DEF TypeOK
<1> QED
  BY <1>1, <1>3, <1>5 DEF KeepSeen

LEMMA CreatePrefixSeen ==
  ASSUME TypeOK, NEW c \in Clients, CreatePrefix(c)
  PROVE  KeepSeen(c)
<1>1. PICK p \in Op : p = op[c]
  BY DEF TypeOK
<1> DEFINE o == [p EXCEPT !.at = "prefixed"]
<1>2. op' = [op EXCEPT ![c] = o]
  BY <1>1 DEF CreatePrefix, TypeOK
<1>3. o.seen = p.seen /\ o.latest_rev = p.latest_rev
  BY DEF Op
<1> HIDE DEF o
<1>4. op'[c] = o
  BY <1>2 DEF TypeOK
<1> QED
  BY <1>1, <1>3, <1>4 DEF KeepSeen

LEMMA RangeSkipSeen ==
  ASSUME TypeOK, NEW c \in Clients, RangeSkip(c)
  PROVE  KeepSeen(c)
<1>1. PICK f \in [Clients -> Op] : f = op
  BY DEF TypeOK
<1>2. PICK g : g = op'
  OBVIOUS
<1>3. PICK left, count : g = [f EXCEPT ![c].left = left, ![c].count = count]
  <2>1. PICK k \in Keys : op' = [op EXCEPT ![c].left = @ \ {k}, ![c].count = @ + 1]
    BY DEF RangeSkip
  <2>2. PICK left, count : left = op[c].left \ {k} /\ count = op[c].count + 1
    OBVIOUS
  <2>3. g = [f EXCEPT ![c].left = left, ![c].count = count]
    BY <1>1, <1>2, <2>1, <2>2, Zenon
  <2> QED
    BY <2>3
<1>4. g[c].seen = f[c].seen /\ g[c].latest_rev = f[c].latest_rev
  BY <1>3 DEF Op
<1> QED
  BY <1>1, <1>2, <1>4 DEF KeepSeen

LEMMA RangeItemSeen ==
  ASSUME TypeOK, NEW c \in Clients, RangeItem(c)
  PROVE  KeepSeen(c) /\ (op'[c].at = "done" => op'[c].result = "panic")
<1>1. CASE Finish(c, "panic")
  BY <1>1, FinishSeen DEF KeepSeen
<1>2. CASE ~Finish(c, "panic")
  <2>1. PICK f \in [Clients -> Op] : f = op
    BY DEF TypeOK
  <2>2. PICK g : g = op'
    OBVIOUS
  <2>3. PICK k, left, count, n : g = [f EXCEPT ![c].left = left, ![c].count = count, ![c].got[k] = n]
    <3>1. PICK k \in Keys :
            op' = [op EXCEPT ![c].left = @ \ {k},
                             ![c].count = IF Found(c, k).live THEN @ + 1 ELSE @,
                             ![c].got[k] = IF Found(c, k).live /\ op[c].count < op[c].req.limit
                                           THEN Found(c, k).mod_revision ELSE 0]
      BY <1>2, Zenon DEF RangeItem, Found
    <3>2. PICK left, count, n :
            /\ left = op[c].left \ {k}
            /\ count = IF Found(c, k).live THEN op[c].count + 1 ELSE op[c].count
            /\ n = IF Found(c, k).live /\ op[c].count < op[c].req.limit
                   THEN Found(c, k).mod_revision ELSE 0
      OBVIOUS
    <3>3. g = [f EXCEPT ![c].left = left, ![c].count = count, ![c].got[k] = n]
      BY <2>1, <2>2, <3>1, <3>2, Zenon
    <3> QED
      BY <3>3
  <2>4. g[c].seen = f[c].seen /\ g[c].latest_rev = f[c].latest_rev /\ g[c].at = f[c].at
    BY <2>3 DEF Op
  <2>5. op[c].at = "scan"
    BY DEF RangeItem
  <2> QED
    BY <2>1, <2>2, <2>4, <2>5 DEF KeepSeen
<1> QED
  BY <1>1, <1>2

-------------------------------------------------------------------------------
(***************************************************************************)
(* Which key an item is of, and that set finds the keys it has answered.   *)
(***************************************************************************)
(* The revisions of an item, and the maps that lead to it, are of one key. *)
KeyOK ==
  /\ \A r \in Revs : IF log[r].item = 0 THEN log[r].key = None
                     ELSE log[r].key \in Keys /\ log[log[r].item].key = log[r].key
  /\ \A k \in Keys :
       /\ tree_map[k] # None => log[tree_map[k]].key = k /\ prefix_map[k] # None
       /\ prefix_map[k] # None => log[prefix_map[k]].key = k

(* What each set knows of its key. *)
SetterOK(c) ==
  /\ op[c].at \in {"found", "pushed"} =>
       log[op[c].item].key = op[c].req.key /\ tree_map[op[c].req.key] # None
  /\ op[c].at \in {"created", "prefixed"} => log[op[c].rev].key = op[c].req.key
  /\ op[c].at = "prefixed" => prefix_map[op[c].req.key] # None

(* c is creating the item of revision r. *)
Creating(c, r) == op[c].at \in {"created", "prefixed"} /\ op[c].rev = r

(* Only a key that is being created is not in tree_map yet. *)
ListedOK ==
  \A r \in Revs : log[r].item # 0 =>
    tree_map[log[r].key] # None \/ \E c \in Clients : Creating(c, r)

KeyInv == KeyOK /\ (\A c \in Clients : SetterOK(c)) /\ ListedOK

(* Keys and items of revisions are for good, and so are entries of the maps. *)
KeysKept ==
  /\ \A r \in Revs : r <= Assigned => log'[r].key = log[r].key /\ log'[r].item = log[r].item
  /\ \A k \in Keys : tree_map[k] # None => tree_map'[k] # None
  /\ \A k \in Keys : prefix_map[k] # None => prefix_map'[k] # None

(* Where the log, the maps and the clients lead, there are revisions. *)
LEMMA LeadsToRevs ==
  ASSUME BaseInv, LockInv
  PROVE  /\ \A r \in Revs : log[r].item # 0 =>
              r <= Assigned /\ log[r].item \in Revs /\ log[r].item <= Assigned
         /\ \A k \in Keys : tree_map[k] # None => tree_map[k] \in Revs /\ tree_map[k] <= Assigned
         /\ \A k \in Keys : prefix_map[k] # None =>
              prefix_map[k] \in Revs /\ prefix_map[k] <= Assigned
         /\ \A c \in Clients :
              /\ op[c].at \in {"found", "pushed"} =>
                   op[c].item \in Revs /\ op[c].item <= Assigned /\ op[c].req.key \in Keys
              /\ op[c].at \in {"created", "prefixed"} =>
                   op[c].rev \in Revs /\ op[c].rev <= Assigned /\ op[c].req.key \in Keys
<1> USE DEF BaseInv, LockInv
<1>0. Assigned \in Nat /\ MaxRev \in Nat
  BY StoreMaxRevAssumption DEF CountInv
<1>1. ASSUME NEW i \in Revs, Known(i) PROVE i <= Assigned
  <2>1. PICK m \in Revs : i <= m /\ m <= Assigned
    BY <1>1, KnownFacts
  <2> QED
    BY <1>0, <2>1 DEF Revs
<1>2. ASSUME NEW r \in Revs, log[r].item # 0
      PROVE  r <= Assigned /\ log[r].item \in Revs /\ log[r].item <= Assigned
  <2>1. log[r].item \in 0 .. MaxRev /\ r <= Assigned /\ log[r].item <= r
    BY <1>0, <1>2 DEF LogOK, TypeOK, Entry, Revs
  <2> QED
    BY <1>0, <1>2, <2>1 DEF Revs
<1>3. ASSUME NEW k \in Keys, tree_map[k] # None PROVE tree_map[k] \in Revs /\ tree_map[k] <= Assigned
  BY <1>1, <1>3 DEF MapsOK, TypeOK
<1>4. ASSUME NEW k \in Keys, prefix_map[k] # None
      PROVE  prefix_map[k] \in Revs /\ prefix_map[k] <= Assigned
  BY <1>1, <1>4 DEF MapsOK, TypeOK
<1>5. ASSUME NEW c \in Clients, op[c].at \in {"found", "pushed"}
      PROVE  op[c].item \in Revs /\ op[c].item <= Assigned /\ op[c].req.key \in Keys
  <2>1. op[c].item \in Revs /\ op[c].req \in SetRequests
    BY <1>5 DEF TypeOK, OpFits
  <2>2. Known(op[c].item)
    BY <1>5 DEF FlightOK
  <2> QED
    BY <1>1, <2>1, <2>2 DEF SetRequests
<1>6. ASSUME NEW c \in Clients, op[c].at \in {"created", "prefixed"}
      PROVE  op[c].rev \in Revs /\ op[c].rev <= Assigned /\ op[c].req.key \in Keys
  <2>1. op[c].rev \in Revs /\ op[c].req \in SetRequests
    BY <1>6 DEF TypeOK, OpFits
  <2>2. op[c].rev <= Assigned
    BY <1>1, <1>6, <2>1 DEF FlightOK
  <2> QED
    BY <2>1, <2>2 DEF SetRequests
<1> QED
  BY <1>2, <1>3, <1>4, <1>5, <1>6

(* A client that does not move knows what it knew. *)
LEMMA SetterKept ==
  ASSUME BaseInv, LockInv, KeysKept, NEW d \in Clients, op'[d] = op[d], SetterOK(d)
  PROVE  SetterOK(d)'
<1>1. op[d].at \in {"found", "pushed"} =>
        op[d].item \in Revs /\ op[d].item <= Assigned /\ op[d].req.key \in Keys
  BY LeadsToRevs
<1>2. op[d].at \in {"created", "prefixed"} =>
        op[d].rev \in Revs /\ op[d].rev <= Assigned /\ op[d].req.key \in Keys
  BY LeadsToRevs
<1> QED
  BY <1>1, <1>2 DEF SetterOK, KeysKept

(* The maps and the keys of the log stay as they are. *)
LEMMA KeyFrame ==
  ASSUME BaseInv, LockInv, KeyInv, NEW c \in Clients, OpIs(c, op'[c]), SetterOK(c)',
         \A r \in Revs : log'[r].key = log[r].key /\ log'[r].item = log[r].item,
         UNCHANGED <<tree_map, prefix_map>>,
         \A r \in Revs : Creating(c, r) => Creating(c, r)'
  PROVE  KeyInv' /\ KeysKept
<1>1. KeysKept
  BY DEF KeysKept
<1>2. \A d \in Clients : SetterOK(d)'
  <2> SUFFICES ASSUME NEW d \in Clients PROVE SetterOK(d)'
    OBVIOUS
  <2>1. CASE d = c
    BY <2>1
  <2>2. CASE d # c
    BY <1>1, <2>2, SetterKept DEF OpIs, KeyInv
  <2> QED
    BY <2>1, <2>2
<1>3. KeyOK'
  <2>1. \A r \in Revs : log[r].item # 0 => log[r].item \in Revs
    BY LeadsToRevs
  <2>2. \A k \in Keys : /\ tree_map[k] # None => tree_map[k] \in Revs
                        /\ prefix_map[k] # None => prefix_map[k] \in Revs
    BY LeadsToRevs
  <2> QED
    BY <2>1, <2>2 DEF KeyInv, KeyOK
<1>4. ListedOK'
  <2> SUFFICES ASSUME NEW r \in Revs, log[r].item # 0, tree_map[log[r].key] = None
               PROVE  \E d \in Clients : Creating(d, r)'
    BY DEF ListedOK
  <2>1. PICK d \in Clients : Creating(d, r)
    BY DEF KeyInv, ListedOK
  <2>2. CASE d = c
    BY <2>1, <2>2
  <2>3. CASE d # c
    <3>1. op'[d] = op[d]
      BY <2>3 DEF OpIs
    <3> QED
      BY <2>1, <3>1 DEF Creating
  <2> QED
    BY <2>2, <2>3
<1> QED
  BY <1>1, <1>2, <1>3, <1>4 DEF KeyInv

LEMMA QuietKeys ==
  ASSUME BaseInv, LockInv, KeyInv, NEW c \in Clients, QuietStep(c)
  PROVE  KeyInv' /\ KeysKept
<1> USE DEF BaseInv
<1>1. /\ OpIs(c, op'[c])
      /\ op'[c].at \in {"begun", "found", "create", "scan", "done", "idle"}
      /\ op[c].at \in {"idle", "begun", "found", "scan", "done"}
      /\ UNCHANGED storeVars
  BY QuietStepFacts DEF QuietFacts
<1>2. UNCHANGED <<tree_map, prefix_map, log>>
  BY <1>1 DEF storeVars
<1>3. ASSUME op'[c].at = "found" PROVE SetLookup(c)
  <2>1. ASSUME NEW req \in Requests, Begin(c, req) PROVE op'[c].at = "begun"
    BY <2>1, BeginFacts
  <2>2. ASSUME ReadRevision(c) PROVE op'[c].at = "done"
    BY <2>2, ReadRevisionFacts
  <2>3. ASSUME SetRefused(c) PROVE op'[c].at = "done"
    BY <2>3, SetRefusedFacts
  <2>4. ASSUME RangeLookup(c) PROVE op'[c].at \in {"scan", "done"}
    BY <2>4, RangeLookupFacts DEF CountInv
  <2>5. ASSUME RangeSkip(c) PROVE op'[c].at = "scan"
    BY <2>5, RangeSkipFacts
  <2>6. ASSUME RangeItem(c) PROVE op'[c].at \in {"scan", "done"}
    <3>1. op[c].at = "scan"
      BY <2>6 DEF RangeItem
    <3>2. \A k \in Keys : IsNext(c, k) => Found(c, k).mod_revision \in Nat
      BY <3>1, FoundType DEF Value
    <3> QED
      BY <2>6, <3>2, RangeItemFacts
  <2>7. ASSUME RangeDone(c) PROVE op'[c].at = "done"
    <3>1. "ok" \in Results /\ Finish(c, "ok")
      BY <2>7 DEF RangeDone, Results
    <3> QED
      BY <3>1, FinishFacts
  <2>8. ASSUME Return(c) PROVE op'[c].at = "idle"
    BY <2>8, ReturnFacts DEF OpIs, Idle
  <2> QED
    BY <1>3, <2>1, <2>2, <2>3, <2>4, <2>5, <2>6, <2>7, <2>8 DEF QuietStep
<1>4. SetterOK(c)'
  <2>1. CASE op'[c].at = "found"
    <3>1. /\ op'[c].req = op[c].req /\ op[c].req \in SetRequests
          /\ tree_map[op[c].req.key] # None /\ op'[c].item = tree_map[op[c].req.key]
      BY <1>3, <2>1, SetLookupFacts
    <3>2. op[c].req.key \in Keys
      BY <3>1 DEF SetRequests
    <3>3. log[tree_map[op[c].req.key]].key = op[c].req.key
      BY <3>1, <3>2 DEF KeyInv, KeyOK
    <3> QED
      BY <1>2, <2>1, <3>1, <3>3 DEF SetterOK
  <2>2. CASE op'[c].at # "found"
    BY <1>1, <2>2 DEF SetterOK
  <2> QED
    BY <2>1, <2>2
<1>5. \A r \in Revs : ~Creating(c, r)
  BY <1>1 DEF Creating
<1> QED
  BY <1>1, <1>2, <1>4, <1>5, KeyFrame

LEMMA CompactKeys ==
  ASSUME BaseInv, LockInv, KeyInv, NEW c \in Clients, CompactFacts(c)
  PROVE  KeyInv' /\ KeysKept
<1>1. /\ OpIs(c, op'[c]) /\ op[c].at \in {"begun", "compacting"}
      /\ op'[c].at \in {"compacting", "done"}
      /\ UNCHANGED <<tree_map, prefix_map, log>>
  BY DEF CompactFacts
<1>2. SetterOK(c)'
  BY <1>1 DEF SetterOK
<1>3. \A r \in Revs : ~Creating(c, r)
  BY <1>1 DEF Creating
<1> QED
  BY <1>1, <1>2, <1>3, KeyFrame

LEMMA SetStoreKeys ==
  ASSUME BaseInv, LockInv, KeyInv, NEW c \in Clients, SetStore(c)
  PROVE  KeyInv' /\ KeysKept
<1> USE DEF BaseInv
<1>1. /\ OpIs(c, op'[c]) /\ op[c].at = "pushed" /\ op'[c].at = "done" /\ op[c].rev \in Revs
      /\ UNCHANGED <<tree_map, prefix_map>>
      /\ \E v : ValueSet(op[c].rev, v)
  BY SetStoreFacts
<1>2. \A r \in Revs : log'[r].key = log[r].key /\ log'[r].item = log[r].item
  BY <1>1 DEF ValueSet
<1>3. SetterOK(c)'
  BY <1>1 DEF SetterOK
<1>4. \A r \in Revs : ~Creating(c, r)
  BY <1>1 DEF Creating
<1> QED
  BY <1>1, <1>2, <1>3, <1>4, KeyFrame

LEMMA CreatePrefixKeys ==
  ASSUME BaseInv, LockInv, KeyInv, NEW c \in Clients, CreatePrefix(c)
  PROVE  KeyInv' /\ KeysKept
<1> USE DEF BaseInv
<1>1. /\ OpIs(c, op'[c]) /\ op[c].at = "created" /\ op'[c].at = "prefixed"
      /\ op'[c].req = op[c].req /\ op'[c].rev = op[c].rev /\ op[c].rev \in Revs
      /\ op[c].req \in SetRequests /\ UNCHANGED tree_map
      /\ \E v : ValueSet(op[c].rev, v)
  BY CreatePrefixItem, CreatePrefixFacts
<1>2. PICK k \in Keys, rev \in Revs : k = op[c].req.key /\ rev = op[c].rev
  BY <1>1 DEF SetRequests
<1>3. prefix_map' = [prefix_map EXCEPT ![k] = rev]
  BY <1>2, CreatePrefixItem
<1>4. /\ prefix_map'[k] = rev /\ rev # None
      /\ \A l \in Keys : l # k => prefix_map'[l] = prefix_map[l]
  BY <1>3, StoreClientsAssumption DEF TypeOK, Revs
<1>5. \A r \in Revs : log'[r].key = log[r].key /\ log'[r].item = log[r].item
  BY <1>1 DEF ValueSet
<1>6. KeysKept
  BY <1>1, <1>4, <1>5 DEF KeysKept
<1>7. log[rev].key = k
  BY <1>1, <1>2 DEF KeyInv, SetterOK
<1>8. SetterOK(c)'
  BY <1>1, <1>2, <1>4, <1>5, <1>7 DEF SetterOK
<1>9. \A d \in Clients : SetterOK(d)'
  BY <1>1, <1>6, <1>8, SetterKept DEF OpIs, KeyInv
<1>10. KeyOK'
  <2>1. \A r \in Revs : log[r].item # 0 => log[r].item \in Revs
    BY LeadsToRevs
  <2>2. \A l \in Keys : /\ tree_map[l] # None => tree_map[l] \in Revs
                        /\ prefix_map[l] # None => prefix_map[l] \in Revs
    BY LeadsToRevs
  <2>3. \A r \in Revs : IF log'[r].item = 0 THEN log'[r].key = None
                        ELSE log'[r].key \in Keys /\ log'[log'[r].item].key = log'[r].key
    BY <1>5, <2>1 DEF KeyInv, KeyOK
  <2>4. ASSUME NEW l \in Keys
        PROVE  /\ tree_map'[l] # None => log'[tree_map'[l]].key = l /\ prefix_map'[l] # None
               /\ prefix_map'[l] # None => log'[prefix_map'[l]].key = l
    <3>1. tree_map[l] # None => log'[tree_map[l]].key = l /\ prefix_map'[l] # None
      BY <1>4, <1>5, <2>2 DEF KeyInv, KeyOK
    <3>2. prefix_map'[l] # None => log'[prefix_map'[l]].key = l
      BY <1>4, <1>5, <1>7, <2>2 DEF KeyInv, KeyOK
    <3> QED
      BY <1>1, <3>1, <3>2
  <2> QED
    BY <2>3, <2>4 DEF KeyOK
<1>11. \A d \in Clients, r \in Revs : Creating(d, r) => Creating(d, r)'
  BY <1>1 DEF Creating, OpIs
<1>12. ListedOK'
  BY <1>1, <1>5, <1>11 DEF KeyInv, ListedOK
<1> QED
  BY <1>6, <1>9, <1>10, <1>12 DEF KeyInv

LEMMA CreateTreeKeys ==
  ASSUME BaseInv, LockInv, KeyInv, NEW c \in Clients, CreateTree(c)
  PROVE  KeyInv' /\ KeysKept
<1> USE DEF BaseInv
<1>1. /\ OpIs(c, op'[c]) /\ op[c].at = "prefixed" /\ op'[c].at = "done"
      /\ op[c].rev \in Revs /\ op[c].req \in SetRequests
      /\ UNCHANGED <<prefix_map, log>>
  BY CreateTreeFacts
<1>2. PICK k \in Keys, rev \in Revs : k = op[c].req.key /\ rev = op[c].rev
  BY <1>1 DEF SetRequests
<1>3. tree_map' = [tree_map EXCEPT ![k] = rev]
  BY <1>2, CreateTreeFacts
<1>4. /\ tree_map'[k] = rev /\ rev # None
      /\ \A l \in Keys : l # k => tree_map'[l] = tree_map[l]
  BY <1>3, StoreClientsAssumption DEF TypeOK, Revs
<1>5. KeysKept
  BY <1>1, <1>4 DEF KeysKept
<1>6. log[rev].key = k /\ prefix_map[k] # None
  BY <1>1, <1>2 DEF KeyInv, SetterOK
<1>7. SetterOK(c)'
  BY <1>1 DEF SetterOK
<1>8. \A d \in Clients : SetterOK(d)'
  BY <1>1, <1>5, <1>7, SetterKept DEF OpIs, KeyInv
<1>9. KeyOK'
  BY <1>1, <1>4, <1>6 DEF KeyInv, KeyOK
<1>10. ListedOK'
  <2> SUFFICES ASSUME NEW r \in Revs, log[r].item # 0, tree_map'[log[r].key] = None
               PROVE  \E d \in Clients : Creating(d, r)'
    BY <1>1 DEF ListedOK
  <2>1. log[r].key \in Keys
    BY DEF KeyInv, KeyOK
  <2>2. log[r].key # k /\ tree_map[log[r].key] = None
    BY <1>4, <2>1
  <2>3. PICK d \in Clients : Creating(d, r)
    BY <2>2 DEF KeyInv, ListedOK
  <2>4. d # c
    BY <1>2, <1>6, <2>2, <2>3 DEF Creating
  <2>5. op'[d] = op[d]
    BY <1>1, <2>4 DEF OpIs
  <2> QED
    BY <2>3, <2>5 DEF Creating
<1> QED
  BY <1>5, <1>8, <1>9, <1>10 DEF KeyInv

(* A push: the new revision is of the key that the set is about. *)
LEMMA PushKeys ==
  ASSUME BaseInv, LockInv, KeyInv, NEW c \in Clients, SetPush(c) \/ CreatePush(c)
  PROVE  KeyInv' /\ KeysKept
<1> USE DEF BaseInv
<1>1. PICK i :
        /\ Pushed(c, i) /\ OpIs(c, op'[c])
        /\ op'[c].at \in {"pushed", "created"} /\ op'[c].req = op[c].req
        /\ op'[c].rev = Assigned + 1 /\ op[c].req \in SetRequests
        /\ op[c].at \in {"found", "create"}
        /\ op'[c].at = "pushed" => op[c].at = "found" /\ i = op[c].item /\ op'[c].item = i
        /\ op'[c].at = "created" => i = Assigned + 1
        /\ UNCHANGED <<tree_map, prefix_map>>
  <2>1. CASE SetPush(c)
    BY <2>1, SetPushFacts
  <2>2. CASE CreatePush(c)
    BY <2>2, CreatePushFacts
  <2> QED
    BY <2>1, <2>2
<1>2. PICK n \in Revs : n = Assigned + 1
  BY <1>1 DEF Pushed
<1>3. PICK k \in Keys : k = op[c].req.key
  BY <1>1 DEF SetRequests
<1>4. /\ \A r \in Revs : r # n => log'[r] = log[r]
      /\ log'[n].key = k /\ log'[n].item = i
  BY <1>1, <1>2, <1>3 DEF Pushed
<1>5. \A r \in Revs : r <= Assigned => r # n /\ log'[r] = log[r]
  BY <1>2, <1>4 DEF CountInv, Revs
<1>6. KeysKept
  BY <1>1, <1>5 DEF KeysKept
<1>7. /\ op[c].at = "found" => log[op[c].item].key = k /\ tree_map[k] # None
                               /\ op[c].item \in Revs /\ op[c].item <= Assigned
  BY <1>3, LeadsToRevs DEF KeyInv, SetterOK
<1>8. i \in Revs /\ i # 0 /\ log'[i].key = k
  <2>1. CASE op'[c].at = "pushed"
    BY <1>1, <1>5, <1>7, <2>1 DEF Revs
  <2>2. CASE op'[c].at = "created"
    BY <1>1, <1>2, <1>4, <2>2 DEF Revs
  <2> QED
    BY <1>1, <2>1, <2>2
<1>9. SetterOK(c)'
  BY <1>1, <1>2, <1>3, <1>4, <1>7, <1>8 DEF SetterOK
<1>10. \A d \in Clients : SetterOK(d)'
  BY <1>1, <1>6, <1>9, SetterKept DEF OpIs, KeyInv
<1>11. KeyOK'
  <2>1. ASSUME NEW r \in Revs
        PROVE  IF log'[r].item = 0 THEN log'[r].key = None
               ELSE log'[r].key \in Keys /\ log'[log'[r].item].key = log'[r].key
    <3>1. CASE r = n
      BY <1>4, <1>8, <3>1
    <3>2. CASE r # n
      <4>1. log'[r] = log[r]
        BY <1>4, <3>2
      <4>2. log[r].item # 0 => log'[log[r].item] = log[log[r].item]
        BY <1>5, LeadsToRevs
      <4> QED
        BY <4>1, <4>2 DEF KeyInv, KeyOK
    <3> QED
      BY <3>1, <3>2
  <2>2. ASSUME NEW l \in Keys
        PROVE  /\ tree_map'[l] # None => log'[tree_map'[l]].key = l /\ prefix_map'[l] # None
               /\ prefix_map'[l] # None => log'[prefix_map'[l]].key = l
    <3>1. /\ tree_map[l] # None => log'[tree_map[l]] = log[tree_map[l]]
          /\ prefix_map[l] # None => log'[prefix_map[l]] = log[prefix_map[l]]
      BY <1>5, LeadsToRevs
    <3> QED
      BY <1>1, <3>1 DEF KeyInv, KeyOK
  <2> QED
    BY <2>1, <2>2 DEF KeyOK
<1>12. ListedOK'
  <2> SUFFICES ASSUME NEW r \in Revs, log'[r].item # 0, tree_map[log'[r].key] = None
               PROVE  \E d \in Clients : Creating(d, r)'
    BY <1>1 DEF ListedOK
  <2>1. CASE r = n
    <3>1. op'[c].at = "created"
      BY <1>1, <1>4, <1>7, <2>1
    <3> QED
      BY <1>1, <1>2, <2>1, <3>1 DEF Creating
  <2>2. CASE r # n
    <3>1. log'[r] = log[r]
      BY <1>4, <2>2
    <3>2. PICK d \in Clients : Creating(d, r)
      BY <3>1 DEF KeyInv, ListedOK
    <3>3. op'[d] = op[d]
      BY <1>1, <3>2 DEF Creating, OpIs
    <3> QED
      BY <3>2, <3>3 DEF Creating
  <2> QED
    BY <2>1, <2>2
<1> QED
  BY <1>6, <1>10, <1>11, <1>12 DEF KeyInv

LEMMA KeyCases ==
  ASSUME BaseInv, LockInv, KeyInv, NEW c \in Clients,
         \/ QuietStep(c)
         \/ SetPush(c)
         \/ CreatePush(c)
         \/ SetStore(c)
         \/ CreatePrefix(c)
         \/ CreateTree(c)
         \/ CompactFacts(c)
  PROVE  KeyInv' /\ KeysKept
BY QuietKeys, PushKeys, SetStoreKeys, CreatePrefixKeys, CreateTreeKeys, CompactKeys

LEMMA KeyInit == Init => KeyInv
<1> SUFFICES ASSUME Init PROVE KeyInv
  OBVIOUS
<1>1. \A r \in Revs : log[r].key = None /\ log[r].item = 0
  BY DEF Init
<1>2. \A k \in Keys : tree_map[k] = None /\ prefix_map[k] = None
  BY DEF Init
<1>3. \A c \in Clients : op[c].at = "idle"
  BY DEF Init, Idle
<1> QED
  BY <1>1, <1>2, <1>3 DEF KeyInv, KeyOK, SetterOK, ListedOK

LEMMA KeyStep == BaseInv /\ LockInv /\ KeyInv /\ [Next]_vars => KeyInv'
<1> SUFFICES ASSUME BaseInv, LockInv, KeyInv, [Next]_vars PROVE KeyInv'
  OBVIOUS
<1>1. CASE UNCHANGED vars
  <2>1. UNCHANGED <<tree_map, prefix_map, log, op>>
    BY <1>1 DEF vars, storeVars
  <2> QED
    BY <2>1 DEF KeyInv, KeyOK, SetterOK, ListedOK, Creating
<1>2. CASE Next
  BY <1>2, NextCases, KeyCases
<1> QED
  BY <1>1, <1>2

LEMMA KeysCorrect == Spec => []KeyInv
BY TypeCorrect, LocksOrder, KeyInit, KeyStep, PTL DEF Spec

-------------------------------------------------------------------------------
(***************************************************************************)
(* What a call owes to the answers before it, and that it pays.            *)
(***************************************************************************)
(* All revisions of k are of one item. *)
OneItem(k) == \A q, r \in Revs : log[q].key = k /\ log[r].key = k => log[q].item = log[r].item

(* NotOlder, of values that have been set. *)
Shows(k, r, s) ==
  \/ r >= s
  \/ /\ r = 0
     /\ \E d \in Revs : /\ log[d].key = k /\ d >= s /\ log[d].item # 0
                        /\ Published(d) /\ ~log[d].value.live

(* c's set has its revision. *)
Wrote(c) == \/ op[c].at \in {"pushed", "created", "prefixed"}
            \/ op[c].at = "done" /\ op[c].req.kind = "set" /\ op[c].result = "ok"

(* The revision that c's header is going to name. *)
Named(c) == IF Wrote(c) THEN op[c].rev ELSE op[c].latest_rev

(* The revision s of k that c owes was answered before c began: set finds
   its key, and the revision c has loaded, or made, is no older. *)
Owed(c, k, s) ==
  /\ s \in Revs /\ log[s].key = k /\ tree_map[k] # None
  /\ op[c].req.kind = "range" => op[c].req.rev = 0
  /\ op[c].at = "begun" => s <= op[c].len + op[c].offset /\ op[c].len + op[c].offset <= Assigned
  /\ op[c].at = "scan" => op[c].reached
  /\ op[c].at # "begun" => s <= Named(c)

(* What the answers show. *)
SetPays(c) ==
  op[c].result = "err" /\ OneItem(op[c].req.key) =>
    Shows(op[c].req.key, op[c].rev, op[c].seen[op[c].req.key])

RangePays(c) ==
  op[c].result = "ok" /\ op[c].req.limit = Unlimited =>
    \A k \in op[c].req.keys : OneItem(k) /\ op[c].seen[k] > start_offset =>
      Shows(k, op[c].got[k], op[c].seen[k])

Pays(c) ==
  /\ op[c].req.kind = "set" => op[c].req \in SetRequests /\ SetPays(c)
  /\ op[c].req.kind = "range" => op[c].req \in RangeRequests /\ RangePays(c)

SeenOK(c) ==
  /\ \A k \in Keys : op[c].seen[k] # 0 => Owed(c, k, op[c].seen[k])
  /\ op[c].req.kind = "compact" => op[c].seen = NoKeys
  /\ op[c].at = "done" => Pays(c)

SeenInv == \A c \in Clients : SeenOK(c)

(* An item is for good: two items of a key stay two. *)
LEMMA OneItemBefore ==
  ASSUME BaseInv, LockInv, KeyInv, KeysKept, NEW k \in Keys, OneItem(k)'
  PROVE  OneItem(k)
<1> SUFFICES ASSUME NEW q \in Revs, NEW r \in Revs, log[q].key = k, log[r].key = k
             PROVE  log[q].item = log[r].item
  BY DEF OneItem
<1>1. k # None
  BY StoreKeysAssumption, StoreClientsAssumption
<1>2. log[q].item # 0 /\ log[r].item # 0
  BY <1>1 DEF KeyInv, KeyOK
<1>3. q <= Assigned /\ r <= Assigned
  BY <1>2, LeadsToRevs
<1>4. /\ log'[q].key = k /\ log'[q].item = log[q].item
      /\ log'[r].key = k /\ log'[r].item = log[r].item
  BY <1>3 DEF KeysKept
<1> QED
  BY <1>4 DEF OneItem

LEMMA ShowsKept ==
  ASSUME LogGrows, NEW k, NEW r, NEW s, Shows(k, r, s)
  PROVE  Shows(k, r, s)'
<1>1. CASE r >= s
  BY <1>1 DEF Shows
<1>2. CASE r = 0 /\ \E d \in Revs : /\ log[d].key = k /\ d >= s /\ log[d].item # 0
                                    /\ Published(d) /\ ~log[d].value.live
  <2>1. PICK d \in Revs : /\ log[d].key = k /\ d >= s /\ log[d].item # 0
                          /\ Published(d) /\ ~log[d].value.live
    BY <1>2
  <2>2. log'[d] = log[d]
    BY <2>1 DEF LogGrows
  <2>3. Published(d)'
    BY <2>1, <2>2 DEF Published
  <2> QED
    BY <1>2, <2>1, <2>2, <2>3 DEF Shows
<1> QED
  BY <1>1, <1>2 DEF Shows

(* A client that does not move owes and pays what it did. *)
LEMMA PaysKept ==
  ASSUME BaseInv, LockInv, KeyInv, KeysKept, LogGrows, NEW d \in Clients, op'[d] = op[d],
         Pays(d)
  PROVE  Pays(d)'
<1> USE DEF BaseInv
<1>1. PICK o \in Op : o = op[d] /\ o = op'[d]
  BY DEF TypeOK
<1>2. o.seen \in [Keys -> Nat] /\ o.got \in [Keys -> Nat]
  BY DEF Op
<1>3. ASSUME o.req.kind = "set" PROVE SetPays(d)'
  <2>1. o.req \in SetRequests /\ SetPays(d)
    BY <1>1, <1>3 DEF Pays
  <2>2. PICK k \in Keys, rev \in Nat, s \in Nat : k = o.req.key /\ rev = o.rev /\ s = o.seen[k]
    BY <1>2, <2>1 DEF SetRequests, Op
  <2>3. o.result = "err" /\ OneItem(k) => Shows(k, rev, s)
    BY <1>1, <2>1, <2>2 DEF SetPays
  <2>4. o.result = "err" /\ OneItem(k)' => Shows(k, rev, s)'
    BY <2>3, OneItemBefore, ShowsKept
  <2>6. OneItem(o.req.key)' => OneItem(k)'
    BY <2>2 DEF OneItem
  <2>7. Shows(k, rev, s)' => Shows(o.req.key, o.rev, o.seen[o.req.key])'
    BY <2>2 DEF Shows
  <2> QED
    BY <1>1, <2>2, <2>4, <2>6, <2>7 DEF SetPays
<1>4. ASSUME o.req.kind = "range" PROVE RangePays(d)'
  <2>1. o.req \in RangeRequests /\ RangePays(d)
    BY <1>1, <1>4 DEF Pays
  <2> SUFFICES ASSUME o.result = "ok", o.req.limit = Unlimited, NEW k \in o.req.keys,
                      OneItem(k)', o.seen[k] > start_offset'
               PROVE  Shows(k, o.got[k], o.seen[k])'
    BY <1>1 DEF RangePays
  <2>2. k \in Keys
    BY <2>1 DEF RangeRequests
  <2>3. PICK g \in Nat, s \in Nat : g = o.got[k] /\ s = o.seen[k]
    BY <1>2, <2>2
  <2>4. s > start_offset
    BY <2>3 DEF LogGrows, TypeOK
  <2>5. Shows(k, g, s)
    BY <1>1, <2>1, <2>2, <2>3, <2>4, OneItemBefore DEF RangePays
  <2>6. Shows(k, g, s)'
    BY <2>5, ShowsKept
  <2> QED
    BY <2>3, <2>6
<1> QED
  BY <1>1, <1>3, <1>4 DEF Pays

LEMMA SeenKept ==
  ASSUME BaseInv, LockInv, KeyInv, KeysKept, LogGrows, NEW d \in Clients, op'[d] = op[d],
         SeenOK(d)
  PROVE  SeenOK(d)'
<1> USE DEF BaseInv
<1>1. PICK o \in Op : o = op[d] /\ o = op'[d]
  BY DEF TypeOK
<1>2. o.seen \in [Keys -> Nat] /\ o.len \in Nat /\ o.offset \in Nat
  BY DEF Op
<1>3. ASSUME NEW k \in Keys, o.seen[k] # 0
      PROVE  Owed(d, k, o.seen[k])'
  <2>1. PICK s \in Nat : s = o.seen[k]
    BY <1>2
  <2>2. Owed(d, k, s)
    BY <1>1, <1>3, <2>1 DEF SeenOK
  <2>3. s \in Revs /\ log[s].key = k /\ k # None
    BY <2>2, StoreKeysAssumption, StoreClientsAssumption DEF Owed
  <2>4. s <= Assigned
    BY <2>3, LeadsToRevs DEF KeyInv, KeyOK
  <2>5. log'[s].key = k /\ tree_map'[k] # None
    BY <2>2, <2>3, <2>4 DEF Owed, KeysKept
  <2>6. o.len + o.offset <= Assigned => o.len + o.offset <= Assigned'
    BY <1>2 DEF LogGrows, CountInv
  <2>7. Owed(d, k, s)'
    BY <1>1, <2>2, <2>3, <2>5, <2>6 DEF Owed, Named, Wrote
  <2> QED
    BY <2>1, <2>7
<1>4. o.at = "done" => Pays(d)'
  BY <1>1, PaysKept DEF SeenOK
<1> QED
  BY <1>1, <1>3, <1>4 DEF SeenOK

(* A request's kind tells what it asks. *)
LEMMA KindTells ==
  ASSUME NEW req \in Requested
  PROVE  /\ req.kind = "set" => req \in SetRequests
         /\ req.kind = "range" => req \in RangeRequests
BY DEF Requested, SetRequests, RangeRequests, CompactRequests, RevisionRequest

(* A client that owes nothing has paid. *)
LEMMA NothingOwed ==
  ASSUME BaseInv', NEW c \in Clients, op'[c].seen = NoKeys, op'[c].req \in Requested
  PROVE  SeenOK(c)'
<1> USE DEF BaseInv
<1>1. \A k \in Keys : op'[c].seen[k] = 0
  BY DEF NoKeys
<1>2. op'[c].rev \in Nat /\ op'[c].got \in [Keys -> Nat] /\ start_offset' \in Nat
  BY DEF TypeOK, Op
<1>3. ASSUME op'[c].req \in SetRequests PROVE SetPays(c)'
  <2>1. op'[c].req.key \in Keys
    BY <1>3 DEF SetRequests
  <2>2. Shows(op[c].req.key, op[c].rev, op[c].seen[op[c].req.key])'
    BY <1>1, <1>2, <2>1 DEF Shows
  <2> QED
    BY <2>2 DEF SetPays
<1>4. ASSUME op'[c].req \in RangeRequests PROVE RangePays(c)'
  <2>1. \A k \in op'[c].req.keys : ~(op'[c].seen[k] > start_offset')
    BY <1>1, <1>2, <1>4 DEF RangeRequests
  <2> QED
    BY <2>1 DEF RangePays
<1>5. Pays(c)'
  BY <1>3, <1>4, KindTells DEF Pays
<1> QED
  BY <1>1, <1>5 DEF SeenOK

(* The first load: what is owed has been answered, so that set finds its
   key, and it is below the revision that is loaded. *)
LEMMA BeginOwes ==
  ASSUME BaseInv, LockInv, KeyInv, NEW c \in Clients, NEW req \in Requests, Begin(c, req)
  PROVE  SeenOK(c)'
<1> USE DEF BaseInv
<1>1. /\ op'[c].at = "begun" /\ op'[c].req = req /\ req \in Requested
  BY BeginFacts
<1>2. op'[c].seen = Seen(req) /\ op'[c].len = length /\ op'[c].offset = start_offset
  BY BeginSeen
<1>3. UNCHANGED <<tree_map, prefix_map, start_offset, length, removing, log>>
  BY DEF Begin, storeVars
<1>4. ASSUME NEW k \in Keys, op'[c].seen[k] # 0
      PROVE  Owed(c, k, op[c].seen[k])'
  <2>1. PICK s : s = op'[c].seen[k]
    OBVIOUS
  <2>2. s = IF removing = None /\ k \in SpokenOf(req) THEN Answered(k) ELSE 0
    BY <1>2, <2>1 DEF Seen
  <2>3. removing = None /\ k \in SpokenOf(req) /\ s = Answered(k) /\ s # 0
    BY <1>4, <2>1, <2>2
  <2>4. PICK T : T = {r \in Revs : log[r].key = k /\ r \notin Unanswered} \union {0}
    OBVIOUS
  <2>5. T \subseteq 0 .. MaxRev /\ T # {} /\ MaxRev \in Nat
    BY <2>4, StoreMaxRevAssumption DEF Revs
  <2>6. s \in T
    BY <2>3, <2>4, <2>5, MaxType DEF Answered
  <2>7. s \in Revs /\ log[s].key = k /\ s \notin Unanswered
    BY <2>3, <2>4, <2>6
  <2>8. k # None
    BY StoreKeysAssumption, StoreClientsAssumption
  <2>9. log[s].item # 0
    BY <2>7, <2>8 DEF KeyInv, KeyOK
  <2>10. s <= Assigned
    BY <2>7, <2>9, LeadsToRevs
  <2>11. Assigned = length + start_offset
    BY <2>3 DEF Assigned, TypeOK
  <2>12. Assigned' = Assigned
    BY <1>3 DEF Assigned
  <2>13. tree_map[k] # None
    <3>1. ASSUME NEW d \in Clients, Creating(d, s) PROVE FALSE
      BY <2>7, <3>1 DEF Creating, Unanswered
    <3> QED
      BY <2>7, <2>9, <3>1 DEF KeyInv, ListedOK
  <2>14. req.kind = "range" => req.rev = 0
    <3> SUFFICES ASSUME req.kind = "range" PROVE req.rev = 0
      OBVIOUS
    <3>1. SpokenOf(req) = IF req.rev = 0 THEN req.keys ELSE {}
      BY DEF SpokenOf
    <3> QED
      BY <2>3, <3>1
  <2>15. length + start_offset \in Nat
    BY DEF TypeOK
  <2>16. Owed(c, k, s)'
    BY <1>1, <1>2, <1>3, <2>7, <2>10, <2>11, <2>12, <2>13, <2>14, <2>15 DEF Owed, CountInv
  <2> QED
    BY <2>1, <2>16
<1>5. ASSUME req.kind = "compact" PROVE op'[c].seen = NoKeys
  <2>1. SpokenOf(req) = {}
    BY <1>5 DEF SpokenOf
  <2> QED
    BY <1>2, <2>1 DEF Seen, NoKeys
<1> QED
  BY <1>1, <1>4, <1>5 DEF SeenOK

(* The second load. *)
LEMMA LoadOwes ==
  ASSUME BaseInv, BaseInv', NEW c \in Clients, SeenOK(c), LoadSeen(c), op[c].at = "begun",
         op'[c].req = op[c].req, UNCHANGED storeVars, op'[c].at # "begun", ~Wrote(c)',
         op'[c].at = "scan" => op[c].req.kind = "range",
         op'[c].at = "scan" /\ op[c].req.rev = 0 =>
           (op'[c].reached <=> op'[c].latest_rev <= Assigned),
         NEW k \in Keys, op'[c].seen[k] # 0
  PROVE  Owed(c, k, op[c].seen[k])' /\ op'[c].seen = op[c].seen
<1> USE DEF BaseInv
<1>1. op[c].offset = start_offset /\ op'[c].seen = op[c].seen
  BY DEF LoadSeen, NoKeys
<1>2. PICK s \in Nat : s = op[c].seen[k] /\ s = op'[c].seen[k]
  BY <1>1 DEF TypeOK, Op
<1>3. Owed(c, k, s)
  BY <1>2 DEF SeenOK
<1>4. op'[c].latest_rev = op[c].len + op[c].offset
  BY <1>1 DEF LoadSeen
<1>5. UNCHANGED <<tree_map, prefix_map, start_offset, length, removing, log>>
  BY DEF storeVars
<1>6. s <= op'[c].latest_rev /\ op'[c].latest_rev <= Assigned
  BY <1>3, <1>4 DEF Owed
<1>7. op'[c].at = "scan" => op'[c].reached
  BY <1>3, <1>6 DEF Owed
<1>8. Owed(c, k, s)'
  BY <1>3, <1>5, <1>6, <1>7 DEF Owed, Named
<1> QED
  BY <1>1, <1>2, <1>8

LEMMA ReadRevisionPays ==
  ASSUME BaseInv, BaseInv', NEW c \in Clients, SeenOK(c), ReadRevision(c)
  PROVE  SeenOK(c)'
<1> USE DEF BaseInv
<1>1. op[c].at = "begun" /\ op[c].req.kind = "revision" /\ UNCHANGED storeVars
  BY DEF ReadRevision
<1>2. op'[c].at = "done" /\ op'[c].req = op[c].req
  BY ReadRevisionFacts
<1>3. LoadSeen(c)
  BY ReadRevisionSeen
<1>6. ~Wrote(c)'
  BY <1>1, <1>2 DEF Wrote
<1>4. \A k \in Keys : op'[c].seen[k] # 0 => Owed(c, k, op[c].seen[k])'
  BY <1>1, <1>2, <1>3, <1>6, LoadOwes
<1>5. Pays(c)'
  BY <1>1, <1>2 DEF Pays
<1> QED
  BY <1>1, <1>2, <1>4, <1>5 DEF SeenOK

LEMMA SetLookupPays ==
  ASSUME BaseInv, BaseInv', NEW c \in Clients, SeenOK(c), SetLookup(c)
  PROVE  SeenOK(c)'
<1> USE DEF BaseInv
<1>1. op[c].at = "begun" /\ UNCHANGED storeVars
  BY DEF SetLookup
<1>2. /\ op'[c].req = op[c].req /\ op[c].req \in SetRequests
      /\ op'[c].at = IF tree_map[op[c].req.key] # None THEN "found"
                     ELSE IF NeedsItem(op[c].req) THEN "done" ELSE "create"
      /\ op'[c].at = "done" => op'[c].result = "err"
      /\ op'[c].rev = 0
  BY SetLookupFacts
<1>3. LoadSeen(c)
  BY SetLookupSeen
<1>4. op'[c].at \in {"found", "done", "create"} /\ op[c].req.kind = "set"
  BY <1>2 DEF SetRequests
<1>7. ~Wrote(c)'
  BY <1>2, <1>4 DEF Wrote
<1>5. ASSUME NEW k \in Keys, op'[c].seen[k] # 0
      PROVE  Owed(c, k, op[c].seen[k])'
  BY <1>1, <1>2, <1>3, <1>4, <1>5, <1>7, LoadOwes
<1>6. ASSUME op'[c].at = "done" PROVE Pays(c)'
  <2>1. PICK k \in Keys : k = op[c].req.key
    BY <1>2 DEF SetRequests
  <2>2. tree_map'[k] = None
    BY <1>1, <1>2, <1>6, <2>1 DEF storeVars
  <2>3. op'[c].seen[k] = 0
    BY <1>5, <2>2 DEF Owed
  <2>4. Shows(op[c].req.key, op[c].rev, op[c].seen[op[c].req.key])'
    BY <1>2, <2>1, <2>3 DEF Shows
  <2>5. SetPays(c)'
    BY <1>2, <1>6, <2>4 DEF SetPays
  <2> QED
    BY <1>2, <1>4, <2>5 DEF Pays
<1> QED
  BY <1>2, <1>4, <1>5, <1>6 DEF SeenOK

LEMMA RangeLookupPays ==
  ASSUME BaseInv, BaseInv', NEW c \in Clients, SeenOK(c), RangeLookup(c)
  PROVE  SeenOK(c)'
<1> USE DEF BaseInv
<1>1. op[c].at = "begun" /\ op[c].req.kind = "range" /\ UNCHANGED storeVars
  BY DEF RangeLookup
<1>2. /\ op'[c].at \in {"scan", "done"} /\ op'[c].req = op[c].req /\ op[c].req \in RangeRequests
      /\ op'[c].reached <=> RangeRevision(op'[c]) <= Assigned
  BY RangeLookupFacts DEF CountInv
<1>3. LoadSeen(c) /\ (op'[c].at = "done" => op'[c].result # "ok")
  BY RangeLookupSeen
<1>4. op[c].req.rev = 0 => (op'[c].reached <=> op'[c].latest_rev <= Assigned)
  BY <1>2 DEF RangeRevision
<1>7. ~Wrote(c)'
  BY <1>1, <1>2 DEF Wrote
<1>5. \A k \in Keys : op'[c].seen[k] # 0 => Owed(c, k, op[c].seen[k])'
  BY <1>1, <1>2, <1>3, <1>4, <1>7, LoadOwes
<1>6. op'[c].at = "done" => Pays(c)'
  BY <1>1, <1>2, <1>3 DEF Pays, RangePays
<1> QED
  BY <1>1, <1>2, <1>5, <1>6 DEF SeenOK

(* Where neither the revision nor the history of a request changes. *)
LEMMA KeepOwes ==
  ASSUME BaseInv, BaseInv', NEW c \in Clients, SeenOK(c), KeepSeen(c), op[c].at # "begun",
         op'[c].at # "begun", ~Wrote(c), ~Wrote(c)',
         op'[c].req = op[c].req, UNCHANGED storeVars,
         op'[c].at = "scan" => op[c].at = "scan" /\ op'[c].reached = op[c].reached,
         op'[c].at = "done" => Pays(c)'
  PROVE  SeenOK(c)'
<1> USE DEF BaseInv
<1>1. op'[c].seen = op[c].seen /\ op'[c].latest_rev = op[c].latest_rev
  BY DEF KeepSeen
<1>2. UNCHANGED <<tree_map, log>>
  BY DEF storeVars
<1>3. ASSUME NEW k \in Keys, op'[c].seen[k] # 0
      PROVE  Owed(c, k, op[c].seen[k])'
  <2>1. PICK s : s = op[c].seen[k] /\ s = op'[c].seen[k]
    BY <1>1
  <2>2. Owed(c, k, s)
    BY <1>3, <2>1 DEF SeenOK
  <2>3. Owed(c, k, s)'
    BY <1>1, <1>2, <2>2 DEF Owed, Named
  <2> QED
    BY <2>1, <2>3
<1> QED
  BY <1>1, <1>3 DEF SeenOK

(* All revisions of an item's key are the item's, if it is the only one. *)
LEMMA OnlyItem ==
  ASSUME BaseInv, LockInv, KeyInv, NEW k \in Keys, OneItem(k), NEW i \in Revs, Known(i),
         log[i].key = k, NEW s \in Revs, log[s].key = k
  PROVE  log[s].item = i
<1>1. PICK m \in Revs : log[m].item = i
  BY KnownFacts
<1>2. i # 0
  BY DEF Revs
<1>3. log[m].key = k
  BY <1>1, <1>2 DEF KeyInv, KeyOK
<1> QED
  BY <1>1, <1>3 DEF OneItem

(* A set that is refused under the item's lock: what it shows is the item's
   newest revision, so none that was answered is newer. *)
LEMMA SetRefusedPays ==
  ASSUME BaseInv, BaseInv', LockInv, KeyInv, NEW c \in Clients, SeenOK(c), SetRefused(c)
  PROVE  SeenOK(c)'
<1> USE DEF BaseInv
<1>1. op[c].at = "found" /\ items[op[c].item].writer = None /\ UNCHANGED storeVars
  BY DEF SetRefused
<1>2. op[c].req \in SetRequests /\ op[c].item \in Revs /\ Known(op[c].item)
  BY <1>1 DEF TypeOK, OpFits, LockInv, FlightOK
<1>3. PICK i \in Revs, k \in Keys : i = op[c].item /\ k = op[c].req.key
  BY <1>2 DEF SetRequests
<1>4. PICK v \in Value : v = items[i].latest_value
  BY DEF TypeOK, Item
<1>5. /\ op'[c].at = "done" /\ op'[c].req = op[c].req /\ op'[c].result = "err"
      /\ op'[c].rev = IF v.live THEN v.mod_revision ELSE 0
  BY <1>3, <1>4, SetRefusedFacts
<1>6. KeepSeen(c)
  BY SetRefusedSeen
<1>7. PICK s \in Nat : s = op[c].seen[k] /\ s = op'[c].seen[k]
  BY <1>6 DEF KeepSeen, TypeOK, Op
<1>8. PICK m \in Revs : /\ m = v.mod_revision /\ log[m].item = i /\ Published(m) /\ log[m].value = v
                        /\ \A q \in OfItem(i) : q <= m
  BY <1>1, <1>2, <1>3, <1>4, KnownFacts
<1>9. log[i].key = k /\ i # 0
  BY <1>1, <1>3 DEF KeyInv, SetterOK, Revs
<1>10. log[m].key = k
  BY <1>8, <1>9 DEF KeyInv, KeyOK
<1>11. ASSUME OneItem(k) PROVE s <= m
  <2>1. CASE s = 0
    BY <2>1 DEF Revs
  <2>2. CASE s # 0
    <3>1. s \in Revs /\ log[s].key = k
      BY <1>7, <2>2 DEF SeenOK, Owed
    <3>2. log[s].item = i
      <4>1. Known(i)
        BY <1>2, <1>3
      <4> QED
        BY <1>9, <1>11, <3>1, <4>1, OnlyItem
    <3> QED
      BY <1>8, <3>1, <3>2 DEF OfItem
  <2> QED
    BY <2>1, <2>2
<1>12. log' = log
  BY <1>1 DEF storeVars
<1>13. PICK rev : rev = op'[c].rev
  OBVIOUS
<1>14. OneItem(k)' => Shows(k, rev, s)'
  <2> SUFFICES ASSUME OneItem(k)' PROVE Shows(k, rev, s)'
    OBVIOUS
  <2>1. s <= m
    BY <1>11, <1>12 DEF OneItem
  <2>2. CASE v.live
    BY <1>5, <1>8, <1>13, <2>1, <2>2 DEF Shows, Revs
  <2>3. CASE ~v.live
    <3>1. Published(m)' /\ ~log'[m].value.live /\ log'[m].item # 0 /\ log'[m].key = k
      BY <1>8, <1>9, <1>10, <1>12, <2>3 DEF Published
    <3>2. m >= s
      BY <2>1 DEF Revs
    <3> QED
      BY <1>5, <1>13, <2>3, <3>1, <3>2 DEF Shows
  <2> QED
    BY <2>2, <2>3
<1>15. SetPays(c)'
  BY <1>3, <1>5, <1>7, <1>13, <1>14 DEF SetPays
<1>16. Pays(c)'
  BY <1>2, <1>5, <1>15 DEF Pays, SetRequests
<1>17. ~Wrote(c) /\ ~Wrote(c)'
  BY <1>1, <1>5 DEF Wrote
<1> QED
  BY <1>1, <1>5, <1>6, <1>16, <1>17, KeepOwes

(* A list that is done: of every key it owes it has read the item, at a
   revision that is no older than what it owes. *)
LEMMA RangeDonePays ==
  ASSUME BaseInv, BaseInv', LockInv, ReadInv, KeyInv, NEW c \in Clients, SeenOK(c), RangeDone(c)
  PROVE  SeenOK(c)'
<1> USE DEF BaseInv
<1>1. op[c].at = "scan" /\ op[c].left = {} /\ Finish(c, "ok") /\ UNCHANGED storeVars
  BY DEF RangeDone
<1>2. op'[c].at = "done" /\ op'[c].req = op[c].req
  BY <1>1, FinishFacts DEF Results
<1>3. KeepSeen(c) /\ op'[c].got = op[c].got
  BY <1>1, FinishSeen DEF KeepSeen
<1>4. op[c].req \in RangeRequests
  BY <1>1 DEF TypeOK, OpFits
<1>5. UNCHANGED <<start_offset, log>>
  BY <1>1 DEF storeVars
<1>6. ASSUME op[c].req.limit = Unlimited, NEW k \in op[c].req.keys, OneItem(k),
             op[c].seen[k] > start_offset
      PROVE  Shows(k, op[c].got[k], op[c].seen[k])
  <2>1. k \in Keys
    BY <1>4 DEF RangeRequests
  <2>2. PICK s \in Nat, g \in Nat : s = op[c].seen[k] /\ g = op[c].got[k]
    BY <2>1 DEF TypeOK, Op
  <2>3. s > start_offset /\ s # 0
    BY <1>6, <2>2 DEF TypeOK
  <2>4. Owed(c, k, s)
    BY <2>1, <2>2, <2>3 DEF SeenOK
  <2>5. /\ s \in Revs /\ log[s].key = k /\ tree_map[k] # None
        /\ op[c].reached /\ RangeRevision(op[c]) = op[c].latest_rev /\ s <= op[c].latest_rev
    BY <1>1, <1>4, <2>4 DEF Owed, Named, Wrote, RangeRevision, RangeRequests
  <2>6. prefix_map[k] # None /\ log[prefix_map[k]].key = k
    BY <2>1, <2>5 DEF KeyInv, KeyOK
  <2>7. PICK i \in Revs : i = prefix_map[k]
    BY <2>1, <2>6 DEF TypeOK
  <2>8. Known(i)
    BY <2>1, <2>6, <2>7 DEF LockInv, MapsOK
  <2>9. log[s].item = i
    BY <1>6, <2>1, <2>5, <2>6, <2>7, <2>8, OnlyItem
  <2>10. ReadOK(c, k)
    BY <1>1, <2>5, <2>6 DEF ReadInv, ScanInv, ScanReads
  <2>11. Cardinality(PageBelow(c, k)) # op[c].req.limit
    <3>1. PageBelow(c, k) \subseteq Keys
      BY DEF PageBelow
    <3>2. /\ Cardinality(PageBelow(c, k)) <= Cardinality(Keys)
          /\ Cardinality(PageBelow(c, k)) \in Nat /\ Cardinality(Keys) \in Nat
      BY <3>1, StoreKeysAssumption, FS_Subset, FS_CardinalityType
    <3> QED
      BY <1>6, <3>2 DEF Unlimited
  <2>12. PICK n \in 0 .. MaxRev :
           /\ IsNewest(i, op[c].latest_rev, n)
           /\ g = n \/ (g = 0 /\ (Deleted(n) \/ n <= start_offset))
    BY <2>2, <2>5, <2>7, <2>10, <2>11 DEF ReadOK
  <2>13. s <= n
    BY <2>5, <2>9, <2>12 DEF IsNewest
  <2>14. n # 0 /\ ~(n <= start_offset) /\ n >= s
    BY <2>3, <2>13, StoreMaxRevAssumption DEF TypeOK
  <2>15. n \in Revs /\ log[n].item = i /\ Published(n)
    BY <2>12, <2>14 DEF IsNewest
  <2>16. log[n].key = k /\ i # 0
    BY <2>6, <2>7, <2>15 DEF KeyInv, KeyOK, Revs
  <2>17. Shows(k, g, s)
    <3>1. CASE g = n
      BY <2>14, <3>1 DEF Shows
    <3>2. CASE g = 0 /\ Deleted(n)
      <4>1. ~log[n].value.live
        BY <2>14, <3>2 DEF Deleted
      <4> QED
        BY <2>14, <2>15, <2>16, <3>2, <4>1 DEF Shows
    <3> QED
      BY <2>12, <2>14, <3>1, <3>2
  <2> QED
    BY <2>2, <2>17
<1>7. RangePays(c)'
  <2> SUFFICES ASSUME op[c].req.limit = Unlimited, NEW k \in op[c].req.keys,
                      OneItem(k)', op[c].seen[k] > start_offset
               PROVE  Shows(k, op[c].got[k], op[c].seen[k])'
    BY <1>2, <1>3, <1>5 DEF RangePays, KeepSeen
  <2>1. OneItem(k)
    BY <1>5 DEF OneItem
  <2>2. PICK g, s : g = op[c].got[k] /\ s = op[c].seen[k] /\ g = op'[c].got[k] /\ s = op'[c].seen[k]
    BY <1>3 DEF KeepSeen
  <2>3. Shows(k, g, s)
    BY <1>6, <2>1, <2>2
  <2>4. Shows(k, g, s)'
    BY <1>5, <2>3 DEF Shows, Published
  <2> QED
    BY <2>2, <2>4
<1>8. Pays(c)'
  BY <1>2, <1>4, <1>7 DEF Pays, RangeRequests
<1>9. ~Wrote(c) /\ ~Wrote(c)'
  BY <1>1, <1>2, <1>4 DEF Wrote, RangeRequests
<1> QED
  BY <1>1, <1>2, <1>3, <1>8, <1>9, KeepOwes

LEMMA RangeSkipPays ==
  ASSUME BaseInv, BaseInv', NEW c \in Clients, SeenOK(c), RangeSkip(c)
  PROVE  SeenOK(c)'
<1> USE DEF BaseInv
<1>1. op[c].at = "scan" /\ UNCHANGED storeVars
  BY DEF RangeSkip
<1>2. op'[c].at = "scan" /\ op'[c].req = op[c].req /\ op'[c].reached = op[c].reached
  BY RangeSkipFacts
<1>3. KeepSeen(c)
  BY RangeSkipSeen
<1>4. ~Wrote(c) /\ ~Wrote(c)'
  BY <1>1, <1>2 DEF Wrote
<1> QED
  BY <1>1, <1>2, <1>3, <1>4, KeepOwes

LEMMA RangeItemPays ==
  ASSUME BaseInv, BaseInv', NEW c \in Clients, SeenOK(c), RangeItem(c)
  PROVE  SeenOK(c)'
<1> USE DEF BaseInv
<1>1. op[c].at = "scan" /\ UNCHANGED storeVars
  BY DEF RangeItem
<1>2. \A k \in Keys : IsNext(c, k) => Found(c, k).mod_revision \in Nat
  BY <1>1, FoundType DEF Value
<1>3. /\ op'[c].req = op[c].req
      /\ op'[c].at = "done" \/ (op'[c].at = "scan" /\ op'[c].reached = op[c].reached)
  BY <1>2, RangeItemFacts
<1>4. KeepSeen(c) /\ (op'[c].at = "done" => op'[c].result = "panic")
  BY RangeItemSeen
<1>5. op[c].req \in RangeRequests /\ op[c].req.kind = "range"
  BY <1>1 DEF TypeOK, OpFits, RangeRequests
<1>6. op'[c].at = "done" => Pays(c)'
  BY <1>3, <1>4, <1>5 DEF Pays, RangePays
<1>7. ~Wrote(c) /\ ~Wrote(c)'
  BY <1>1, <1>3, <1>5 DEF Wrote
<1> QED
  BY <1>1, <1>3, <1>4, <1>6, <1>7, KeepOwes

(* Where a set gets its revision or goes on with it: the revision is above
   all that was answered before it was made. *)
LEMMA WriteOwes ==
  ASSUME BaseInv, LockInv, KeyInv, KeysKept, NEW c \in Clients, SeenOK(c),
         op'[c].seen = op[c].seen, op'[c].req = op[c].req, op[c].req \in SetRequests,
         op[c].at # "begun", op'[c].at \in {"pushed", "created", "prefixed", "done"},
         op'[c].at = "done" => op'[c].result = "ok",
         \/ op'[c].rev = Assigned + 1
         \/ Wrote(c) /\ op'[c].rev = op[c].rev
  PROVE  SeenOK(c)'
<1> USE DEF BaseInv
<1>1. op[c].req.kind = "set" /\ op'[c].req.kind = "set"
  BY DEF SetRequests
<1>2. Wrote(c)'
  BY <1>1 DEF Wrote
<1>3. ASSUME NEW k \in Keys, op'[c].seen[k] # 0
      PROVE  Owed(c, k, op[c].seen[k])'
  <2>1. PICK s \in Nat : s = op[c].seen[k] /\ s = op'[c].seen[k]
    BY DEF TypeOK, Op
  <2>2. Owed(c, k, s)
    BY <1>3, <2>1 DEF SeenOK
  <2>3. s \in Revs /\ log[s].key = k /\ tree_map[k] # None /\ k # None
    BY <2>2, StoreKeysAssumption, StoreClientsAssumption DEF Owed
  <2>4. s <= Assigned
    BY <2>3, LeadsToRevs DEF KeyInv, KeyOK
  <2>5. log'[s].key = k /\ tree_map'[k] # None
    BY <2>3, <2>4 DEF KeysKept
  <2>6. Wrote(c) => s <= op[c].rev
    BY <2>2 DEF Owed, Named
  <2>7. s <= op'[c].rev
    BY <2>1, <2>4, <2>6 DEF CountInv
  <2>8. s <= Named(c)'
    BY <1>2, <2>7 DEF Named
  <2>9. Owed(c, k, s)'
    BY <1>1, <2>3, <2>5, <2>8 DEF Owed
  <2> QED
    BY <2>1, <2>9
<1>4. op'[c].at = "done" => Pays(c)'
  BY <1>1 DEF Pays, SetPays
<1> QED
  BY <1>1, <1>3, <1>4 DEF SeenOK

LEMMA WritePays ==
  ASSUME BaseInv, LockInv, KeyInv, NEW c \in Clients, SeenOK(c),
         \/ SetPush(c)
         \/ SetStore(c)
         \/ CreatePush(c)
         \/ CreatePrefix(c)
         \/ CreateTree(c)
  PROVE  SeenOK(c)'
<1> USE DEF BaseInv
<1>1. KeysKept
  BY KeyCases
<1>2. CASE SetPush(c)
  <2>1. op'[c].seen = op[c].seen
    BY <1>2, ProceedSeen DEF SetPush
  <2>2. /\ op[c].at = "found" /\ op'[c].at = "pushed" /\ op'[c].req = op[c].req
        /\ op[c].req \in SetRequests /\ op'[c].rev = Assigned + 1
    BY <1>2, SetPushFacts
  <2> QED
    BY <1>1, <2>1, <2>2, WriteOwes
<1>3. CASE SetStore(c)
  <2>1. op'[c].seen = op[c].seen
    BY <1>3, ProceedSeen DEF SetStore
  <2>2. /\ op[c].at = "pushed" /\ op'[c].at = "done" /\ op'[c].req = op[c].req
        /\ op[c].req \in SetRequests /\ op'[c].rev = op[c].rev /\ op'[c].result = "ok"
    BY <1>3, SetStoreFacts
  <2>3. Wrote(c)
    BY <2>2 DEF Wrote
  <2> QED
    BY <1>1, <2>1, <2>2, <2>3, WriteOwes
<1>4. CASE CreatePush(c)
  <2>1. op'[c].seen = op[c].seen
    BY <1>4, ProceedSeen DEF CreatePush
  <2>2. /\ op[c].at = "create" /\ op'[c].at = "created" /\ op'[c].req = op[c].req
        /\ op[c].req \in SetRequests /\ op'[c].rev = Assigned + 1
    BY <1>4, CreatePushFacts
  <2> QED
    BY <1>1, <2>1, <2>2, WriteOwes
<1>5. CASE CreatePrefix(c)
  <2>1. op'[c].seen = op[c].seen
    BY <1>5, CreatePrefixSeen DEF KeepSeen
  <2>2. /\ op[c].at = "created" /\ op'[c].at = "prefixed" /\ op'[c].req = op[c].req
        /\ op[c].req \in SetRequests /\ op'[c].rev = op[c].rev
    BY <1>5, CreatePrefixItem, CreatePrefixFacts
  <2>3. Wrote(c)
    BY <2>2 DEF Wrote
  <2> QED
    BY <1>1, <2>1, <2>2, <2>3, WriteOwes
<1>6. CASE CreateTree(c)
  <2>1. op'[c].seen = op[c].seen
    BY <1>6, ProceedSeen DEF CreateTree
  <2>2. /\ op[c].at = "prefixed" /\ op'[c].at = "done" /\ op'[c].req = op[c].req
        /\ op[c].req \in SetRequests /\ op'[c].rev = op[c].rev /\ op'[c].result = "ok"
    BY <1>6, CreateTreeFacts
  <2>3. Wrote(c)
    BY <2>2 DEF Wrote
  <2> QED
    BY <1>1, <2>1, <2>2, <2>3, WriteOwes
<1> QED
  BY <1>2, <1>3, <1>4, <1>5, <1>6

(* A compaction's answer speaks of no key. *)
LEMMA CompactPays ==
  ASSUME BaseInv, BaseInv', NEW c \in Clients, SeenOK(c), CompactStart(c) \/ CompactFinish(c)
  PROVE  SeenOK(c)'
<1> USE DEF BaseInv
<1>1. op'[c].req = op[c].req /\ op[c].req \in CompactRequests
  BY CompactStepFacts DEF CompactFacts
<1>2. op[c].seen = NoKeys
  BY <1>1 DEF SeenOK, CompactRequests
<1>3. op'[c].seen = op[c].seen
  <2>1. PICK at, result : Proceed(c, at, result, 0)
    BY DEF CompactStart, CompactFinish
  <2> QED
    BY <2>1, ProceedSeen
<1> QED
  BY <1>1, <1>2, <1>3, NothingOwed DEF Requested

LEMMA OwnSeen ==
  ASSUME BaseInv, BaseInv', LockInv, ReadInv, KeyInv, NEW c \in Clients, SeenOK(c),
         StoreStep(c) \/ \E req \in Requests : Begin(c, req)
  PROVE  SeenOK(c)'
<1>1. CASE Return(c)
  <2>1. op'[c] = Idle
    BY <1>1, ReturnFacts DEF OpIs, BaseInv
  <2>2. op'[c].at = "idle" /\ op'[c].seen = NoKeys
    BY <2>1 DEF Idle
  <2>3. \A k \in Keys : op'[c].seen[k] = 0
    BY <2>2 DEF NoKeys
  <2> QED
    BY <2>2, <2>3 DEF SeenOK
<1>2. CASE \E req \in Requests : Begin(c, req)
  BY <1>2, BeginOwes
<1>3. CASE ReadRevision(c) \/ SetLookup(c) \/ SetRefused(c)
  BY <1>3, ReadRevisionPays, SetLookupPays, SetRefusedPays
<1>4. CASE RangeLookup(c) \/ RangeSkip(c) \/ RangeItem(c) \/ RangeDone(c)
  BY <1>4, RangeLookupPays, RangeSkipPays, RangeItemPays, RangeDonePays
<1>5. CASE \/ SetPush(c) \/ SetStore(c) \/ CreatePush(c) \/ CreatePrefix(c) \/ CreateTree(c)
           \/ CompactStart(c) \/ CompactFinish(c)
  BY <1>5, WritePays, CompactPays
<1> QED
  BY <1>1, <1>2, <1>3, <1>4, <1>5 DEF StoreStep

LEMMA SeenInit == Init => SeenInv
<1> SUFFICES ASSUME Init, NEW c \in Clients PROVE SeenOK(c)
  BY DEF SeenInv
<1>1. op[c].at = "idle" /\ op[c].seen = NoKeys
  BY DEF Init, Idle
<1>2. \A k \in Keys : op[c].seen[k] = 0
  BY <1>1 DEF NoKeys
<1> QED
  BY <1>1, <1>2 DEF SeenOK

LEMMA SeenStep ==
  BaseInv /\ BaseInv' /\ LockInv /\ ReadInv /\ KeyInv /\ SeenInv /\ [Next]_vars => SeenInv'
<1> SUFFICES ASSUME BaseInv, BaseInv', LockInv, ReadInv, KeyInv, SeenInv, [Next]_vars,
                    NEW d \in Clients
             PROVE  SeenOK(d)'
  BY DEF SeenInv
<1>1. SeenOK(d)
  BY DEF SeenInv
<1>2. CASE UNCHANGED vars
  <2>1. UNCHANGED <<op, tree_map, prefix_map, log>>
    BY <1>2 DEF vars, storeVars
  <2>2. KeysKept
    BY <2>1 DEF KeysKept
  <2> QED
    BY <1>1, <1>2, <2>1, <2>2, StutterGrows, SeenKept
<1>3. CASE Next
  <2>1. PICK c \in Clients : StoreStep(c) \/ \E req \in Requests : Begin(c, req)
    BY <1>3 DEF Next
  <2>2. \/ QuietStep(c)
        \/ SetPush(c)
        \/ CreatePush(c)
        \/ SetStore(c)
        \/ CreatePrefix(c)
        \/ CreateTree(c)
        \/ CompactFacts(c)
    BY <2>1, CompactStepFacts DEF StoreStep, QuietStep
  <2>3. CASE d = c
    BY <1>1, <2>1, <2>3, OwnSeen
  <2>4. CASE d # c
    <3>1. op'[d] = op[d]
      BY <2>2, <2>4, StepFrame DEF OpIs
    <3>2. LogGrows
      BY <2>2, LogGrowsStep
    <3>3. KeysKept
      BY <2>2, KeyCases
    <3> QED
      BY <1>1, <3>1, <3>2, <3>3, SeenKept
  <2> QED
    BY <2>3, <2>4
<1> QED
  BY <1>2, <1>3

LEMMA SeenCorrect == Spec => []SeenInv
BY TypeCorrect, LocksOrder, ReadsCorrect, KeysCorrect, SeenInit, SeenStep, PTL DEF Spec

(* A key with one item at most is what SeesAnswered says it is. *)
LEMMA CreatedOnceIs ==
  ASSUME BaseInv, NEW k \in Keys, CreatedOnce(k)
  PROVE  OneItem(k)
<1> SUFFICES ASSUME NEW q \in Revs, NEW r \in Revs, log[q].key = k, log[r].key = k,
                    log[q].item # log[r].item
             PROVE  FALSE
  BY DEF OneItem
<1>1. PICK S : S = {log[p].item : p \in OfKey(k)}
  OBVIOUS
<1>2. PICK a, b : a = log[q].item /\ b = log[r].item
  OBVIOUS
<1>3. a \in S /\ b \in S /\ a # b
  BY <1>1, <1>2 DEF OfKey
<1>4. S \subseteq 0 .. MaxRev
  BY <1>1 DEF OfKey, BaseInv, TypeOK, Entry
<1>5. IsFiniteSet(S)
  <2>1. 0 \in Int /\ MaxRev \in Int
    BY StoreMaxRevAssumption
  <2>2. IsFiniteSet(0 .. MaxRev)
    BY <2>1, FS_Interval
  <2> QED
    BY <1>4, <2>2, FS_Subset
<1>6. IsFiniteSet({b}) /\ Cardinality({b}) = 1
  BY FS_Singleton
<1>7. Cardinality({b} \union {a}) = 2
  <2>1. a \notin {b}
    BY <1>3
  <2>2. PICK T : T = {b}
    OBVIOUS
  <2>3. IsFiniteSet(T) /\ Cardinality(T) = 1 /\ a \notin T
    BY <1>6, <2>1, <2>2
  <2>4. Cardinality(T \union {a}) = 1 + 1
    BY <2>3, FS_AddElement, Zenon
  <2>5. T \union {a} = {b} \union {a}
    BY <2>2
  <2> QED
    BY <2>4, <2>5
<1>8. {b} \union {a} \subseteq S
  BY <1>3
<1>9. 2 <= Cardinality(S) /\ Cardinality(S) \in Nat
  BY <1>5, <1>7, <1>8, FS_Subset, FS_CardinalityType
<1> QED
  BY <1>1, <1>9 DEF CreatedOnce

LEMMA ShowsIs ==
  ASSUME NEW k, NEW r, NEW s, Shows(k, r, s)
  PROVE  NotOlder(k, r, s)
BY DEF Shows, NotOlder, OfKey, Deleted

LEMMA MethodRequest ==
  ASSUME NEW rpc \in DOMAIN Served, rpc.method = "range"
  PROVE  Served[rpc].kind = "range"
<1>1. Served[rpc] = RangeOf(rpc)
  BY DEF Served, StoreRequest
<1>2. PICK keys, bounds, rev, limit : RangeOf(rpc) = RangeRequest(keys, bounds, rev, limit)
  BY Zenon DEF RangeOf
<1> QED
  BY <1>1, <1>2 DEF RangeRequest

LEMMA SeesFollows == BaseInv /\ SeenInv /\ CallInv => SeesAnswered
<1> SUFFICES ASSUME BaseInv, SeenInv, CallInv, NEW c \in Clients
             PROVE  LET seen == op[c].seen
                    IN  /\ (/\ (op[c].at = "done" /\ op[c].result = "ok") \/ Answers(c, "txn")
                            /\ call[c].method \notin {"delete_range", "compact"}) =>
                             \A k \in Keys : Header(c) >= seen[k]
                        /\ \A k \in Keys : Answers(c, "txn") /\ op[c].req.key = k /\ CreatedOnce(k) =>
                             TxnResponse(c).succeeded \/ NotOlder(k, TxnResponse(c).kv, seen[k])
                        /\ Answers(c, "range") /\ op[c].result = "ok" /\ op[c].req.limit = Unlimited =>
                             \A k \in op[c].req.keys : CreatedOnce(k) /\ seen[k] > start_offset =>
                               NotOlder(k, RangeResponse(c).kvs[k], seen[k])
  BY DEF SeesAnswered
<1>1. /\ op[c].seen \in [Keys -> Nat] /\ op[c].got \in [Keys -> Nat]
      /\ op[c].rev \in Nat /\ op[c].latest_rev \in Nat
  BY DEF BaseInv, TypeOK, Op
<1>2. op[c].at = "done" => call[c] \in DOMAIN Served /\ op[c].req = Served[call[c]] /\ Pays(c)
  BY DEF CallInv, CallFits, SeenInv, SeenOK
<1>3. ASSUME (op[c].at = "done" /\ op[c].result = "ok") \/ Answers(c, "txn"),
             call[c].method \notin {"delete_range", "compact"}, NEW k \in Keys
      PROVE  Header(c) >= op[c].seen[k]
  <2>1. op[c].at = "done"
    BY <1>3 DEF Answers
  <2>2. PICK s \in Nat, h \in Nat : s = op[c].seen[k] /\ h = Header(c)
    BY <1>1 DEF Header
  <2>3. h = Named(c)
    BY <1>3, <2>1, <2>2 DEF Header, Named, Wrote
  <2>4. s # 0 => s <= Named(c)
    BY <2>1, <2>2 DEF SeenInv, SeenOK, Owed
  <2> QED
    BY <2>2, <2>3, <2>4
<1>4. ASSUME NEW k \in Keys, Answers(c, "txn"), op[c].req.key = k, CreatedOnce(k)
      PROVE  TxnResponse(c).succeeded \/ NotOlder(k, TxnResponse(c).kv, op[c].seen[k])
  <2>1. op[c].at = "done" /\ call[c].method = "txn" /\ op[c].result \in {"ok", "err"}
    BY <1>4 DEF Answers
  <2>2. op[c].req.kind = "set"
    BY <1>2, <2>1, TxnRequest
  <2>3. CASE op[c].result = "ok"
    BY <2>3 DEF TxnResponse
  <2>4. CASE op[c].result = "err"
    <3>1. Shows(k, op[c].rev, op[c].seen[k])
      BY <1>2, <1>4, <2>1, <2>2, <2>4, CreatedOnceIs DEF Pays, SetPays
    <3>2. TxnResponse(c).kv = op[c].rev
      BY <2>4 DEF TxnResponse
    <3> QED
      BY <3>1, <3>2, ShowsIs
  <2> QED
    BY <2>1, <2>3, <2>4
<1>5. ASSUME Answers(c, "range"), op[c].result = "ok", op[c].req.limit = Unlimited,
             NEW k \in op[c].req.keys, CreatedOnce(k), op[c].seen[k] > start_offset
      PROVE  NotOlder(k, RangeResponse(c).kvs[k], op[c].seen[k])
  <2>1. op[c].at = "done" /\ call[c].method = "range"
    BY <1>5 DEF Answers
  <2>2. op[c].req \in RangeRequests /\ RangePays(c)
    BY <1>2, <2>1, MethodRequest DEF Pays
  <2>3. k \in Keys
    BY <2>2 DEF RangeRequests
  <2>4. Shows(k, op[c].got[k], op[c].seen[k])
    BY <1>5, <2>2, <2>3, CreatedOnceIs DEF RangePays
  <2>5. RangeResponse(c).kvs = op[c].got
    BY DEF RangeResponse
  <2> QED
    BY <2>4, <2>5, ShowsIs
<1> QED
  BY <1>3, <1>4, <1>5

(***************************************************************************)
(* Whatever calls are made: an answer of the server sees what was answered *)
(* before its call began.  The header of every call but delete_range and   *)
(* compact, which answer 0, names no older revision, and neither a list    *)
(* (Store::range) nor a failed transaction (Store::set) shows an older     *)
(* value, although between the two loads of current_revision, the lookup   *)
(* of the item and its lock any other calls go on.  The other limits are   *)
(* those of SeesAnswered: compactions of the revision in between, and keys *)
(* whose creations overlapped.                                             *)
(***************************************************************************)
THEOREM AnswersAreSeen == KvSpec => []SeesAnswered
<1>1. KvSpec => [](BaseInv /\ SeenInv)
  BY KvImplementsStore, TypeCorrect, SeenCorrect, PTL
<1> QED
  BY <1>1, CallsCorrect, SeesFollows, PTL

===============================================================================
