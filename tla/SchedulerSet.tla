----------------------------- MODULE SchedulerSet -----------------------------
(***************************************************************************)
(* dist-scheduler/pkg/schedulerset: what each dist-scheduler process knows *)
(* of the others, and the tree they form.  A process learns of the members *)
(* from an informer on the EndpointSlices of the service, and of the       *)
(* leader from its own leader elector; from both it computes its           *)
(* sub-members, the processes it relays pods to, and caches them until it  *)
(* is told that something has changed.                                     *)
(*                                                                         *)
(* The informer runs every event handler in a goroutine of its own: the    *)
(* one that updates the EndpointSliceCache and the one that sets dirty see *)
(* the same changes at different times.  A process is a natural number in  *)
(* the order of the pod names, and all EndpointSlices of the service are   *)
(* one.  A process hears of the leader only if it is leader-eligible:      *)
(* until then, and for ever if it is not, the leader is "".                *)
(***************************************************************************)
EXTENDS Integers, Sequences, FiniteSets

CONSTANTS
  Procs,       \* the processes, numbered in the order of their pod names
  Relays,      \* the ones whose name starts with RelayPrefix
  FanOut,      \* fanOut, 10 in Start
  Stride,      \* the literal 10 of GetSubMembers
  Followed,    \* the processes whose view is followed; views are independent
  Members0,    \* the members at first
  MaxSlices,   \* bound: versions of the EndpointSlice
  MaxLeases    \* bound: leaders elected

ASSUME ProcsAssumption == Procs \subseteq Nat \ {0} /\ IsFiniteSet(Procs)
ASSUME RelaysAssumption == Relays \subseteq Procs
ASSUME FollowedAssumption == Followed \subseteq Procs
ASSUME FanOutAssumption == FanOut \in Nat \ {0} /\ Stride \in Nat \ {0}
ASSUME MembersAssumption == Members0 \subseteq Procs /\ Members0 # {}

VARIABLES
  slices,      \* history: the versions of the EndpointSlice
  cached,      \* the version in each process's EndpointSliceCache
  told,        \* the version each process's dirty handler has run for
  leases,      \* history: the leaders elected
  leader,      \* SchedulerSet.leader of each process
  dirty,
  subMembers,  \* subMembersCache
  computing,   \* a GetSubMembers that holds cacheLock: the version it has read
  misordered   \* history: the dirty handler has run before the cache's

setVars == <<slices, cached, told, leases, leader, dirty, subMembers, computing, misordered>>

Unlocked == 0
Cleared == -1
NoLeader == 0   \* "", which is nobody's name

ViewInit ==
  /\ slices = <<Members0>>
  /\ cached = [p \in Procs |-> 1]
  /\ told = [p \in Procs |-> 1]
  /\ \E l \in Members0 : leases = <<l>>
  /\ dirty = [p \in Procs |-> TRUE]
  /\ subMembers = [p \in Procs |-> {}]
  /\ computing = [p \in Procs |-> Unlocked]
  /\ misordered = [p \in Procs |-> FALSE]

SetInit == ViewInit /\ leader = [p \in Procs |-> NoLeader]

(***************************************************************************)
(* The tree.  l is the leader a process knows of, M the members.           *)
(***************************************************************************)
(* A plausible bug: a sort that knows of the leader, but not of the relays. *)
BeforeByName(l, a, b) == a # b /\ b # l /\ (a = l \/ a < b)

(* podNameSort(a, b) < 0: the leader, then the relays, then by name *)
Before(l, a, b) ==
  /\ a # b
  /\ b # l
  /\ \/ a = l
     \/ a \in Relays /\ b \notin Relays
     \/ (a \in Relays <=> b \in Relays) /\ a < b

(* where sortMembers puts a, from 0 *)
Position(l, M, a) == Cardinality({b \in M : Before(l, b, a)})

(* A plausible bug: the search starting at the first member. *)
IndexFromFirst(l, M, p) ==
  IF l = p THEN 0 ELSE Cardinality({b \in M : Before(l, b, p)}) + 1

(* sort.Search among the members from the second on *)
Index(l, M, p) ==
  IF l = p THEN 0
  ELSE Cardinality({b \in M : Position(l, M, b) > 0 /\ Before(l, b, p)}) + 1

(* GetSubMembers: the members from position index * 10 + 1 on, fanOut of them *)
SubMembersOf(l, M, p) ==
  LET start == Index(l, M, p) * Stride + 1
  IN  IF Cardinality(M) <= 1 THEN {}
      ELSE {a \in M : Position(l, M, a) >= start /\ Position(l, M, a) < start + FanOut}

(***************************************************************************)
(* Changes, and how a process hears of them.                               *)
(***************************************************************************)
(* a process becomes ready or goes away *)
SliceChanges(M) ==
  /\ Len(slices) < MaxSlices
  /\ M # slices[Len(slices)]
  /\ slices' = Append(slices, M)
  /\ UNCHANGED <<cached, told, leases, leader, dirty, subMembers, computing, misordered>>

(* EndpointSliceCache.Update *)
UpdateCache(p) ==
  /\ cached[p] < Len(slices)
  /\ cached' = [cached EXCEPT ![p] = @ + 1]
  /\ UNCHANGED <<slices, told, leases, leader, dirty, subMembers, computing, misordered>>

(* the handler of AddUpdateHandler *)
MarkDirty(p) ==
  /\ told[p] < Len(slices)
  /\ told' = [told EXCEPT ![p] = @ + 1]
  /\ dirty' = [dirty EXCEPT ![p] = TRUE]
  /\ misordered' = [misordered EXCEPT ![p] = @ \/ cached[p] < told[p] + 1]
  /\ UNCHANGED <<slices, cached, leases, leader, subMembers, computing>>

(* another process takes the lease *)
NewLease(l) ==
  /\ Len(leases) < MaxLeases
  /\ l # leases[Len(leases)]
  /\ leases' = Append(leases, l)
  /\ UNCHANGED <<slices, cached, told, leader, dirty, subMembers, computing, misordered>>

(* OnNewLeader calls SetLeader, which waits for the cacheLock *)
SetLeader(p) ==
  /\ leader[p] # leases[Len(leases)]
  /\ computing[p] = Unlocked
  /\ leader' = [leader EXCEPT ![p] = leases[Len(leases)]]
  /\ dirty' = [dirty EXCEPT ![p] = TRUE]
  /\ UNCHANGED <<slices, cached, told, leases, subMembers, computing, misordered>>

(***************************************************************************)
(* GetSubMembers of a caller that has found dirty set: cacheLock taken and *)
(* dirty cleared, then the members read, then the result stored.  While it *)
(* waited for the lock another caller may have done all this already.      *)
(***************************************************************************)
StartCompute(p) ==
  /\ computing[p] = Unlocked
  /\ computing' = [computing EXCEPT ![p] = Cleared]
  /\ dirty' = [dirty EXCEPT ![p] = FALSE]
  /\ UNCHANGED <<slices, cached, told, leases, leader, subMembers, misordered>>

ReadMembers(p) ==
  /\ computing[p] = Cleared
  /\ computing' = [computing EXCEPT ![p] = cached[p]]
  /\ UNCHANGED <<slices, cached, told, leases, leader, dirty, subMembers, misordered>>

(* what GetSubMembers returns once the members have been read *)
Computed(p) == SubMembersOf(leader[p], slices[computing[p]], p)

(* A plausible bug: dirty cleared again when the members have been read. *)
EndComputeClean(p) ==
  /\ computing[p] > 0
  /\ computing' = [computing EXCEPT ![p] = Unlocked]
  /\ dirty' = [dirty EXCEPT ![p] = FALSE]
  /\ subMembers' = [subMembers EXCEPT ![p] = Computed(p)]
  /\ UNCHANGED <<slices, cached, told, leases, leader, misordered>>

EndCompute(p) ==
  /\ computing[p] > 0
  /\ computing' = [computing EXCEPT ![p] = Unlocked]
  /\ subMembers' = [subMembers EXCEPT ![p] = Computed(p)]
  /\ UNCHANGED <<slices, cached, told, leases, leader, dirty, misordered>>

(* GetSubMembers as a whole, as its callers see it: cached or computed *)
GetSubMembers(p) ==
  /\ computing[p] = Unlocked
  /\ dirty' = [dirty EXCEPT ![p] = FALSE]
  /\ subMembers' = IF dirty[p]
                   THEN [subMembers EXCEPT ![p] = SubMembersOf(leader[p], slices[cached[p]], p)]
                   ELSE subMembers
  /\ UNCHANGED <<slices, cached, told, leases, leader, computing, misordered>>

Changes ==
  \/ \E M \in SUBSET Procs : SliceChanges(M)
  \/ \E l \in Procs : NewLease(l)
  \/ \E p \in Followed : UpdateCache(p) \/ MarkDirty(p) \/ SetLeader(p)

SetNext ==
  \/ Changes
  \/ \E p \in Followed : StartCompute(p) \/ ReadMembers(p) \/ EndCompute(p)

SetSpec == SetInit /\ [][SetNext]_setVars

-------------------------------------------------------------------------------
(***************************************************************************)
(* Properties.                                                             *)
(***************************************************************************)
(***************************************************************************)
(* The tree: among the members M with leader l, where sub[p] are those     *)
(* that p relays to.  Every member but the leader is the sub-member of     *)
(* exactly one, and the leader of none; every set of others is reached     *)
(* from outside, so that all hang together below the leader and there is   *)
(* no circle; and above a relay there are only relays and the leader.      *)
(***************************************************************************)
IsTree(l, M, sub) ==
  /\ \A a \in M : Cardinality({p \in M : a \in sub[p]}) = IF a = l THEN 0 ELSE 1
  /\ \A S \in SUBSET (M \ {l}) : S # {} => \E a \in S, p \in M \ S : a \in sub[p]
  /\ \A p \in M : \A a \in sub[p] : a \in M /\ (a \in Relays => p = l \/ p \in Relays)

(* p has heard of as many changes as its cache, in the order of the two. *)
Settled(p) ==
  /\ ~dirty[p] /\ computing[p] = Unlocked
  /\ ~misordered[p] /\ told[p] = cached[p]

(* Those that a process relays to if it agrees on l and M: what it has
   cached if it is followed and settled, and else what it would compute. *)
Links(l, M) ==
  [p \in Procs |-> IF p \in Followed /\ Settled(p) /\ leader[p] = l /\ slices[cached[p]] = M
                   THEN subMembers[p] ELSE SubMembersOf(l, M, p)]

(***************************************************************************)
(* Processes that agree on the members, and on a leader among them, form a *)
(* tree by their cached sub-members, with the relays above the schedulers, *)
(* for every set of members.                                               *)
(***************************************************************************)
AgreedIsTree ==
  \A p \in Followed :
    LET l == leader[p]
        M == slices[cached[p]]
    IN  l \in M => IsTree(l, M, Links(l, M))

(***************************************************************************)
(* The cached sub-members are up to date once the process has heard of all *)
(* changes, although members and leader change while they are computed:    *)
(* unless the informer ran the dirty handler ahead of the cache's.         *)
(***************************************************************************)
CacheIsFresh ==
  \A p \in Followed :
    Settled(p) => subMembers[p] = SubMembersOf(leader[p], slices[cached[p]], p)

===============================================================================
