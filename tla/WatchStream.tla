------------------------------ MODULE WatchStream ------------------------------
(***************************************************************************)
(* mem_etcd/src/watch_service.rs on top of NotifyThread: the life of one   *)
(* watch per watcher id.  Store::watch fixes a start revision, registers   *)
(* the watcher and reads the past changes key by key under the items'      *)
(* locks; the gRPC stream then sends the past changes and loops, preferring*)
(* events of its channel to messages of the client.                        *)
(*                                                                         *)
(* Compaction is the one operation of the store that can remove a change   *)
(* between the check and the read of Store::watch, so it is here too.      *)
(***************************************************************************)
EXTENDS NotifyThread, FiniteSetsExt, SequencesExt

CONSTANTS
  MaxProgress     \* bound: progress requests per stream

ASSUME MaxProgressAssumption == MaxProgress \in Nat

VARIABLES
  compacted,   \* values_by_revision.earliest_revision()
  stream,      \* each watch: where it is, and its local variables
  out          \* history: the responses sent on each stream, in order

streamVars == <<compacted, stream, out>>
allVars == <<vars, streamVars>>

NoStream == [at |-> "none", rev |-> 0, start |-> 0, left |-> {}, past |-> <<>>,
             max_event_stream_rev |-> 0, asked |-> 0, half |-> FALSE]

StreamInit ==
  /\ Init
  /\ compacted = 0
  /\ stream = [x \in Watchers |-> NoStream]
  /\ out = [x \in Watchers |-> <<>>]

Response(kind, revs) == [i \in 1 .. Len(revs) |-> [kind |-> kind, rev |-> revs[i]]]

(***************************************************************************)
(* Store::watch.  rev = 0 asks for changes from now on.                    *)
(***************************************************************************)
WatchBegin(x, rev) ==
  /\ stream[x].at = "none"
  /\ \/ /\ rev = 0 \/ rev > compacted
        /\ stream' = [stream EXCEPT ![x].at = "checked", ![x].rev = rev,
                                    ![x].start = IF rev = 0 THEN revision ELSE rev,
                                    ![x].left = IF rev = 0 THEN {} ELSE Watched[x]]
     \/ /\ rev > 0 /\ rev <= compacted
        /\ stream' = [stream EXCEPT ![x].at = "refused"]
  /\ UNCHANGED <<vars, compacted, out>>

WatchRegister(x) ==
  /\ stream[x].at = "checked"
  /\ stream' = [stream EXCEPT ![x].at = "past"]
  /\ Register(x, stream[x].start)
  /\ UNCHANGED <<compacted, out>>

(* A set of revisions as a sequence, oldest first. *)
OldestFirst(revs) ==
  CHOOSE s \in SetToSeqs(revs) : \A i, j \in DOMAIN s : i < j => s[i] < s[j]

(* A plausible bug: the start revision taken as exclusive. *)
PastChangesAfter(k, start) ==
  OldestFirst({r \in revisions[k] : r > start /\ r > compacted})

(* The changes of key k that are still stored, oldest first. *)
PastChanges(k, start) ==
  OldestFirst({r \in revisions[k] : r >= start /\ r > compacted})

(* for_each item of the range, in key order, under the item's read lock *)
WatchReadPast(x) ==
  /\ stream[x].at = "past"
  /\ \E k \in stream[x].left :
       /\ \A l \in stream[x].left : k <= l
       /\ ~Locked(k)
       /\ stream' = [stream EXCEPT ![x].left = @ \ {k},
                                   ![x].past = @ \o PastChanges(k, stream[x].start)]
  /\ UNCHANGED <<vars, compacted, out>>

(***************************************************************************)
(* The range spans two prefixes: Store::watch fails after registering, its *)
(* receiver is dropped and the watcher stays in Store.watchers.            *)
(***************************************************************************)
WatchSpansPrefixes(x) ==
  /\ stream[x].at = "past"
  /\ stream[x].rev > 0
  /\ stream[x].left = Watched[x]
  /\ stream' = [stream EXCEPT ![x].at = "refused"]
  /\ Close(x, FALSE)
  /\ UNCHANGED <<compacted, out>>

(***************************************************************************)
(* The stream of WatchService::watch.                                      *)
(***************************************************************************)
(* created: true, then the past changes if there are any *)
StreamOpen(x) ==
  /\ stream[x].at = "past"
  /\ stream[x].left = {}
  /\ stream' = [stream EXCEPT ![x].at = "open", ![x].past = <<>>]
  /\ out' = [out EXCEPT ![x] = @ \o Response("past", stream[x].past)]
  /\ UNCHANGED <<vars, compacted>>

(* select!, first branch: recv_many found events *)
StreamEvents(x) ==
  /\ stream[x].at = "open"
  /\ Receive(x)
  /\ stream' = [stream EXCEPT ![x].max_event_stream_rev = Max({@, Last(Taken(x))})]
  /\ out' = [out EXCEPT ![x] = @ \o Response("event", Taken(x))]
  /\ UNCHANGED compacted

(* select!, second branch: recv_many was pending, a progress request is not *)
StreamProgressRequest(x) ==
  /\ stream[x].at = "open"
  /\ ~stream[x].half
  /\ channel[x] = <<>>
  /\ stream[x].asked < MaxProgress
  /\ stream' = [stream EXCEPT ![x].at = "progress", ![x].asked = @ + 1]
  /\ UNCHANGED <<vars, compacted, out>>

(* A plausible bug: reporting the store's revision as progress. *)
StreamProgressCurrent(x) ==
  /\ stream[x].at = "progress"
  /\ stream' = [stream EXCEPT ![x].at = "open"]
  /\ out' = [out EXCEPT ![x] = Append(@, [kind |-> "progress", rev |-> revision])]
  /\ UNCHANGED <<vars, compacted>>

(* store.progress_revision() is loaded now, after the channel was polled *)
StreamProgress(x) ==
  /\ stream[x].at = "progress"
  /\ stream' = [stream EXCEPT ![x].at = "open"]
  /\ out' = [out EXCEPT ![x] = Append(@,
       [kind |-> "progress", rev |-> Max({progress_rev, stream[x].max_event_stream_rev})])]
  /\ UNCHANGED <<vars, compacted>>

(* Ok(None): the client half-closed; the loop continues *)
StreamHalfClosed(x) ==
  /\ stream[x].at = "open"
  /\ channel[x] = <<>>
  /\ ~stream[x].half
  /\ stream' = [stream EXCEPT ![x].half = TRUE]
  /\ UNCHANGED <<vars, compacted, out>>

(* a cancel request of this watch, or an error of the stream: unwatch *)
StreamCancel(x) ==
  /\ stream[x].at = "open"
  /\ channel[x] = <<>>
  /\ ~stream[x].half
  /\ stream' = [stream EXCEPT ![x].at = "closed"]
  /\ Close(x, TRUE)
  /\ UNCHANGED <<compacted, out>>

(* tonic drops the stream of a vanished client wherever it is suspended *)
StreamDropped(x) ==
  /\ stream[x].at = "open" \/ (stream[x].at = "past" /\ stream[x].left = {})
  /\ stream' = [stream EXCEPT ![x].at = "closed"]
  /\ Close(x, FALSE)
  /\ UNCHANGED <<compacted, out>>

(* Store::compact(rev): revisions below rev are removed *)
Compact(rev) ==
  /\ rev \in 1 .. revision
  /\ rev - 1 > compacted
  /\ compacted' = rev - 1
  /\ UNCHANGED <<vars, stream, out>>

WatchStep(x) ==
  \/ WatchRegister(x)
  \/ WatchReadPast(x)
  \/ WatchSpansPrefixes(x)

StreamStep(x) ==
  \/ StreamOpen(x)
  \/ StreamEvents(x)
  \/ StreamProgress(x)

ClientStep(x) ==
  \/ \E rev \in 0 .. MaxRev : WatchBegin(x, rev)
  \/ StreamProgressRequest(x)
  \/ StreamHalfClosed(x)
  \/ StreamCancel(x)
  \/ StreamDropped(x)

StreamNext ==
  \/ (\E w \in Writers : SetStep(w)) /\ UNCHANGED streamVars
  \/ ThreadStep /\ UNCHANGED streamVars
  \/ \E x \in Watchers : WatchStep(x) \/ StreamStep(x) \/ ClientStep(x)
  \/ \E rev \in 1 .. MaxRev : Compact(rev)

StreamSpec == StreamInit /\ [][StreamNext]_allVars

(***************************************************************************)
(* Fairness.  The tasks of a set call and of a watch request and the       *)
(* notify thread keep being scheduled; that a stream keeps taking events   *)
(* also needs a client that keeps reading (gRPC flow control).             *)
(***************************************************************************)
SetContinues(w) == (Publish(w) \/ Collect(w) \/ Send(w) \/ Acked(w)) /\ UNCHANGED streamVars

ServerFairness ==
  /\ \A w \in Writers : WF_allVars(SetContinues(w))
  /\ WF_allVars(ThreadStep /\ UNCHANGED streamVars)
  /\ \A x \in Watchers : WF_allVars(WatchStep(x))

ClientFairness == \A x \in Watchers : WF_allVars(StreamStep(x))

LiveSpec == StreamSpec /\ ServerFairness /\ ClientFairness

-------------------------------------------------------------------------------
(***************************************************************************)
(* Properties.                                                             *)
(***************************************************************************)
IsEvent(r) == r.kind \in {"past", "event"}

(* Revision r has been sent on x's stream. *)
Sent(x, r) == \E i \in 1 .. Len(out[x]) : IsEvent(out[x][i]) /\ out[x][i].rev = r

InChannel(x, r) == \E i \in 1 .. Len(channel[x]) : channel[x][i] = r

(* Revision r is on its way to x's channel. *)
OnItsWay(x, r) ==
  \/ \E w \in Writers : /\ call[w].job.rev = r
                        /\ \/ call[w].at = "stored"
                           \/ call[w].at = "collected" /\ x \in call[w].job.to
  \/ \E i \in 1 .. Len(queue) : queue[i].rev = r /\ x \in queue[i].to
  \/ \E j \in spool : j.rev = r /\ x \in j.to
  \/ thread = "send" /\ job.rev = r /\ x \in job.to

Live(x) == stream[x].at \in {"open", "progress"}

(* The changes that a watch from a given revision on has to deliver. *)
Owed(x) ==
  {r \in UNION {revisions[k] : k \in Watched[x]} : r >= stream[x].start /\ r > compacted}

(***************************************************************************)
(* No change falls between the past changes and the channel: a watch from  *)
(* a revision on has sent, holds in its channel or is going to be given    *)
(* every stored change from that revision on that is not compacted.  It    *)
(* rests on Store::watch registering before it reads the items while set   *)
(* writes the item before it collects the watchers.                        *)
(***************************************************************************)
NoMissedEvent ==
  \A x \in Watchers : Live(x) /\ stream[x].rev > 0 =>
    \A r \in Owed(x) : Sent(x, r) \/ InChannel(x, r) \/ OnItsWay(x, r)

(***************************************************************************)
(* The events of a stream come in revision order and once, from the first  *)
(* one it has sent to the last in its channel, although the jobs reach the *)
(* notify thread in any order.                                             *)
(***************************************************************************)
LiveEventsOrdered ==
  /\ ChannelsOrdered
  /\ \A x \in Watchers : \A i \in 1 .. Len(out[x]) : out[x][i].kind = "event" =>
       /\ \A j \in i + 1 .. Len(out[x]) :
            out[x][j].kind = "event" => out[x][i].rev < out[x][j].rev
       /\ \A j \in 1 .. Len(channel[x]) : out[x][i].rev < channel[x][j]

(***************************************************************************)
(* A progress response covers its revision: no change up to it is left     *)
(* with a writer, in the queue or with the notify thread; it has been sent *)
(* or is in the stream's own channel.                                      *)
(***************************************************************************)
ProgressCovers ==
  \A x \in Watchers : Live(x) /\ stream[x].rev > 0 =>
    \A i \in 1 .. Len(out[x]) : out[x][i].kind = "progress" =>
      \A r \in Owed(x) : r <= out[x][i].rev => Sent(x, r) \/ InChannel(x, r)

(***************************************************************************)
(* Every set call returns, through channels that are full again and again, *)
(* as long as the clients keep reading: the one notify thread that all     *)
(* calls share waits for no revision and no watcher for ever.              *)
(***************************************************************************)
SetReturns == \A w \in Writers : call[w].at # "idle" ~> call[w].at = "idle"

(***************************************************************************)
(* Every stored change reaches every live watch from an earlier revision   *)
(* on, even through full channels, as long as the clients keep reading.    *)
(***************************************************************************)
EventsDelivered ==
  \A x \in Watchers : \A r \in 1 .. MaxRev :
    (Live(x) /\ stream[x].rev > 0 /\ r \in Owed(x))
      ~> (Sent(x, r) \/ x \in closed)
===============================================================================
