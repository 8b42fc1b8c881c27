---------------------------- MODULE ScoreEvaluator ----------------------------
(***************************************************************************)
(* dist-scheduler: how one scheduler of many is allowed to bind a pod.     *)
(* Every scheduler that has tried the pod on its own nodes sends the best  *)
(* node and score to the one process the pod's name hashes to (DistPermit, *)
(* podScheduleFailure).  There a oneEvaluator collects the scores of the   *)
(* pod and fires when it has as many as there are schedulers, or after 5s; *)
(* it then picks a winner and answers every call that waits.               *)
(*                                                                         *)
(* The module follows one pod, that is one key of ScoreEvaluator.          *)
(* evaluators; the keys share nothing but the map's lock.  A request is    *)
(* one attempt of a scheduler: a pod that is relayed twice has two.        *)
(* --permit-always-deny, which sends nothing, is left out, and so are the  *)
(* schedulers whose own view of leader and members (GetTargetForScoring)   *)
(* names another process: the module is about what one process decides,    *)
(* and each process that is asked for a pod is one instance of it.         *)
(***************************************************************************)
EXTENDS Integers, Sequences, FiniteSets

CONSTANTS
  Schedulers,
  Nodes,
  NodesOf,     \* the nodes that carry each scheduler's label
  Attempts,    \* bound: how often a scheduler is given the pod
  MaxScore,    \* bound: the highest total score of a node
  Limits,      \* what GetMemberCountNoRelays may answer
  CanFail,     \* whether connections and calls may fail
  NoNode       \* the empty node name

ASSUME NodesAssumption == NodesOf \in [Schedulers -> SUBSET Nodes] /\ NoNode \notin Nodes
ASSUME LimitsAssumption == Limits \subseteq Nat
ASSUME ScoreAssumption == Attempts \in Nat /\ MaxScore \in Nat

Requests == Schedulers \X (1 .. Attempts)

VARIABLES
  call,       \* each request's side of the scheduler
  conn,       \* clientCache of each scheduler, or the lock never given back
  rpc,        \* each request's side of the evaluator's process
  evals,      \* the evaluators ever started
  current,    \* evaluators[key], 0 when there is none
  panicked    \* the evaluator's process has died

vars == <<call, conn, rpc, evals, current, panicked>>

NoScore == [node |-> NoNode, score |-> -1]

Init ==
  /\ call = [r \in Requests |-> [at |-> "idle", node |-> NoNode, score |-> 0]]
  /\ conn = [s \in Schedulers |-> "none"]
  /\ rpc = [r \in Requests |-> [at |-> "none", eval |-> 0]]
  /\ evals = <<>>
  /\ current = 0
  /\ panicked = FALSE

(***************************************************************************)
(* The scheduler.                                                          *)
(***************************************************************************)
(***************************************************************************)
(* SendScore.  A score of 0 is sent without waiting for the answer, which  *)
(* can only be a rejection.                                                *)
(***************************************************************************)
SendScore(r, n, v) ==
  /\ conn[r[1]] # "leaked"
  /\ conn' = [conn EXCEPT ![r[1]] = "cached"]
  /\ call' = [call EXCEPT ![r] = [at |-> IF v = 0 THEN "denied" ELSE "calling",
                                  node |-> n, score |-> v]]
  /\ rpc' = [rpc EXCEPT ![r].at = "sent"]
  /\ UNCHANGED <<evals, current, panicked>>

(* Permit: the pod fits, and the best node has a score *)
Permit(r) ==
  /\ call[r].at = "idle"
  /\ \E n \in NodesOf[r[1]], v \in 0 .. MaxScore : SendScore(r, n, v)

(* podScheduleFailure: no node fits, which is a score of 0 for no node *)
ScheduleFails(r) ==
  /\ call[r].at = "idle"
  /\ SendScore(r, NoNode, 0)

(* grpc.NewClient fails: the return leaves clientCacheLock locked *)
ConnectFails(r) ==
  /\ CanFail
  /\ call[r].at = "idle"
  /\ conn[r[1]] = "none"
  /\ conn' = [conn EXCEPT ![r[1]] = "leaked"]
  /\ call' = [call EXCEPT ![r].at = "denied"]
  /\ UNCHANGED <<rpc, evals, current, panicked>>

(* CollectScore returns an error to the scheduler, which denies the permit; *)
(* the handler, if it runs, goes on                                         *)
CallFails(r) ==
  /\ CanFail \/ panicked
  /\ call[r].at = "calling"
  /\ call' = [call EXCEPT ![r].at = "denied"]
  /\ UNCHANGED <<conn, rpc, evals, current, panicked>>

(* the request itself is lost *)
RequestLost(r) ==
  /\ CanFail
  /\ rpc[r].at = "sent"
  /\ rpc' = [rpc EXCEPT ![r].at = "lost"]
  /\ call' = [call EXCEPT ![r].at = "denied"]
  /\ UNCHANGED <<conn, evals, current, panicked>>

(***************************************************************************)
(* RecordAndWait.                                                          *)
(***************************************************************************)
Fired(o) == o.highestScore # NoScore

(* startOneEvaluator; fired, how many scores were there, is history *)
NewEvaluator(limit) ==
  [limit |-> limit, scores |-> <<>>, highestScore |-> NoScore, fired |-> 0]

(* A plausible bug: an evaluator started without looking for one. *)
LookupNone(r) ==
  /\ ~panicked
  /\ rpc[r].at = "sent"
  /\ \E limit \in Limits : evals' = Append(evals, NewEvaluator(limit))
  /\ current' = Len(evals')
  /\ rpc' = [rpc EXCEPT ![r] = [at |-> "found", eval |-> Len(evals')]]
  /\ UNCHANGED <<call, conn, panicked>>

(* under the map's lock: the pod's evaluator, started if there is none *)
Lookup(r) ==
  /\ ~panicked
  /\ rpc[r].at = "sent"
  /\ IF current # 0
     THEN UNCHANGED <<evals, current>>
     ELSE /\ \E limit \in Limits : evals' = Append(evals, NewEvaluator(limit))
          /\ current' = Len(evals')
  /\ rpc' = [rpc EXCEPT ![r] = [at |-> "found", eval |-> current']]
  /\ UNCHANGED <<call, conn, panicked>>

(* A plausible bug: a tie-break that forgets to compare. *)
CandidatesAny(scores) == {scores[i] : i \in 1 .. Len(scores)}

(* the requests that sent the highest score *)
Candidates(scores) ==
  LET S == {scores[i] : i \in 1 .. Len(scores)}
  IN  {r \in S : \A q \in S : call[q].score <= call[r].score}

(* A plausible bug: cond.Signal() wakes only one of the calls that wait. *)
WokenOne(e, by) ==
  LET W == {q \in Requests : rpc[q] = [at |-> "waiting", eval |-> e]}
      woken == IF W = {} THEN by ELSE by \union {CHOOSE q \in W : TRUE}
  IN  [q \in Requests |-> IF q \in woken THEN [rpc[q] EXCEPT !.at = "woken"] ELSE rpc[q]]

(* cond.Broadcast(); the call that fires returns without waiting *)
Woken(e, by) ==
  [q \in Requests |->
     IF q \in by \/ rpc[q] = [at |-> "waiting", eval |-> e]
     THEN [rpc[q] EXCEPT !.at = "woken"] ELSE rpc[q]]

(***************************************************************************)
(* fire, for evaluator e with the given scores, called by a request or, if *)
(* by is empty, by the timer.                                              *)
(***************************************************************************)
Fire(e, scores, by) ==
  /\ \E winner \in Candidates(scores) :
       evals' = [evals EXCEPT ![e].scores = scores,
                              ![e].fired = Len(scores),
                              ![e].highestScore = [node |-> call[winner].node,
                                                   score |-> call[winner].score]]
  /\ current' = 0
  /\ rpc' = Woken(e, by)

(* A plausible bug: fire without asking whether the evaluator has fired. *)
RecordAlways(r) ==
  /\ ~panicked
  /\ rpc[r].at = "found"
  /\ LET e == rpc[r].eval
         scores == Append(evals[e].scores, r)
     IN  \/ Len(scores) >= evals[e].limit /\ Fire(e, scores, {r})
         \/ /\ Len(scores) < evals[e].limit
            /\ evals' = [evals EXCEPT ![e].scores = scores]
            /\ rpc' = [rpc EXCEPT ![r].at = "waiting"]
            /\ UNCHANGED current
  /\ UNCHANGED <<call, conn, panicked>>

(***************************************************************************)
(* Under the evaluator's lock: the score is added, and fires the evaluator *)
(* when it is the last one expected.  A score that comes after the firing  *)
(* waits too, unless it makes up the number: nobody wakes it any more.     *)
(***************************************************************************)
Record(r) ==
  /\ ~panicked
  /\ rpc[r].at = "found"
  /\ LET e == rpc[r].eval
         scores == Append(evals[e].scores, r)
         full == Len(scores) >= evals[e].limit
     IN  \/ full /\ ~Fired(evals[e]) /\ Fire(e, scores, {r})
         \/ /\ ~full \/ Fired(evals[e])
            /\ evals' = [evals EXCEPT ![e].scores = scores]
            /\ rpc' = [rpc EXCEPT ![r].at = IF full THEN "woken" ELSE "waiting"]
            /\ UNCHANGED current
  /\ UNCHANGED <<call, conn, panicked>>

(***************************************************************************)
(* The goroutine of startOneEvaluator, after 5s; it does nothing when the  *)
(* evaluator has fired.  Without a score there is no candidate, and        *)
(* rand.Intn(0) panics.                                                    *)
(***************************************************************************)
Timer(e) ==
  /\ ~panicked
  /\ ~Fired(evals[e])
  /\ \/ evals[e].scores # <<>> /\ Fire(e, evals[e].scores, {}) /\ UNCHANGED panicked
     \/ evals[e].scores = <<>> /\ panicked' = TRUE /\ UNCHANGED <<evals, rpc, current>>
  /\ UNCHANGED <<call, conn>>

(* CollectScore answers, and the scheduler hears it if it still listens *)
Answer(r) ==
  /\ ~panicked
  /\ rpc[r].at = "woken"
  /\ rpc' = [rpc EXCEPT ![r].at = "answered"]
  /\ call' = IF call[r].at # "calling" THEN call
             ELSE [call EXCEPT ![r].at =
                     IF evals[rpc[r].eval].highestScore.node = call[r].node
                     THEN "permitted" ELSE "denied"]
  /\ UNCHANGED <<conn, evals, current, panicked>>

ServerStep(r) == Lookup(r) \/ Record(r) \/ Answer(r)

Next ==
  \/ \E r \in Requests :
       \/ Permit(r) \/ ScheduleFails(r) \/ ConnectFails(r)
       \/ CallFails(r) \/ RequestLost(r)
       \/ ServerStep(r)
  \/ \E e \in 1 .. Len(evals) : Timer(e)

(***************************************************************************)
(* The evaluator's process keeps running its handlers and its timers.      *)
(* Nothing is asked of the schedulers.  Every request starts at most one   *)
(* evaluator, so there are at most as many timers.                         *)
(***************************************************************************)
Fairness ==
  /\ \A r \in Requests : WF_vars(ServerStep(r))
  /\ \A e \in 1 .. Cardinality(Requests) : WF_vars(e <= Len(evals) /\ Timer(e))

Spec == Init /\ [][Next]_vars /\ Fairness

-------------------------------------------------------------------------------
(***************************************************************************)
(* Properties.                                                             *)
(***************************************************************************)
Permitted == {r \in Requests : call[r].at = "permitted"}

(***************************************************************************)
(* One evaluator has one verdict: the schedulers it permits to bind all    *)
(* named the same node, however late their scores came.                    *)
(***************************************************************************)
PermitsAgree ==
  \A r, q \in Permitted : rpc[r].eval = rpc[q].eval => call[r].node = call[q].node

(* The requests evaluator e had the scores of when it fired. *)
Counted(e) == {evals[e].scores[i] : i \in 1 .. evals[e].fired}

(***************************************************************************)
(* A permit is for a node that really fits, and no scheduler whose score   *)
(* was there when the evaluator fired had a better one.                    *)
(***************************************************************************)
WinnerIsBest ==
  \A r \in Permitted :
    \E b \in Counted(rpc[r].eval) :
      /\ call[b].node = call[r].node
      /\ call[b].node # NoNode
      /\ \A q \in Counted(rpc[r].eval) : call[q].score <= call[b].score

(***************************************************************************)
(* An evaluator is the map's entry until it fires and never again: no two  *)
(* evaluators collect scores of the same pod at the same time, and firing  *)
(* deletes no entry but its own.                                           *)
(***************************************************************************)
UnfiredIsCurrent ==
  \A e \in 1 .. Len(evals) : Fired(evals[e]) <=> e # current

(***************************************************************************)
(* A call whose score is there when the evaluator fires is answered, and   *)
(* every evaluator does fire: nobody waits for a scheduler that is gone.   *)
(***************************************************************************)
PunctualIsAnswered ==
  \A r \in Requests :
    (rpc[r].at = "waiting" /\ rpc[r].eval = current) ~> (rpc[r].at = "answered" \/ panicked)

===============================================================================
