-------------------------- MODULE ScoreEvaluatorProof --------------------------
(***************************************************************************)
(* The safety properties of ScoreEvaluator, for any number of schedulers,  *)
(* nodes, attempts and limits, with connections and calls that may fail.   *)
(***************************************************************************)
EXTENDS ScoreEvaluator, FiniteSetTheorems, TLAPS

Names == Nodes \union {NoNode}
CallAts == {"idle", "calling", "permitted", "denied"}
RpcAts == {"none", "sent", "lost", "found", "waiting", "woken", "answered"}
Call == [at : CallAts, node : Names, score : 0 .. MaxScore]
Rpc == [at : RpcAts, eval : Nat]
Evaluator ==
  [limit : Nat, scores : Seq(Requests), highestScore : [node : Names, score : Int], fired : Nat]

TypeOK ==
  /\ call \in [Requests -> Call]
  /\ conn \in [Schedulers -> {"none", "cached", "leaked"}]
  /\ rpc \in [Requests -> Rpc]
  /\ evals \in Seq(Evaluator)
  /\ current \in 0 .. Len(evals)
  /\ panicked \in BOOLEAN

(* A request is known to the evaluator's process only once it has a score, *)
(* and only one with a node is waited for.                                 *)
SentHasScore ==
  \A r \in Requests :
    /\ rpc[r].at # "none" => call[r].at # "idle"
    /\ call[r].at \in {"calling", "permitted"} => call[r].node # NoNode

(* A handler that has looked for its evaluator has one. *)
HasEvaluator ==
  \A r \in Requests :
    rpc[r].at \in {"found", "waiting", "woken", "answered"} => rpc[r].eval \in 1 .. Len(evals)

(* A score is in the evaluator its request found, and in no other. *)
ScoresAreOwn ==
  \A e \in 1 .. Len(evals) : \A i \in 1 .. Len(evals[e].scores) :
    /\ rpc[evals[e].scores[i]].at \in {"waiting", "woken", "answered"}
    /\ rpc[evals[e].scores[i]].eval = e

(* Request scores[i] of e has the best of the scores e had when it fired,  *)
(* and is its verdict.                                                      *)
IsVerdict(e, i) ==
  /\ evals[e].highestScore.node = call[evals[e].scores[i]].node
  /\ evals[e].highestScore.score = call[evals[e].scores[i]].score
  /\ \A j \in 1 .. evals[e].fired :
       call[evals[e].scores[j]].score <= call[evals[e].scores[i]].score

(* An evaluator that has fired keeps the verdict over the scores it had. *)
VerdictHolds ==
  \A e \in 1 .. Len(evals) : Fired(evals[e]) =>
    /\ evals[e].fired <= Len(evals[e].scores)
    /\ \E i \in 1 .. evals[e].fired : IsVerdict(e, i)

(* Nobody is woken before the verdict, and a permit follows it. *)
AnswersFollow ==
  \A r \in Requests :
    /\ rpc[r].at \in {"woken", "answered"} => Fired(evals[rpc[r].eval])
    /\ call[r].at = "permitted" =>
         /\ rpc[r].at = "answered"
         /\ call[r].node = evals[rpc[r].eval].highestScore.node

Inv ==
  /\ TypeOK
  /\ SentHasScore
  /\ HasEvaluator
  /\ ScoresAreOwn
  /\ UnfiredIsCurrent
  /\ VerdictHolds
  /\ AnswersFollow

-------------------------------------------------------------------------------
(***************************************************************************)
(* Steps that leave the evaluators alone.  What such a step may do to one  *)
(* request: send it, lose it, answer it, or deny it.                       *)
(***************************************************************************)
QuietMove(q) ==
  /\ rpc'[q].eval = rpc[q].eval
  /\ \/ rpc'[q].at = rpc[q].at
     \/ rpc[q].at \in {"none", "sent"} /\ rpc'[q].at \in {"sent", "lost"}
     \/ rpc[q].at = "woken" /\ rpc'[q].at = "answered"
  /\ rpc'[q].at # "none" => call'[q].at # "idle"
  /\ call'[q].at \in {"calling", "permitted"} => call'[q].node # NoNode
  /\ call[q].at # "idle" =>
       call'[q].at # "idle" /\ call'[q].node = call[q].node /\ call'[q].score = call[q].score
  /\ call'[q].at = "permitted" =>
       /\ rpc'[q].at = "answered"
       /\ call'[q].node = evals[rpc[q].eval].highestScore.node

Quiet ==
  /\ TypeOK'
  /\ evals' = evals
  /\ current' = current
  /\ \A q \in Requests : QuietMove(q)

LEMMA SendIsQuiet ==
  ASSUME TypeOK, SentHasScore, AnswersFollow,
         NEW r \in Requests, NEW n \in Names, NEW v \in 0 .. MaxScore,
         v # 0 => n # NoNode, call[r].at = "idle", SendScore(r, n, v)
  PROVE  Quiet
<1>1. r[1] \in Schedulers
  BY DEF Requests
<1>2. rpc[r].at = "none"
  BY DEF SentHasScore, TypeOK, Rpc
<1>3. /\ call' \in [Requests -> Call]
      /\ call'[r].at = IF v = 0 THEN "denied" ELSE "calling"
      /\ call'[r].node = n
      /\ call'[r].score = v
      /\ \A q \in Requests : q # r => call'[q] = call[q]
  <2>1. [at |-> IF v = 0 THEN "denied" ELSE "calling", node |-> n, score |-> v] \in Call
    BY DEF Call, CallAts
  <2> QED
    BY <2>1 DEF SendScore, TypeOK
<1>4. /\ rpc' \in [Requests -> Rpc]
      /\ rpc'[r].at = "sent"
      /\ rpc'[r].eval = rpc[r].eval
      /\ \A q \in Requests : q # r => rpc'[q] = rpc[q]
  BY DEF SendScore, TypeOK, Rpc, RpcAts
<1>5. TypeOK'
  BY <1>1, <1>3, <1>4 DEF SendScore, TypeOK
<1>6. QuietMove(r)
  BY <1>2, <1>3, <1>4 DEF QuietMove
<1>7. ASSUME NEW q \in Requests, q # r
      PROVE  QuietMove(q)
  BY <1>3, <1>4, <1>7 DEF QuietMove, SentHasScore, AnswersFollow
<1> QED
  BY <1>5, <1>6, <1>7 DEF Quiet, SendScore

LEMMA SchedulerIsQuiet ==
  ASSUME Inv, NEW r \in Requests,
         Permit(r) \/ ScheduleFails(r) \/ ConnectFails(r) \/ CallFails(r) \/ RequestLost(r)
  PROVE  Quiet
<1> USE DEF Inv
<1>0. r[1] \in Schedulers
  BY DEF Requests
<1>1. CASE Permit(r)
  <2>1. PICK n \in NodesOf[r[1]], v \in 0 .. MaxScore : SendScore(r, n, v)
    BY <1>1 DEF Permit
  <2>2. n \in Names /\ n # NoNode
    BY <1>0, NodesAssumption DEF Names
  <2> QED
    BY <1>1, <2>1, <2>2, SendIsQuiet DEF Permit
<1>2. CASE ScheduleFails(r)
  <2>1. NoNode \in Names /\ 0 \in 0 .. MaxScore
    BY ScoreAssumption DEF Names
  <2> QED
    BY <1>2, <2>1, SendIsQuiet DEF ScheduleFails
<1>3. CASE ConnectFails(r)
  <2>1. /\ call' \in [Requests -> Call]
        /\ call'[r].at = "denied"
        /\ \A q \in Requests : q # r => call'[q] = call[q]
    BY <1>3 DEF ConnectFails, TypeOK, Call, CallAts
  <2>2. TypeOK'
    BY <1>0, <1>3, <2>1 DEF ConnectFails, TypeOK
  <2>3. rpc' = rpc /\ call[r].at = "idle"
    BY <1>3 DEF ConnectFails
  <2>4. \A q \in Requests : QuietMove(q)
    BY <2>1, <2>3 DEF QuietMove, SentHasScore, AnswersFollow
  <2> QED
    BY <1>3, <2>2, <2>4 DEF ConnectFails, Quiet
<1>4. CASE CallFails(r)
  <2>1. /\ call' \in [Requests -> Call]
        /\ call'[r].at = "denied"
        /\ call'[r].node = call[r].node
        /\ call'[r].score = call[r].score
        /\ \A q \in Requests : q # r => call'[q] = call[q]
    BY <1>4 DEF CallFails, TypeOK, Call, CallAts
  <2>2. TypeOK'
    BY <1>4, <2>1 DEF CallFails, TypeOK
  <2>3. rpc' = rpc
    BY <1>4 DEF CallFails
  <2>4. \A q \in Requests : QuietMove(q)
    BY <2>1, <2>3 DEF QuietMove, SentHasScore, AnswersFollow
  <2> QED
    BY <1>4, <2>2, <2>4 DEF CallFails, Quiet
<1>5. CASE RequestLost(r)
  <2>1. /\ call' \in [Requests -> Call]
        /\ call'[r].at = "denied"
        /\ call'[r].node = call[r].node
        /\ call'[r].score = call[r].score
        /\ \A q \in Requests : q # r => call'[q] = call[q]
    BY <1>5 DEF RequestLost, TypeOK, Call, CallAts
  <2>2. /\ rpc' \in [Requests -> Rpc]
        /\ rpc[r].at = "sent"
        /\ rpc'[r].at = "lost"
        /\ rpc'[r].eval = rpc[r].eval
        /\ \A q \in Requests : q # r => rpc'[q] = rpc[q]
    BY <1>5 DEF RequestLost, TypeOK, Rpc, RpcAts
  <2>3. TypeOK'
    BY <1>5, <2>1, <2>2 DEF RequestLost, TypeOK
  <2>4. \A q \in Requests : QuietMove(q)
    BY <2>1, <2>2 DEF QuietMove, SentHasScore, AnswersFollow
  <2> QED
    BY <1>5, <2>3, <2>4 DEF RequestLost, Quiet
<1> QED
  BY <1>1, <1>2, <1>3, <1>4, <1>5

LEMMA AnswerIsQuiet ==
  ASSUME Inv, NEW r \in Requests, Answer(r)
  PROVE  Quiet
<1> USE DEF Inv
<1>1. /\ rpc' \in [Requests -> Rpc]
      /\ rpc[r].at = "woken"
      /\ rpc'[r].at = "answered"
      /\ rpc'[r].eval = rpc[r].eval
      /\ \A q \in Requests : q # r => rpc'[q] = rpc[q]
  BY DEF Answer, TypeOK, Rpc, RpcAts
<1>2. /\ call' \in [Requests -> Call]
      /\ \A q \in Requests : q # r => call'[q] = call[q]
      /\ call'[r].node = call[r].node
      /\ call'[r].score = call[r].score
      /\ \/ call'[r].at = call[r].at /\ call[r].at # "calling"
         \/ call[r].at = "calling" /\ call'[r].at = "denied"
         \/ /\ call[r].at = "calling"
            /\ call'[r].at = "permitted"
            /\ evals[rpc[r].eval].highestScore.node = call[r].node
  BY DEF Answer, TypeOK, Call, CallAts
<1>3. TypeOK'
  BY <1>1, <1>2 DEF Answer, TypeOK
<1>4. QuietMove(r)
  BY <1>1, <1>2 DEF QuietMove, SentHasScore, AnswersFollow
<1>5. ASSUME NEW q \in Requests, q # r
      PROVE  QuietMove(q)
  BY <1>1, <1>2, <1>5 DEF QuietMove, SentHasScore, AnswersFollow
<1> QED
  BY <1>3, <1>4, <1>5 DEF Answer, Quiet

LEMMA QuietKeepsInv ==
  ASSUME Inv, Quiet
  PROVE  Inv'
<1> USE DEF Inv
<1>1. SentHasScore'
  BY DEF Quiet, QuietMove, SentHasScore
<1>2. HasEvaluator'
  BY DEF Quiet, QuietMove, HasEvaluator
<1>3. ASSUME NEW e \in 1 .. Len(evals), NEW i \in 1 .. Len(evals[e].scores)
      PROVE  evals[e].scores[i] \in Requests
  <2>1. evals[e] \in Evaluator
    BY DEF TypeOK
  <2>2. evals[e].scores \in Seq(Requests)
    BY <2>1 DEF Evaluator
  <2> QED
    BY <2>2
<1>4. ScoresAreOwn'
  BY <1>3 DEF Quiet, QuietMove, ScoresAreOwn
<1>5. UnfiredIsCurrent'
  BY DEF Quiet, UnfiredIsCurrent, Fired
<1>6. VerdictHolds'
  <2> SUFFICES ASSUME NEW e \in 1 .. Len(evals), Fired(evals[e])
               PROVE  /\ evals[e].fired <= Len(evals[e].scores)
                      /\ \E i \in 1 .. evals[e].fired : IsVerdict(e, i)'
    BY DEF Quiet, VerdictHolds, Fired
  <2>1. evals[e].fired <= Len(evals[e].scores)
    BY DEF VerdictHolds
  <2>2. PICK i \in 1 .. evals[e].fired : IsVerdict(e, i)
    BY DEF VerdictHolds
  <2>3. evals[e] \in Evaluator
    BY DEF TypeOK
  <2>4. evals[e].fired \in Nat /\ Len(evals[e].scores) \in Nat
    BY <2>3 DEF Evaluator
  <2>5. ASSUME NEW j \in 1 .. evals[e].fired
        PROVE  /\ call'[evals[e].scores[j]].node = call[evals[e].scores[j]].node
               /\ call'[evals[e].scores[j]].score = call[evals[e].scores[j]].score
    <3>1. j \in 1 .. Len(evals[e].scores)
      BY <2>1, <2>4
    <3>2. evals[e].scores[j] \in Requests
      BY <1>3, <3>1
    <3>3. call[evals[e].scores[j]].at # "idle"
      BY <3>1, <3>2 DEF ScoresAreOwn, SentHasScore
    <3> QED
      BY <3>2, <3>3 DEF Quiet, QuietMove
  <2>6. IsVerdict(e, i)'
    BY <2>2, <2>5 DEF Quiet, IsVerdict
  <2> QED
    BY <2>1, <2>6
<1>7. AnswersFollow'
  BY DEF Quiet, QuietMove, AnswersFollow, Fired
<1> QED
  BY <1>1, <1>2, <1>4, <1>5, <1>6, <1>7 DEF Quiet

-------------------------------------------------------------------------------
(***************************************************************************)
(* Lookup: an evaluator is started only when there is no current one, so   *)
(* all the others have fired.                                              *)
(***************************************************************************)
LEMMA NewEvaluatorType ==
  ASSUME NEW limit \in Limits
  PROVE  NewEvaluator(limit) \in Evaluator /\ ~Fired(NewEvaluator(limit))
         /\ NewEvaluator(limit).scores = <<>>
<1>1. <<>> \in Seq(Requests)
  OBVIOUS
<1>2. NoScore \in [node : Names, score : Int]
  BY DEF NoScore, Names
<1>3. limit \in Nat
  BY LimitsAssumption
<1> QED
  BY <1>1, <1>2, <1>3 DEF NewEvaluator, Evaluator, Fired

LEMMA LookupKeepsInv ==
  ASSUME Inv, NEW r \in Requests, Lookup(r)
  PROVE  Inv'
<1> USE DEF Inv
<1>0. /\ Len(evals) \in Nat
      /\ \A e \in 1 .. Len(evals) : evals[e] \in Evaluator
  BY DEF TypeOK
(* what becomes of the evaluators *)
<1>1. /\ evals' \in Seq(Evaluator)
      /\ Len(evals') >= Len(evals)
      /\ current' \in 1 .. Len(evals')
      /\ \A e \in 1 .. Len(evals) : evals'[e] = evals[e]
      /\ UnfiredIsCurrent'
      /\ \A e \in 1 .. Len(evals') :
           e \notin 1 .. Len(evals) => evals'[e].scores = <<>> /\ ~Fired(evals'[e])
  <2>1. CASE current # 0
    <3>1. evals' = evals /\ current' = current
      BY <2>1 DEF Lookup
    <3> QED
      BY <1>0, <2>1, <3>1 DEF TypeOK, UnfiredIsCurrent, Fired
  <2>2. CASE current = 0
    <3>1. PICK limit \in Limits : evals' = Append(evals, NewEvaluator(limit))
      BY <2>2 DEF Lookup
    <3>2. current' = Len(evals')
      BY <2>2 DEF Lookup
    <3> DEFINE new == NewEvaluator(limit)
    <3>3. new \in Evaluator /\ ~Fired(new) /\ new.scores = <<>>
      BY NewEvaluatorType
    <3> HIDE DEF new
    <3>4. /\ evals' \in Seq(Evaluator)
          /\ Len(evals') = Len(evals) + 1
          /\ evals'[Len(evals) + 1] = new
          /\ \A e \in 1 .. Len(evals) : evals'[e] = evals[e]
      BY <3>1, <3>3 DEF TypeOK, new
    <3>5. \A e \in 1 .. Len(evals') : e \in 1 .. Len(evals) \/ e = Len(evals) + 1
      BY <1>0, <3>4
    <3>6. \A e \in 1 .. Len(evals) : Fired(evals'[e])
      BY <1>0, <2>2, <3>4 DEF UnfiredIsCurrent
    <3>7. ~Fired(evals'[Len(evals) + 1])
      BY <3>3, <3>4
    <3>8. Len(evals) + 1 \notin 1 .. Len(evals)
      BY <1>0
    <3>9. UnfiredIsCurrent'
      <4> SUFFICES ASSUME NEW e \in 1 .. Len(evals')
                   PROVE  Fired(evals'[e]) <=> e # current'
        BY DEF UnfiredIsCurrent, Fired
      <4> QED
        BY <3>2, <3>4, <3>5, <3>6, <3>7, <3>8
    <3> QED
      BY <1>0, <3>2, <3>3, <3>4, <3>5, <3>7, <3>9
  <2> QED
    BY <2>1, <2>2
<1>2. call' = call /\ rpc[r].at = "sent" /\ conn' = conn /\ panicked' = panicked
  BY DEF Lookup
<1>3. /\ rpc' \in [Requests -> Rpc]
      /\ rpc'[r].at = "found"
      /\ rpc'[r].eval = current'
      /\ \A q \in Requests : q # r => rpc'[q] = rpc[q]
  <2>1. current' \in Nat
    BY <1>1
  <2>2. rpc' = [rpc EXCEPT ![r] = [at |-> "found", eval |-> current']]
    BY DEF Lookup
  <2> QED
    BY <2>1, <2>2 DEF TypeOK, Rpc, RpcAts
<1>4. TypeOK'
  BY <1>1, <1>2, <1>3 DEF TypeOK
<1>5. SentHasScore'
  BY <1>2, <1>3 DEF SentHasScore
<1>6. HasEvaluator'
  BY <1>0, <1>1, <1>3 DEF HasEvaluator
<1>7. ScoresAreOwn'
  <2> SUFFICES ASSUME NEW e \in 1 .. Len(evals'), NEW i \in 1 .. Len(evals'[e].scores)
               PROVE  /\ rpc'[evals'[e].scores[i]].at \in {"waiting", "woken", "answered"}
                      /\ rpc'[evals'[e].scores[i]].eval = e
    BY DEF ScoresAreOwn
  <2>1. e \in 1 .. Len(evals)
    BY <1>1
  <2>2. evals'[e] = evals[e]
    BY <1>1, <2>1
  <2>3. evals[e].scores \in Seq(Requests)
    BY <1>0, <2>1 DEF Evaluator
  <2>4. evals[e].scores[i] \in Requests
    BY <2>2, <2>3
  <2>5. rpc'[evals[e].scores[i]] = rpc[evals[e].scores[i]]
    BY <1>2, <1>3, <2>1, <2>2, <2>4 DEF ScoresAreOwn
  <2> QED
    BY <2>1, <2>2, <2>5 DEF ScoresAreOwn
<1>8. VerdictHolds'
  <2> SUFFICES ASSUME NEW e \in 1 .. Len(evals'), Fired(evals'[e])
               PROVE  /\ evals'[e].fired <= Len(evals'[e].scores)
                      /\ \E i \in 1 .. evals'[e].fired : IsVerdict(e, i)'
    BY DEF VerdictHolds, Fired
  <2>1. e \in 1 .. Len(evals)
    BY <1>1
  <2>2. evals'[e] = evals[e]
    BY <1>1, <2>1
  <2> QED
    BY <1>2, <2>1, <2>2 DEF VerdictHolds, IsVerdict
<1>9. AnswersFollow'
  <2>1. ASSUME NEW q \in Requests, q # r
        PROVE  rpc'[q].at \in {"woken", "answered"} => evals'[rpc'[q].eval] = evals[rpc[q].eval]
    BY <1>1, <1>3, <2>1 DEF HasEvaluator
  <2> SUFFICES ASSUME NEW q \in Requests
               PROVE  /\ rpc'[q].at \in {"woken", "answered"} => Fired(evals'[rpc'[q].eval])
                      /\ call'[q].at = "permitted" =>
                           /\ rpc'[q].at = "answered"
                           /\ call'[q].node = evals'[rpc'[q].eval].highestScore.node
    BY DEF AnswersFollow, Fired
  <2> QED
    BY <1>2, <1>3, <2>1 DEF AnswersFollow
<1> QED
  BY <1>1, <1>4, <1>5, <1>6, <1>7, <1>8, <1>9

-------------------------------------------------------------------------------
(***************************************************************************)
(* fire, of an evaluator that has not fired: it is the current one.        *)
(***************************************************************************)
FiredWith(o, s, n, h) ==
  [[[o EXCEPT !.scores = s] EXCEPT !.fired = n] EXCEPT !.highestScore = h]

LEMMA EvaluatorFields ==
  ASSUME NEW o \in Evaluator, NEW s, NEW n, NEW h
  PROVE  FiredWith(o, s, n, h)
           = [limit |-> o.limit, scores |-> s, highestScore |-> h, fired |-> n]
<1>1. [o EXCEPT !.scores = s]
        = [limit |-> o.limit, scores |-> s, highestScore |-> o.highestScore, fired |-> o.fired]
  BY DEF Evaluator
<1>2. [[limit |-> o.limit, scores |-> s, highestScore |-> o.highestScore, fired |-> o.fired]
         EXCEPT !.fired = n]
        = [limit |-> o.limit, scores |-> s, highestScore |-> o.highestScore, fired |-> n]
  OBVIOUS
<1>3. [[limit |-> o.limit, scores |-> s, highestScore |-> o.highestScore, fired |-> n]
         EXCEPT !.highestScore = h]
        = [limit |-> o.limit, scores |-> s, highestScore |-> h, fired |-> n]
  OBVIOUS
<1> QED
  BY <1>1, <1>2, <1>3 DEF FiredWith

LEMMA FireFacts ==
  ASSUME TypeOK, NEW e \in 1 .. Len(evals), NEW scores \in Seq(Requests),
         NEW by \in SUBSET Requests, Fire(e, scores, by)
  PROVE  /\ evals' \in Seq(Evaluator)
         /\ Len(evals') = Len(evals)
         /\ \A f \in 1 .. Len(evals) : f # e => evals'[f] = evals[f]
         /\ evals'[e].scores = scores
         /\ evals'[e].fired = Len(scores)
         /\ \E i \in 1 .. Len(scores) :
              /\ evals'[e].highestScore.node = call[scores[i]].node
              /\ evals'[e].highestScore.score = call[scores[i]].score
              /\ \A j \in 1 .. Len(scores) : call[scores[j]].score <= call[scores[i]].score
         /\ Fired(evals'[e])
<1>1. PICK winner \in Candidates(scores) :
        evals' = [evals EXCEPT ![e].scores = scores,
                               ![e].fired = Len(scores),
                               ![e].highestScore = [node |-> call[winner].node,
                                                    score |-> call[winner].score]]
  BY DEF Fire
<1>2. PICK i \in 1 .. Len(scores) : winner = scores[i]
  BY DEF Candidates
<1>3. \A j \in 1 .. Len(scores) : call[scores[j]].score <= call[scores[i]].score
  BY <1>2 DEF Candidates
<1>4. winner \in Requests
  BY <1>2
<1>5. call[winner].node \in Names /\ call[winner].score \in 0 .. MaxScore
  BY <1>4 DEF TypeOK, Call
<1> DEFINE h == [node |-> call[winner].node, score |-> call[winner].score]
<1>6. h \in [node : Names, score : Int] /\ h # NoScore /\ h.node = call[winner].node
      /\ h.score = call[winner].score
  <2>1. h.score # NoScore.score
    BY <1>5, ScoreAssumption DEF NoScore
  <2> QED
    BY <1>5, <2>1, ScoreAssumption
<1>7. evals[e] \in Evaluator /\ Len(evals) \in Nat /\ Len(scores) \in Nat
  BY DEF TypeOK
<1> DEFINE new == [limit |-> evals[e].limit, scores |-> scores, highestScore |-> h,
                   fired |-> Len(scores)]
<1>8. new \in Evaluator
  BY <1>6, <1>7 DEF Evaluator
<1>9. evals' = [evals EXCEPT ![e] = new]
  <2>1. evals \in [1 .. Len(evals) -> Evaluator] /\ e \in 1 .. Len(evals)
    BY DEF TypeOK
  <2> DEFINE a == [evals EXCEPT ![e].scores = scores]
             b == [a EXCEPT ![e].fired = Len(scores)]
             c == [b EXCEPT ![e].highestScore = h]
  <2>2. evals' = c
    BY <1>1
  <2>3. a = [evals EXCEPT ![e] = [evals[e] EXCEPT !.scores = scores]]
    BY <2>1
  <2>4. b = [evals EXCEPT ![e] = [[evals[e] EXCEPT !.scores = scores] EXCEPT !.fired = Len(scores)]]
    BY <2>1, <2>3
  <2>5. c = [evals EXCEPT ![e] = FiredWith(evals[e], scores, Len(scores), h)]
    BY <2>1, <2>4 DEF FiredWith
  <2>6. FiredWith(evals[e], scores, Len(scores), h) = new
    BY <1>7, EvaluatorFields
  <2> QED
    BY <2>2, <2>5, <2>6
<1>10. new.scores = scores /\ new.fired = Len(scores) /\ new.highestScore = h
  OBVIOUS
<1> HIDE DEF new, h
<1>11. /\ evals' \in Seq(Evaluator)
       /\ Len(evals') = Len(evals)
       /\ \A f \in 1 .. Len(evals) : f # e => evals'[f] = evals[f]
       /\ evals'[e] = new
  BY <1>8, <1>9 DEF TypeOK
<1> QED
  BY <1>2, <1>3, <1>6, <1>10, <1>11 DEF Fired

LEMMA WokenFacts ==
  ASSUME TypeOK, NEW e \in 1 .. Len(evals), NEW by \in SUBSET Requests,
         rpc' = Woken(e, by)
  PROVE  /\ rpc' \in [Requests -> Rpc]
         /\ \A q \in Requests :
              /\ rpc'[q].eval = rpc[q].eval
              /\ \/ rpc'[q] = rpc[q] /\ q \notin by
                 \/ q \in by /\ rpc'[q].at = "woken"
                 \/ rpc[q].at = "waiting" /\ rpc[q].eval = e /\ rpc'[q].at = "woken"
<1> SUFFICES ASSUME NEW q \in Requests
             PROVE  /\ rpc'[q] \in Rpc
                    /\ rpc'[q].eval = rpc[q].eval
                    /\ \/ rpc'[q] = rpc[q] /\ q \notin by
                       \/ q \in by /\ rpc'[q].at = "woken"
                       \/ rpc[q].at = "waiting" /\ rpc[q].eval = e /\ rpc'[q].at = "woken"
  BY DEF Woken
<1>1. rpc[q] \in Rpc
  BY DEF TypeOK
<1>2. CASE q \in by \/ rpc[q] = [at |-> "waiting", eval |-> e]
  <2>1. rpc'[q] = [rpc[q] EXCEPT !.at = "woken"]
    BY <1>2 DEF Woken
  <2>2. rpc'[q].at = "woken" /\ rpc'[q].eval = rpc[q].eval /\ rpc'[q] \in Rpc
    BY <1>1, <2>1 DEF Rpc, RpcAts
  <2>3. rpc[q] = [at |-> "waiting", eval |-> e] => rpc[q].at = "waiting" /\ rpc[q].eval = e
    OBVIOUS
  <2> QED
    BY <1>2, <2>2, <2>3
<1>3. CASE ~(q \in by \/ rpc[q] = [at |-> "waiting", eval |-> e])
  BY <1>1, <1>3 DEF Woken
<1> QED
  BY <1>2, <1>3

(***************************************************************************)
(* Firing keeps the invariant.  The scores are those the evaluator had and *)
(* those of the requests that fire it, which have just found it.           *)
(***************************************************************************)
LEMMA FireKeepsInv ==
  ASSUME Inv, NEW e \in 1 .. Len(evals), NEW scores \in Seq(Requests),
         NEW by \in SUBSET Requests, ~Fired(evals[e]),
         Fire(e, scores, by), UNCHANGED <<call, conn, panicked>>,
         \A r \in by : rpc[r].at = "found" /\ rpc[r].eval = e,
         \A i \in 1 .. Len(scores) :
           scores[i] \in by \/ \E j \in 1 .. Len(evals[e].scores) : scores[i] = evals[e].scores[j]
  PROVE  Inv'
<1> USE DEF Inv
<1>0. /\ Len(evals) \in Nat
      /\ \A f \in 1 .. Len(evals) : evals[f] \in Evaluator
      /\ current \in 0 .. Len(evals)
  BY DEF TypeOK
<1>1. /\ evals' \in Seq(Evaluator)
      /\ Len(evals') = Len(evals)
      /\ \A f \in 1 .. Len(evals) : f # e => evals'[f] = evals[f]
      /\ evals'[e].scores = scores
      /\ evals'[e].fired = Len(scores)
      /\ \E i \in 1 .. Len(scores) :
           /\ evals'[e].highestScore.node = call[scores[i]].node
           /\ evals'[e].highestScore.score = call[scores[i]].score
           /\ \A j \in 1 .. Len(scores) : call[scores[j]].score <= call[scores[i]].score
      /\ Fired(evals'[e])
  BY FireFacts
<1>2. /\ rpc' \in [Requests -> Rpc]
      /\ \A q \in Requests :
           /\ rpc'[q].eval = rpc[q].eval
           /\ \/ rpc'[q] = rpc[q] /\ q \notin by
              \/ q \in by /\ rpc'[q].at = "woken"
              \/ rpc[q].at = "waiting" /\ rpc[q].eval = e /\ rpc'[q].at = "woken"
  BY WokenFacts DEF Fire
<1>3. current' = 0 /\ call' = call
  BY DEF Fire
<1>4. TypeOK'
  BY <1>0, <1>1, <1>2, <1>3 DEF TypeOK
<1>5. SentHasScore'
  BY <1>2, <1>3 DEF SentHasScore
<1>6. HasEvaluator'
  BY <1>1, <1>2 DEF HasEvaluator
<1>7. ScoresAreOwn'
  <2> SUFFICES ASSUME NEW f \in 1 .. Len(evals), NEW i \in 1 .. Len(evals'[f].scores)
               PROVE  /\ rpc'[evals'[f].scores[i]].at \in {"waiting", "woken", "answered"}
                      /\ rpc'[evals'[f].scores[i]].eval = f
    BY <1>1 DEF ScoresAreOwn
  <2>1. evals[f].scores \in Seq(Requests)
    BY <1>0 DEF Evaluator
  <2>2. CASE f # e
    <3>1. evals'[f] = evals[f]
      BY <1>1, <2>2
    <3>2. evals[f].scores[i] \in Requests
      BY <2>1, <3>1
    <3>3. /\ rpc[evals[f].scores[i]].at \in {"waiting", "woken", "answered"}
          /\ rpc[evals[f].scores[i]].eval = f
      BY <3>1 DEF ScoresAreOwn
    <3> QED
      BY <1>2, <3>1, <3>2, <3>3
  <2>3. CASE f = e
    <3>1. evals'[f].scores[i] = scores[i] /\ i \in 1 .. Len(scores)
      BY <1>1, <2>3
    <3>2. CASE scores[i] \in by
      BY <1>2, <2>3, <3>1, <3>2
    <3>3. CASE \E j \in 1 .. Len(evals[e].scores) : scores[i] = evals[e].scores[j]
      <4>1. PICK j \in 1 .. Len(evals[e].scores) : scores[i] = evals[e].scores[j]
        BY <3>3
      <4>2. scores[i] \in Requests
        BY <3>1
      <4>3. rpc[scores[i]].at \in {"waiting", "woken", "answered"} /\ rpc[scores[i]].eval = e
        BY <4>1 DEF ScoresAreOwn
      <4> QED
        BY <1>2, <2>3, <3>1, <4>2, <4>3
    <3> QED
      BY <3>1, <3>2, <3>3
  <2> QED
    BY <2>2, <2>3
<1>8. UnfiredIsCurrent'
  <2>1. e = current
    BY DEF UnfiredIsCurrent
  <2> SUFFICES ASSUME NEW f \in 1 .. Len(evals)
               PROVE  Fired(evals'[f]) <=> f # current'
    BY <1>1 DEF UnfiredIsCurrent, Fired
  <2>2. f # current'
    BY <1>0, <1>3
  <2>3. Fired(evals'[f])
    BY <1>1, <2>1 DEF UnfiredIsCurrent
  <2> QED
    BY <2>2, <2>3
<1>9. VerdictHolds'
  <2> SUFFICES ASSUME NEW f \in 1 .. Len(evals), Fired(evals'[f])
               PROVE  /\ evals'[f].fired <= Len(evals'[f].scores)
                      /\ \E i \in 1 .. evals'[f].fired : IsVerdict(f, i)'
    BY <1>1 DEF VerdictHolds, Fired
  <2>1. CASE f # e
    <3>1. evals'[f] = evals[f]
      BY <1>1, <2>1
    <3> QED
      BY <1>3, <3>1 DEF VerdictHolds, IsVerdict
  <2>2. CASE f = e
    <3>1. Len(scores) \in Nat
      OBVIOUS
    <3> QED
      BY <1>1, <1>3, <2>2, <3>1, SMTT(30) DEF IsVerdict
  <2> QED
    BY <2>1, <2>2
<1>10. AnswersFollow'
  <2> SUFFICES ASSUME NEW q \in Requests
               PROVE  /\ rpc'[q].at \in {"woken", "answered"} => Fired(evals'[rpc'[q].eval])
                      /\ call'[q].at = "permitted" =>
                           /\ rpc'[q].at = "answered"
                           /\ call'[q].node = evals'[rpc'[q].eval].highestScore.node
    BY DEF AnswersFollow, Fired
  <2>1. CASE rpc'[q] = rpc[q]
    <3>1. rpc[q].at \in {"woken", "answered"} => evals'[rpc[q].eval] = evals[rpc[q].eval]
      BY <1>1 DEF HasEvaluator, AnswersFollow
    <3> QED
      BY <1>3, <2>1, <3>1 DEF AnswersFollow
  <2>2. CASE rpc'[q] # rpc[q]
    <3>1. rpc'[q].eval = e /\ rpc[q].at \in {"found", "waiting"}
      BY <1>2, <2>2
    <3> QED
      BY <1>1, <1>3, <3>1 DEF AnswersFollow
  <2> QED
    BY <2>1, <2>2
<1> QED
  BY <1>4, <1>5, <1>6, <1>7, <1>8, <1>9, <1>10

-------------------------------------------------------------------------------
LEMMA AppendFacts ==
  ASSUME NEW S, NEW q \in Seq(S), NEW x \in S, NEW s, s = Append(q, x)
  PROVE  /\ s \in Seq(S)
         /\ Len(s) = Len(q) + 1
         /\ s[Len(s)] = x
         /\ \A i \in 1 .. Len(q) : s[i] = q[i]
         /\ Len(q) \in Nat
OBVIOUS

LEMMA Within ==
  ASSUME NEW m \in Nat, NEW n \in Nat, m <= n
  PROVE  m <= n + 1 /\ \A j \in 1 .. m : j \in 1 .. n
OBVIOUS

(***************************************************************************)
(* RecordAndWait without firing: the score comes behind those the verdict, *)
(* if there is one, was about.                                             *)
(***************************************************************************)
LEMMA WaitKeepsInv ==
  ASSUME Inv, NEW r \in Requests, rpc[r].at = "found",
         NEW e, e = rpc[r].eval,
         NEW s, s = Append(evals[e].scores, r),
         NEW at \in {"woken", "waiting"}, at = "woken" => Fired(evals[e]),
         evals' = [evals EXCEPT ![e].scores = s],
         rpc' = [rpc EXCEPT ![r].at = at],
         UNCHANGED <<call, conn, current, panicked>>
  PROVE  Inv'
<1> USE DEF Inv
<1>0. e \in 1 .. Len(evals) /\ Len(evals) \in Nat
  BY DEF HasEvaluator, TypeOK
<1>1. /\ evals \in [1 .. Len(evals) -> Evaluator]
      /\ \A f \in 1 .. Len(evals) : /\ evals[f] \in Evaluator
                                    /\ evals[f].scores \in Seq(Requests)
                                    /\ evals[f].fired \in Nat
  <2>1. evals \in [1 .. Len(evals) -> Evaluator]
    BY DEF TypeOK
  <2>2. \A f \in 1 .. Len(evals) : evals[f] \in Evaluator
    BY <2>1
  <2> QED
    BY <2>1, <2>2 DEF Evaluator
<1>2. /\ s \in Seq(Requests)
      /\ Len(s) = Len(evals[e].scores) + 1
      /\ s[Len(s)] = r
      /\ \A i \in 1 .. Len(evals[e].scores) : s[i] = evals[e].scores[i]
      /\ Len(evals[e].scores) \in Nat
  <2>1. evals[e].scores \in Seq(Requests)
    BY <1>0, <1>1
  <2> QED
    <3>1. PICK q \in Seq(Requests) : q = evals[e].scores
      BY <2>1
    <3>2. s = Append(q, r)
      BY <3>1
    <3>3. /\ s \in Seq(Requests)
          /\ Len(s) = Len(q) + 1
          /\ s[Len(s)] = r
          /\ \A i \in 1 .. Len(q) : s[i] = q[i]
          /\ Len(q) \in Nat
      BY <3>2, AppendFacts
    <3> QED
      BY <3>1, <3>3
<1>3. /\ evals' \in Seq(Evaluator)
      /\ Len(evals') = Len(evals)
      /\ \A f \in 1 .. Len(evals) : f # e => evals'[f] = evals[f]
      /\ evals'[e].scores = s
      /\ evals'[e].fired = evals[e].fired
      /\ evals'[e].highestScore = evals[e].highestScore
  <2> DEFINE n == [evals[e] EXCEPT !.scores = s]
  <2>1. n \in Evaluator /\ n.scores = s /\ n.fired = evals[e].fired
        /\ n.highestScore = evals[e].highestScore
    BY <1>0, <1>1, <1>2 DEF Evaluator
  <2>2. evals' = [evals EXCEPT ![e] = n]
    BY <1>0, <1>1
  <2> HIDE DEF n
  <2>3. /\ evals' \in Seq(Evaluator)
        /\ Len(evals') = Len(evals)
        /\ \A f \in 1 .. Len(evals) : f # e => evals'[f] = evals[f]
        /\ evals'[e] = n
    BY <1>0, <2>1, <2>2, SMTT(30) DEF TypeOK
  <2> QED
    BY <2>1, <2>3
<1>4. /\ rpc' \in [Requests -> Rpc]
      /\ rpc'[r].at = at
      /\ rpc'[r].eval = e
      /\ \A q \in Requests : q # r => rpc'[q] = rpc[q]
  BY DEF TypeOK, Rpc, RpcAts
<1>5. call' = call /\ current' = current /\ conn' = conn /\ panicked' = panicked
  OBVIOUS
<1>6. TypeOK'
  BY <1>3, <1>4, <1>5 DEF TypeOK
<1>7. SentHasScore'
  BY <1>4, <1>5 DEF SentHasScore
<1>8. HasEvaluator'
  BY <1>3, <1>4 DEF HasEvaluator
<1>9. ScoresAreOwn'
  <2> SUFFICES ASSUME NEW f \in 1 .. Len(evals), NEW i \in 1 .. Len(evals'[f].scores)
               PROVE  /\ rpc'[evals'[f].scores[i]].at \in {"waiting", "woken", "answered"}
                      /\ rpc'[evals'[f].scores[i]].eval = f
    BY <1>3 DEF ScoresAreOwn
  <2>1. ASSUME NEW j \in 1 .. Len(evals[f].scores)
        PROVE  /\ rpc'[evals[f].scores[j]].at \in {"waiting", "woken", "answered"}
               /\ rpc'[evals[f].scores[j]].eval = f
    <3>1. evals[f].scores[j] \in Requests
      BY <1>1
    <3> QED
      BY <1>4, <3>1 DEF ScoresAreOwn
  <2>2. CASE f # e
    BY <1>3, <2>1, <2>2
  <2>3. CASE f = e
    <3>1. i \in 1 .. Len(evals[e].scores) \/ i = Len(s)
      BY <1>2, <1>3, <2>3, SMTT(30)
    <3>2. CASE i \in 1 .. Len(evals[e].scores)
      <4>1. evals'[f].scores[i] = evals[f].scores[i]
        <5>1. evals'[f].scores = s /\ evals[f].scores = evals[e].scores
          BY <1>3, <2>3, Zenon
        <5>2. s[i] = evals[e].scores[i]
          BY <1>2, <3>2, Zenon
        <5> QED
          BY <5>1, <5>2, Zenon
      <4> QED
        BY <2>1, <2>3, <3>2, <4>1
    <3>3. CASE i = Len(s)
      <4>1. evals'[f].scores[i] = r
        BY <1>2, <1>3, <2>3, <3>3
      <4> QED
        BY <1>4, <2>3, <4>1
    <3> QED
      BY <3>1, <3>2, <3>3
  <2> QED
    BY <2>2, <2>3
<1>10. \A f \in 1 .. Len(evals) : evals'[f].highestScore = evals[f].highestScore
  BY <1>3
<1>11. UnfiredIsCurrent'
  BY <1>3, <1>5, <1>10 DEF UnfiredIsCurrent, Fired
<1>12. VerdictHolds'
  <2> SUFFICES ASSUME NEW f \in 1 .. Len(evals), Fired(evals[f])
               PROVE  /\ evals'[f].fired <= Len(evals'[f].scores)
                      /\ \E i \in 1 .. evals'[f].fired : IsVerdict(f, i)'
    BY <1>3, <1>10 DEF VerdictHolds, Fired
  <2>1. CASE f # e
    <3>1. evals'[f] = evals[f]
      BY <1>3, <2>1
    <3> QED
      BY <1>5, <3>1 DEF VerdictHolds, IsVerdict
  <2>2. CASE f = e
    <3>1. evals[e].fired <= Len(evals[e].scores)
      BY <2>2 DEF VerdictHolds
    <3>2. PICK i \in 1 .. evals[e].fired : IsVerdict(e, i)
      BY <2>2 DEF VerdictHolds
    <3>3. \A j \in 1 .. evals[e].fired : evals'[e].scores[j] = evals[e].scores[j]
      <4>1. \A j \in 1 .. evals[e].fired : j \in 1 .. Len(evals[e].scores)
        BY <1>0, <1>1, <1>2, <3>1, Within, Zenon
      <4>2. \A j \in 1 .. Len(evals[e].scores) : s[j] = evals[e].scores[j]
        BY <1>2, Zenon
      <4>3. evals'[e].scores = s
        BY <1>3, Zenon
      <4> QED
        BY <4>1, <4>2, <4>3, Zenon
    <3>4. IsVerdict(e, i)'
      BY <1>3, <1>5, <3>2, <3>3, ZenonT(40) DEF IsVerdict
    <3>5. evals'[e].fired <= Len(evals'[e].scores)
      <4>1. evals[e].fired <= Len(evals[e].scores) + 1
        BY <1>0, <1>1, <1>2, <3>1, Within, Zenon
      <4>2. evals'[e].fired = evals[e].fired /\ evals'[e].scores = s
        BY <1>3, Zenon
      <4>3. Len(s) = Len(evals[e].scores) + 1
        BY <1>2, Zenon
      <4> QED
        BY <4>1, <4>2, <4>3, Zenon
    <3> QED
      BY <1>3, <2>2, <3>4, <3>5
  <2> QED
    BY <2>1, <2>2
<1>13. AnswersFollow'
  <2> SUFFICES ASSUME NEW q \in Requests
               PROVE  /\ rpc'[q].at \in {"woken", "answered"} => Fired(evals'[rpc'[q].eval])
                      /\ call'[q].at = "permitted" =>
                           /\ rpc'[q].at = "answered"
                           /\ call'[q].node = evals'[rpc'[q].eval].highestScore.node
    BY DEF AnswersFollow, Fired
  <2>1. rpc'[q].at \in {"woken", "answered"} =>
          evals'[rpc'[q].eval].highestScore = evals[rpc[q].eval].highestScore
    BY <1>0, <1>4, <1>10 DEF HasEvaluator
  <2> QED
    BY <1>4, <1>5, <2>1 DEF AnswersFollow, Fired
<1> QED
  BY <1>6, <1>7, <1>8, <1>9, <1>11, <1>12, <1>13

LEMMA RecordKeepsInv ==
  ASSUME Inv, NEW r \in Requests, Record(r)
  PROVE  Inv'
<1> USE DEF Inv
<1>0. rpc[r].at = "found" /\ UNCHANGED <<call, conn, panicked>>
  BY DEF Record
<1>1. PICK e : e = rpc[r].eval
  OBVIOUS
<1>2. PICK s : s = Append(evals[e].scores, r)
  OBVIOUS
<1>3. e \in 1 .. Len(evals)
  BY <1>0, <1>1 DEF HasEvaluator
<1>4. PICK q \in Seq(Requests) : q = evals[e].scores
  <2>1. evals[e] \in Evaluator
    BY <1>3 DEF TypeOK
  <2> QED
    BY <2>1 DEF Evaluator
<1>5. /\ s \in Seq(Requests)
      /\ Len(s) = Len(q) + 1
      /\ s[Len(s)] = r
      /\ \A i \in 1 .. Len(q) : s[i] = q[i]
      /\ Len(q) \in Nat
  <2>1. s = Append(q, r)
    BY <1>2, <1>4
  <2> QED
    BY <2>1, AppendFacts
<1>6. CASE ~Fired(evals[e]) /\ Fire(e, s, {r})
  <2>1. {r} \in SUBSET Requests
    OBVIOUS
  <2>2. \A x \in {r} : rpc[x].at = "found" /\ rpc[x].eval = e
    BY <1>0, <1>1
  <2>3. ASSUME NEW i \in 1 .. Len(s)
        PROVE  s[i] \in {r} \/ \E j \in 1 .. Len(evals[e].scores) : s[i] = evals[e].scores[j]
    <3>1. i \in 1 .. Len(q) \/ i = Len(s)
      BY <1>5
    <3> QED
      BY <1>4, <1>5, <3>1
  <2> QED
    BY <1>0, <1>3, <1>5, <1>6, <2>1, <2>2, <2>3, FireKeepsInv
<1>7. ASSUME NEW at \in {"woken", "waiting"},
             at = "woken" => Fired(evals[e]),
             evals' = [evals EXCEPT ![e].scores = s],
             rpc' = [rpc EXCEPT ![r].at = at],
             current' = current
      PROVE  Inv'
  BY <1>0, <1>1, <1>2, <1>7, WaitKeepsInv, Zenon
<1>8. \/ ~Fired(evals[e]) /\ Fire(e, s, {r})
      \/ \E at \in {"woken", "waiting"} :
           /\ at = "woken" => Fired(evals[e])
           /\ evals' = [evals EXCEPT ![e].scores = s]
           /\ rpc' = [rpc EXCEPT ![r].at = at]
           /\ current' = current
  <2> DEFINE full == Len(s) >= evals[e].limit
             at == IF full THEN "woken" ELSE "waiting"
  <2>1. \/ full /\ ~Fired(evals[e]) /\ Fire(e, s, {r})
        \/ /\ ~full \/ Fired(evals[e])
           /\ evals' = [evals EXCEPT ![e].scores = s]
           /\ rpc' = [rpc EXCEPT ![r].at = at]
           /\ UNCHANGED current
    BY <1>1, <1>2, Zenon DEF Record
  <2>2. at \in {"woken", "waiting"} /\ (at = "woken" => full)
    OBVIOUS
  <2> HIDE DEF full, at
  <2> QED
    BY <2>1, <2>2, Zenon
<1> QED
  BY <1>6, <1>7, <1>8, Zenon

LEMMA TimerKeepsInv ==
  ASSUME Inv, NEW e \in 1 .. Len(evals), Timer(e)
  PROVE  Inv'
<1> USE DEF Inv
<1>1. evals[e].scores \in Seq(Requests)
  <2>1. evals[e] \in Evaluator
    BY DEF TypeOK
  <2> QED
    BY <2>1 DEF Evaluator
<1>2. CASE Fire(e, evals[e].scores, {}) /\ UNCHANGED panicked
  <2>1. UNCHANGED <<call, conn, panicked>> /\ ~Fired(evals[e])
    BY <1>2 DEF Timer
  <2>2. \A i \in 1 .. Len(evals[e].scores) :
          \/ evals[e].scores[i] \in {}
          \/ \E j \in 1 .. Len(evals[e].scores) : evals[e].scores[i] = evals[e].scores[j]
    OBVIOUS
  <2>3. {} \in SUBSET Requests /\ \A r \in {} : rpc[r].at = "found" /\ rpc[r].eval = e
    OBVIOUS
  <2> QED
    BY <1>1, <1>2, <2>1, <2>2, <2>3, FireKeepsInv
<1>3. CASE panicked' = TRUE /\ UNCHANGED <<evals, rpc, current>>
  <2>1. UNCHANGED <<call, conn>>
    BY DEF Timer
  <2>2. TypeOK'
    BY <1>3, <2>1 DEF TypeOK
  <2>3. SentHasScore' /\ HasEvaluator' /\ ScoresAreOwn' /\ UnfiredIsCurrent' /\ AnswersFollow'
    BY <1>3, <2>1
       DEF SentHasScore, HasEvaluator, ScoresAreOwn, UnfiredIsCurrent, AnswersFollow, Fired
  <2>4. VerdictHolds'
    BY <1>3, <2>1 DEF VerdictHolds, IsVerdict, Fired
  <2> QED
    BY <2>2, <2>3, <2>4
<1> QED
  BY <1>2, <1>3 DEF Timer

LEMMA InitInv == Init => Inv
<1> SUFFICES ASSUME Init PROVE Inv
  OBVIOUS
<1>1. TypeOK
  <2>1. [at |-> "idle", node |-> NoNode, score |-> 0] \in Call
    BY ScoreAssumption DEF Call, CallAts, Names
  <2>2. [at |-> "none", eval |-> 0] \in Rpc
    BY DEF Rpc, RpcAts
  <2>3. evals \in Seq(Evaluator) /\ current \in 0 .. Len(evals)
    BY DEF Init
  <2> QED
    BY <2>1, <2>2, <2>3 DEF Init, TypeOK
<1>2. /\ \A r \in Requests : rpc[r].at = "none" /\ call[r].at = "idle"
      /\ 1 .. Len(evals) = {}
  BY DEF Init
<1>3. SentHasScore /\ HasEvaluator /\ AnswersFollow
  BY <1>2 DEF SentHasScore, HasEvaluator, AnswersFollow
<1>4. ScoresAreOwn /\ UnfiredIsCurrent /\ VerdictHolds
  BY <1>2 DEF ScoresAreOwn, UnfiredIsCurrent, VerdictHolds
<1> QED
  BY <1>1, <1>3, <1>4 DEF Inv

LEMMA StepInv == Inv /\ [Next]_vars => Inv'
<1> SUFFICES ASSUME Inv, [Next]_vars PROVE Inv'
  OBVIOUS
<1>1. ASSUME NEW r \in Requests,
             \/ Permit(r) \/ ScheduleFails(r) \/ ConnectFails(r)
             \/ CallFails(r) \/ RequestLost(r)
      PROVE  Inv'
  BY <1>1, SchedulerIsQuiet, QuietKeepsInv
<1>2. ASSUME NEW r \in Requests, ServerStep(r)
      PROVE  Inv'
  <2>1. CASE Lookup(r)
    BY <2>1, LookupKeepsInv
  <2>2. CASE Record(r)
    BY <2>2, RecordKeepsInv
  <2>3. CASE Answer(r)
    BY <2>3, AnswerIsQuiet, QuietKeepsInv
  <2> QED
    BY <1>2, <2>1, <2>2, <2>3 DEF ServerStep
<1>3. ASSUME NEW e \in 1 .. Len(evals), Timer(e)
      PROVE  Inv'
  BY <1>3, TimerKeepsInv
<1>4. CASE UNCHANGED vars
  <2>1. TypeOK'
    BY <1>4 DEF Inv, TypeOK, vars
  <2>2. SentHasScore' /\ HasEvaluator' /\ ScoresAreOwn' /\ UnfiredIsCurrent' /\ AnswersFollow'
    BY <1>4 DEF Inv, vars,
       SentHasScore, HasEvaluator, ScoresAreOwn, UnfiredIsCurrent, AnswersFollow, Fired
  <2>3. VerdictHolds'
    BY <1>4 DEF Inv, vars, VerdictHolds, IsVerdict, Fired
  <2> QED
    BY <2>1, <2>2, <2>3 DEF Inv
<1> QED
  BY <1>1, <1>2, <1>3, <1>4 DEF Next

(***************************************************************************)
(* The evaluators' and the schedulers' state agree in every reachable      *)
(* state: the inductive invariant the theorems below rest on.              *)
(***************************************************************************)
THEOREM EvaluatorsCorrect == Spec => []Inv
BY InitInv, StepInv, PTL DEF Spec

(***************************************************************************)
(* No two evaluators collect the scores of one pod at a time, and deleting *)
(* the map's entry in fire never deletes another evaluator's.              *)
(***************************************************************************)
THEOREM OneEvaluatorCollects == Spec => []UnfiredIsCurrent
<1>1. Inv => UnfiredIsCurrent
  BY DEF Inv
<1> QED
  BY <1>1, EvaluatorsCorrect, PTL

(***************************************************************************)
(* All schedulers that one evaluator permits to bind named the same node.  *)
(***************************************************************************)
THEOREM PermitsAreForOneNode == Spec => []PermitsAgree
<1>1. Inv => PermitsAgree
  BY DEF Inv, PermitsAgree, Permitted, AnswersFollow
<1> QED
  BY <1>1, EvaluatorsCorrect, PTL

(***************************************************************************)
(* A permitted node is a real one, and the best of those the evaluator had *)
(* when it fired, however many scores came later.                          *)
(***************************************************************************)
THEOREM PermittedIsBest == Spec => []WinnerIsBest
<1>1. ASSUME Inv PROVE WinnerIsBest
  <2> USE <1>1 DEF Inv
  <2> SUFFICES ASSUME NEW r \in Requests, call[r].at = "permitted"
               PROVE  \E b \in Counted(rpc[r].eval) :
                        /\ call[b].node = call[r].node
                        /\ call[b].node # NoNode
                        /\ \A q \in Counted(rpc[r].eval) : call[q].score <= call[b].score
    BY DEF WinnerIsBest, Permitted
  <2>1. PICK e \in 1 .. Len(evals) : e = rpc[r].eval
    BY DEF AnswersFollow, HasEvaluator
  <2>2. Fired(evals[e]) /\ call[r].node = evals[e].highestScore.node
    BY <2>1 DEF AnswersFollow
  <2>3. PICK i \in 1 .. evals[e].fired : IsVerdict(e, i)
    BY <2>2 DEF VerdictHolds
  <2>4. evals[e].scores[i] \in Counted(e)
    BY DEF Counted
  <2>5. \A q \in Counted(e) : call[q].score <= call[evals[e].scores[i]].score
    BY <2>3 DEF Counted, IsVerdict
  <2>6. call[evals[e].scores[i]].node = call[r].node /\ call[r].node # NoNode
    BY <2>2, <2>3 DEF IsVerdict, SentHasScore
  <2> QED
    BY <2>1, <2>4, <2>5, <2>6
<1> QED
  BY <1>1, EvaluatorsCorrect, PTL

===============================================================================
