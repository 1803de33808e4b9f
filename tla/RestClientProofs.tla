---------------------------- MODULE RestClientProofs ----------------------------
(***************************************************************************)
(* The safety properties of RestClient, and that it implements RetriedCall,*)
(* for any set of requests and any retry policy.  The bound on the effects *)
(* needs to know how far a call has come: RetryInv counts one attempt less *)
(* for a call that is about to send than for one that has sent.            *)
(***************************************************************************)
EXTENDS RestClient, FiniteSetTheorems, TLAPS

\* The attempts of r that were sent.
SentAttempts(r) == IF call[r] \in {"idle", "sleeping"} THEN retriesInvoked[r]
                                                        ELSE retriesInvoked[r] + 1

EffectsInv == \A r \in Requests :
                 effects[r] + Cardinality(onWire[r]) <= SentAttempts(r)

AnswerInv == \A r \in Requests :
                /\ answer[r] = "ok" => effects[r] > 0
                /\ call[r] = "idle" => effects[r] = 0 /\ onWire[r] = {}

RetryInv == /\ TypeOK
            /\ EffectsInv
            /\ AnswerInv
            /\ SuccessMeansEffect
            /\ RejectedForCause

LEMMA RetryLimitNat == /\ RetryLimit \in Nat
                       /\ RetryLimit <= MaxRetries
                       /\ RetryLimit <= RetryCountUpperBound
                       /\ RetryLimit \in {MaxRetries, RetryCountUpperBound}
BY RestAssumption DEF RetryLimit

\* Where the bound is not reached yet, another retry stays within it.
LEMMA RetriesLeftBound ==
    ASSUME NEW n \in Attempts
    PROVE  /\ RetriesLeft(n) => n + 1 \in Attempts
           /\ ~RetriesLeft(n) => n = RetryLimit
BY RetryLimitNat, RestAssumption DEF RetriesLeft, Attempts

LEMMA AttemptsFinite ==
    ASSUME NEW S \in SUBSET Attempts
    PROVE  IsFiniteSet(S) /\ Cardinality(S) \in Nat
<1>1. IsFiniteSet(Attempts)
  BY RetryLimitNat, FS_Interval DEF Attempts
<1>2. IsFiniteSet(S)
  BY <1>1, FS_Subset
<1> QED BY <1>2, FS_CardinalityType

LEMMA AddAttempt ==
    ASSUME NEW S \in SUBSET Attempts, NEW a
    PROVE  Cardinality(S \union {a}) <= Cardinality(S) + 1
<1>1. Cardinality(S \union {a}) = IF a \in S THEN Cardinality(S) ELSE Cardinality(S) + 1
  BY AttemptsFinite, FS_AddElement
<1> QED BY <1>1, AttemptsFinite

LEMMA RemoveAttempt ==
    ASSUME NEW S \in SUBSET Attempts, NEW a \in S
    PROVE  Cardinality(S \ {a}) = Cardinality(S) - 1
BY AttemptsFinite, FS_RemoveElement

-------------------------------------------------------------------------------
THEOREM InitRetryInv == Init => RetryInv
<1> SUFFICES ASSUME Init PROVE RetryInv
  OBVIOUS
<1>1. TypeOK
  BY RetryLimitNat DEF Init, TypeOK, Attempts
<1>2. EffectsInv
  BY FS_EmptySet DEF Init, EffectsInv, SentAttempts
<1> QED BY <1>1, <1>2 DEF Init, RetryInv, AnswerInv, SuccessMeansEffect,
                         RejectedForCause

-------------------------------------------------------------------------------
(* The steps.                                                              *)

LEMMA SendStep ==
    ASSUME RetryInv, NEW r \in Requests, Send(r)
    PROVE  RetryInv'
<1> USE DEF RetryInv, Send
<1>1. TypeOK'
  <2>1. retriesInvoked[r] \in Attempts
    BY DEF TypeOK
  <2>2. onWire' \in [Requests -> SUBSET Attempts]
    BY <2>1 DEF TypeOK
  <2>3. call' \in [Requests -> {"idle", "awaiting", "sleeping"} \union Settled]
    BY DEF TypeOK
  <2>4. answer' \in [Requests -> {"none", "ok"} \union Errors]
    BY DEF TypeOK
  <2> QED BY <2>2, <2>3, <2>4 DEF TypeOK
<1>2. EffectsInv'
  <2> SUFFICES ASSUME NEW q \in Requests
               PROVE  effects[q] + Cardinality(onWire'[q]) <= SentAttempts(q)'
    BY DEF EffectsInv
  <2>1. effects[q] + Cardinality(onWire[q]) <= SentAttempts(q)
    BY DEF EffectsInv
  <2>2. CASE q # r
    BY <2>1, <2>2 DEF SentAttempts, TypeOK
  <2>3. CASE q = r
    <3>1. Cardinality(onWire'[r]) <= Cardinality(onWire[r]) + 1
      BY AddAttempt DEF TypeOK
    <3>2. Cardinality(onWire[r]) \in Nat /\ Cardinality(onWire'[r]) \in Nat
      BY <1>1, AttemptsFinite DEF TypeOK
    <3>3. SentAttempts(r) = retriesInvoked[r] /\ SentAttempts(r)' = retriesInvoked[r] + 1
      BY DEF SentAttempts, TypeOK
    <3>4. effects[r] \in Nat /\ retriesInvoked[r] \in Nat
      BY RetryLimitNat DEF TypeOK, Attempts
    <3> QED BY <2>1, <2>3, <3>1, <3>2, <3>3, <3>4
  <2> QED BY <2>2, <2>3
<1>3. AnswerInv'
  BY DEF AnswerInv, TypeOK
<1>4. SuccessMeansEffect'
  BY DEF SuccessMeansEffect, TypeOK
<1>5. RejectedForCause'
  BY DEF RejectedForCause, TypeOK
<1> QED BY <1>1, <1>2, <1>3, <1>4, <1>5

\* The catch block goes on to the next attempt or throws, for cause.
LEMMA CatchFacts ==
    ASSUME TypeOK, NEW r \in Requests, NEW error, Catch(r, error),
           call[r] = "awaiting"
    PROVE  /\ call' \in [Requests -> {"idle", "awaiting", "sleeping"} \union Settled]
           /\ retriesInvoked' \in [Requests -> Attempts]
           /\ SentAttempts(r)' = SentAttempts(r)
           /\ call'[r] \in {"sleeping", "rejected"}
           /\ call'[r] = "rejected" => \/ error = "clientError"
                                       \/ retriesInvoked'[r] = RetryLimit
           /\ \A q \in Requests \ {r} : /\ call'[q] = call[q]
                                        /\ retriesInvoked'[q] = retriesInvoked[q]
<1>1. retriesInvoked[r] \in Attempts
  BY DEF TypeOK
<1>2. CASE RetriesLeft(retriesInvoked[r]) /\ ShouldRetry(error)
  <2>1. retriesInvoked[r] + 1 \in Attempts
    BY <1>1, <1>2, RetriesLeftBound
  <2> QED BY <1>2, <2>1 DEF Catch, TypeOK, SentAttempts
<1>3. CASE ~(RetriesLeft(retriesInvoked[r]) /\ ShouldRetry(error))
  <2>1. error = "clientError" \/ retriesInvoked[r] = RetryLimit
    BY <1>1, <1>3, RetriesLeftBound DEF ShouldRetry
  <2> QED BY <1>3, <2>1 DEF Catch, TypeOK, SentAttempts, Settled
<1> QED BY <1>2, <1>3

LEMMA ReceiveStep ==
    ASSUME RetryInv, NEW r \in Requests, Receive(r)
    PROVE  RetryInv'
<1> USE DEF RetryInv
<1>0. call[r] = "awaiting" /\ answer[r] # "none"
  BY DEF Receive
<1>u. UNCHANGED <<onWire, answer, effects>>
  BY DEF Receive
<1>1. CASE answer[r] = "ok"
  <2>1. /\ call' = [call EXCEPT ![r] = "fulfilled"]
        /\ UNCHANGED retriesInvoked
    BY <1>1 DEF Receive
  <2>2. TypeOK'
    BY <1>u, <2>1 DEF TypeOK, Settled
  <2>3. EffectsInv'
    BY <1>0, <1>u, <2>1 DEF EffectsInv, SentAttempts, TypeOK
  <2>4. AnswerInv' /\ SuccessMeansEffect'
    BY <1>1, <1>u, <2>1 DEF AnswerInv, SuccessMeansEffect, TypeOK
  <2>5. RejectedForCause'
    BY <1>0, <1>u, <2>1 DEF RejectedForCause, TypeOK
  <2> QED BY <2>2, <2>3, <2>4, <2>5
<1>2. CASE answer[r] # "ok"
  <2>1. Catch(r, answer[r])
    BY <1>2 DEF Receive
  <2>2. TypeOK'
    BY <1>0, <1>u, <2>1, CatchFacts DEF TypeOK
  <2>3. EffectsInv'
    BY <1>0, <1>u, <2>1, CatchFacts DEF EffectsInv, SentAttempts
  <2>4. AnswerInv' /\ SuccessMeansEffect'
    BY <1>0, <1>u, <2>1, CatchFacts DEF AnswerInv, SuccessMeansEffect
  <2>5. RejectedForCause'
    BY <1>0, <1>u, <2>1, CatchFacts DEF RejectedForCause
  <2> QED BY <2>2, <2>3, <2>4, <2>5
<1> QED BY <1>1, <1>2

LEMMA ConnectionFailsStep ==
    ASSUME RetryInv, NEW r \in Requests, ConnectionFails(r)
    PROVE  RetryInv'
<1> USE DEF RetryInv
<1>1. /\ call[r] = "awaiting"
      /\ Catch(r, "noResponse")
      /\ answer' = [answer EXCEPT ![r] = "none"]
      /\ UNCHANGED <<onWire, effects>>
  BY DEF ConnectionFails
<1>2. TypeOK'
  <2>1. answer' \in [Requests -> {"none", "ok"} \union Errors]
    BY <1>1 DEF TypeOK
  <2> QED BY <1>1, <2>1, CatchFacts DEF TypeOK
<1>3. EffectsInv'
  BY <1>1, CatchFacts DEF EffectsInv, SentAttempts
<1>4. AnswerInv' /\ SuccessMeansEffect'
  BY <1>1, CatchFacts DEF AnswerInv, SuccessMeansEffect, TypeOK
<1>5. RejectedForCause'
  BY <1>1, CatchFacts DEF RejectedForCause, TypeOK
<1> QED BY <1>2, <1>3, <1>4, <1>5

LEMMA PerformStep ==
    ASSUME RetryInv, NEW r \in Requests, NEW a \in Attempts, Perform(r, a)
    PROVE  RetryInv'
<1> USE DEF RetryInv
<1>1. /\ a \in onWire[r]
      /\ onWire' = [onWire EXCEPT ![r] = @ \ {a}]
      /\ effects' = [effects EXCEPT ![r] = @ + 1]
      /\ UNCHANGED <<call, retriesInvoked>>
  BY DEF Perform
<1>2. PICK reply \in {"ok", "serverError"} : Answer(r, a, reply)
  BY DEF Perform
<1>3. TypeOK'
  BY <1>1, <1>2 DEF TypeOK, Answer, Errors
<1>4. EffectsInv'
  <2> SUFFICES ASSUME NEW q \in Requests
               PROVE  effects'[q] + Cardinality(onWire'[q]) <= SentAttempts(q)
    BY <1>1 DEF EffectsInv, SentAttempts
  <2>1. effects[q] + Cardinality(onWire[q]) <= SentAttempts(q)
    BY DEF EffectsInv
  <2>2. CASE q # r
    BY <1>1, <2>1, <2>2 DEF TypeOK
  <2>3. CASE q = r
    <3>1. Cardinality(onWire'[r]) = Cardinality(onWire[r]) - 1
      BY <1>1, RemoveAttempt DEF TypeOK
    <3>2. effects'[r] = effects[r] + 1 /\ effects[r] \in Nat
      BY <1>1 DEF TypeOK
    <3>3. Cardinality(onWire[r]) \in Nat
      BY AttemptsFinite DEF TypeOK
    <3> QED BY <2>1, <2>3, <3>1, <3>2, <3>3
  <2> QED BY <2>2, <2>3
<1>5. AnswerInv' /\ SuccessMeansEffect'
  <2>1. \A q \in Requests : effects[q] > 0 => effects'[q] > 0
    BY <1>1 DEF TypeOK
  <2>2. effects'[r] > 0
    BY <1>1 DEF TypeOK
  <2>3. \A q \in Requests \ {r} : /\ answer'[q] = answer[q] /\ onWire'[q] = onWire[q]
                                  /\ effects'[q] = effects[q]
    BY <1>1, <1>2 DEF Answer, TypeOK
  <2>4. call[r] # "idle"
    BY <1>1 DEF AnswerInv
  <2> QED BY <1>1, <2>1, <2>2, <2>3, <2>4 DEF AnswerInv, SuccessMeansEffect
<1>6. RejectedForCause'
  BY <1>1, <1>2 DEF RejectedForCause, Answer, TypeOK
<1> QED BY <1>3, <1>4, <1>5, <1>6

LEMMA RefuseStep ==
    ASSUME RetryInv, NEW r \in Requests, NEW a \in Attempts, Refuse(r, a)
    PROVE  RetryInv'
<1> USE DEF RetryInv
<1>1. /\ a \in onWire[r]
      /\ onWire' = [onWire EXCEPT ![r] = @ \ {a}]
      /\ UNCHANGED <<call, retriesInvoked, effects>>
  BY DEF Refuse
<1>2. PICK reply \in Errors : Answer(r, a, reply)
  BY DEF Refuse
<1>3. TypeOK'
  BY <1>1, <1>2 DEF TypeOK, Answer
<1>4. EffectsInv'
  <2> SUFFICES ASSUME NEW q \in Requests
               PROVE  effects[q] + Cardinality(onWire'[q]) <= SentAttempts(q)
    BY <1>1 DEF EffectsInv, SentAttempts
  <2>1. effects[q] + Cardinality(onWire[q]) <= SentAttempts(q)
    BY DEF EffectsInv
  <2>2. CASE q # r
    BY <1>1, <2>1, <2>2 DEF TypeOK
  <2>3. CASE q = r
    <3>1. Cardinality(onWire'[r]) = Cardinality(onWire[r]) - 1
      BY <1>1, RemoveAttempt DEF TypeOK
    <3>2. Cardinality(onWire[r]) \in Nat /\ effects[r] \in Nat
      BY AttemptsFinite DEF TypeOK
    <3>3. SentAttempts(r) \in Nat
      BY RetryLimitNat DEF SentAttempts, TypeOK, Attempts
    <3> QED BY <2>1, <2>3, <3>1, <3>2, <3>3
  <2> QED BY <2>2, <2>3
<1>5. AnswerInv' /\ SuccessMeansEffect'
  BY <1>1, <1>2 DEF AnswerInv, SuccessMeansEffect, Answer, TypeOK, Errors
<1>6. RejectedForCause'
  BY <1>1, <1>2 DEF RejectedForCause, Answer, TypeOK, Errors
<1> QED BY <1>3, <1>4, <1>5, <1>6

THEOREM RetryInvariance == Spec => []RetryInv
<1>1. RetryInv /\ [Next]_vars => RetryInv'
  <2> SUFFICES ASSUME RetryInv, [Next]_vars PROVE RetryInv'
    OBVIOUS
  <2>1. CASE \E r \in Requests : Send(r) \/ Receive(r) \/ ConnectionFails(r)
    BY <2>1, SendStep, ReceiveStep, ConnectionFailsStep
  <2>2. CASE \E r \in Requests, a \in Attempts : Perform(r, a) \/ Refuse(r, a)
    BY <2>2, PerformStep, RefuseStep
  <2>3. CASE UNCHANGED vars
    BY <2>3 DEF vars, RetryInv, TypeOK, EffectsInv, SentAttempts, AnswerInv,
                SuccessMeansEffect, RejectedForCause
  <2> QED BY <2>1, <2>2, <2>3 DEF Next, Done
<1> QED BY <1>1, InitRetryInv, PTL DEF Spec

-------------------------------------------------------------------------------
(* The results.                                                            *)

LEMMA EffectsWithinBound ==
    ASSUME RetryInv, NEW r \in Requests
    PROVE  /\ SentAttempts(r) \in Nat
           /\ SentAttempts(r) <= RetryLimit + 1
           /\ effects[r] \in Nat /\ Cardinality(onWire[r]) \in Nat
           /\ effects[r] + Cardinality(onWire[r]) <= RetryLimit + 1
<1>1. retriesInvoked[r] \in Nat /\ retriesInvoked[r] <= RetryLimit
  BY RetryLimitNat DEF RetryInv, TypeOK, Attempts
<1>2. SentAttempts(r) \in Nat /\ SentAttempts(r) <= RetryLimit + 1
  BY <1>1, RetryLimitNat DEF SentAttempts
<1>3. effects[r] \in Nat /\ Cardinality(onWire[r]) \in Nat
  BY AttemptsFinite DEF RetryInv, TypeOK
<1>4. effects[r] + Cardinality(onWire[r]) <= SentAttempts(r)
  BY DEF RetryInv, EffectsInv
<1> QED BY <1>2, <1>3, <1>4, RetryLimitNat

\* The variables of RestClient have their types.
THEOREM TypeCorrect == Spec => []TypeOK
<1>1. RetryInv => TypeOK
  BY DEF RetryInv
<1> QED BY <1>1, RetryInvariance, PTL

\* executeWithRetry has a request performed at most once more than it may retry.
THEOREM EffectsAreBounded == Spec => []EffectsBounded
<1>1. RetryInv => EffectsBounded
  BY EffectsWithinBound DEF EffectsBounded
<1> QED BY <1>1, RetryInvariance, PTL

\* executeWithRetry returns only what the service answered to a request performed.
THEOREM SuccessIsEffect == Spec => []SuccessMeansEffect
<1>1. RetryInv => SuccessMeansEffect
  BY DEF RetryInv
<1> QED BY <1>1, RetryInvariance, PTL

\* executeWithRetry throws for a status below 500 or after the last retry only.
THEOREM RejectionHasCause == Spec => []RejectedForCause
<1>1. RetryInv => RejectedForCause
  BY DEF RetryInv
<1> QED BY <1>1, RetryInvariance, PTL

-------------------------------------------------------------------------------
(* RestClient implements RetriedCall.                                      *)

LEMMA EffectsBoundedAfter ==
    ASSUME RetryInv', NEW r \in Requests
    PROVE  effects'[r] <= RetryLimit + 1
<1>1. retriesInvoked'[r] \in Nat /\ retriesInvoked'[r] <= RetryLimit
  BY RetryLimitNat DEF RetryInv, TypeOK, Attempts
<1>2. SentAttempts(r)' \in Nat /\ SentAttempts(r)' <= RetryLimit + 1
  BY <1>1, RetryLimitNat DEF SentAttempts
<1>3. effects'[r] \in Nat /\ Cardinality(onWire'[r]) \in Nat
  BY AttemptsFinite DEF RetryInv, TypeOK
<1>4. effects'[r] + Cardinality(onWire'[r]) <= SentAttempts(r)'
  BY DEF RetryInv, EffectsInv
<1> QED BY <1>2, <1>3, <1>4, RetryLimitNat

LEMMA VerdictsChangeAt ==
    ASSUME NEW r \in Requests, \A q \in Requests \ {r} : call'[q] = call[q]
    PROVE  Verdicts' = [Verdicts EXCEPT ![r] = VerdictOf(r)']
BY DEF Verdicts, VerdictOf

LEMMA AbstractStep ==
    ASSUME RetryInv, RetryInv', [Next]_vars
    PROVE  [Abstract!CallNext]_(Abstract!callVars)
<1> USE DEF Abstract!callVars
<1>1. ASSUME NEW r \in Requests, Send(r)
      PROVE  Abstract!CallNext \/ UNCHANGED <<effects, Verdicts>>
  <2>1. \A q \in Requests \ {r} : call'[q] = call[q]
    BY <1>1 DEF Send, RetryInv, TypeOK
  <2>2. call'[r] = "awaiting" /\ UNCHANGED effects
    BY <1>1 DEF Send, RetryInv, TypeOK
  <2>3. VerdictOf(r)' = "open" /\ Verdicts' = [Verdicts EXCEPT ![r] = "open"]
    BY <2>1, <2>2, VerdictsChangeAt DEF VerdictOf
  <2>4. CASE call[r] = "idle"
    <3>1. Verdicts[r] = "idle"
      BY <2>4 DEF Verdicts, VerdictOf
    <3> QED BY <2>2, <2>3, <3>1 DEF Abstract!CallNext, Abstract!Invoke
  <2>5. CASE call[r] = "sleeping"
    <3>1. Verdicts[r] = "open"
      BY <2>5 DEF Verdicts, VerdictOf
    <3>2. Verdicts' = Verdicts
      BY <2>3, <3>1 DEF Verdicts
    <3> QED BY <2>2, <3>2
  <2> QED BY <1>1, <2>4, <2>5 DEF Send
<1>2. ASSUME NEW r \in Requests, NEW error, Catch(r, error), call[r] = "awaiting",
             UNCHANGED effects
      PROVE  Abstract!CallNext \/ UNCHANGED <<effects, Verdicts>>
  <2>1. /\ \A q \in Requests \ {r} : call'[q] = call[q]
        /\ call'[r] \in {"sleeping", "rejected"}
    BY <1>2, CatchFacts DEF RetryInv
  <2>2. Verdicts' = [Verdicts EXCEPT ![r] = VerdictOf(r)']
    BY <2>1, VerdictsChangeAt
  <2>3. Verdicts[r] = "open"
    BY <1>2 DEF Verdicts, VerdictOf
  <2>4. CASE call'[r] = "sleeping"
    <3>1. VerdictOf(r)' = "open"
      BY <2>4 DEF VerdictOf
    <3>2. Verdicts' = Verdicts
      BY <2>2, <2>3, <3>1 DEF Verdicts
    <3> QED BY <1>2, <3>2
  <2>5. CASE call'[r] = "rejected"
    <3>1. VerdictOf(r)' = "failure"
      BY <2>5 DEF VerdictOf
    <3> QED BY <1>2, <2>2, <2>3, <3>1 DEF Abstract!CallNext, Abstract!Fail
  <2> QED BY <2>1, <2>4, <2>5
<1>3. ASSUME NEW r \in Requests, Receive(r)
      PROVE  Abstract!CallNext \/ UNCHANGED <<effects, Verdicts>>
  <2>1. call[r] = "awaiting" /\ UNCHANGED effects
    BY <1>3 DEF Receive
  <2>2. CASE answer[r] = "ok"
    <3>1. call'[r] = "fulfilled" /\ \A q \in Requests \ {r} : call'[q] = call[q]
      BY <1>3, <2>2 DEF Receive, RetryInv, TypeOK
    <3>2. VerdictOf(r)' = "success"
      BY <3>1 DEF VerdictOf
    <3>3. Verdicts' = [Verdicts EXCEPT ![r] = "success"]
      BY <3>1, <3>2, VerdictsChangeAt
    <3>4. Verdicts[r] = "open"
      BY <2>1 DEF Verdicts, VerdictOf
    <3>5. effects[r] > 0
      BY <2>2 DEF RetryInv, AnswerInv
    <3> QED BY <2>1, <3>3, <3>4, <3>5 DEF Abstract!CallNext, Abstract!Succeed
  <2>3. CASE answer[r] # "ok"
    BY <1>2, <1>3, <2>1, <2>3 DEF Receive
  <2> QED BY <2>2, <2>3
<1>4. ASSUME NEW r \in Requests, ConnectionFails(r)
      PROVE  Abstract!CallNext \/ UNCHANGED <<effects, Verdicts>>
  BY <1>2, <1>4 DEF ConnectionFails
<1>5. ASSUME NEW r \in Requests, NEW a \in Attempts, Perform(r, a)
      PROVE  Abstract!CallNext
  <2>1. UNCHANGED Verdicts
    BY <1>5 DEF Perform, Verdicts, VerdictOf
  <2>2. effects' = [effects EXCEPT ![r] = @ + 1]
    BY <1>5 DEF Perform
  <2>3. effects[r] < RetryLimit + 1
    <3>1. effects'[r] <= RetryLimit + 1
      BY EffectsBoundedAfter
    <3> QED BY <2>2, <3>1, RetryLimitNat DEF RetryInv, TypeOK
  <2>4. call[r] # "idle"
    BY <1>5 DEF Perform, RetryInv, AnswerInv
  <2>5. Verdicts[r] # "idle"
    BY <2>4 DEF Verdicts, VerdictOf
  <2> QED BY <2>1, <2>2, <2>3, <2>5 DEF Abstract!CallNext, Abstract!TakeEffect
<1>6. ASSUME NEW r \in Requests, NEW a \in Attempts, Refuse(r, a)
      PROVE  UNCHANGED <<effects, Verdicts>>
  BY <1>6 DEF Refuse, Verdicts, VerdictOf
<1>7. CASE UNCHANGED vars
  BY <1>7 DEF vars, Verdicts, VerdictOf
<1> QED BY <1>1, <1>3, <1>4, <1>5, <1>6, <1>7 DEF Next, Done

\* RestClient implements RetriedCall: whatever its attempts and answers do, the
\* caller of executeWithRetry sees a call performed at least once if it succeeds.
THEOREM RestClientImplementsRetriedCall == Spec => ImplementsRetriedCall
<1>1. Init => Abstract!CallInit
  BY DEF Init, Abstract!CallInit, Verdicts, VerdictOf
<1>2. RetryInv /\ RetryInv' /\ [Next]_vars => [Abstract!CallNext]_(Abstract!callVars)
  BY AbstractStep
<1> QED BY <1>1, <1>2, RetryInvariance, PTL DEF Spec, ImplementsRetriedCall,
                                               Abstract!CallSpec
===============================================================================
