------------------------------- MODULE RestClient -------------------------------
(***************************************************************************)
(* AxiosRestClient.executeWithRetry and the default retry policy, over a   *)
(* network that loses requests and answers.  A request is a call of one of *)
(* the send...Request methods; its attempts are numbered by retriesInvoked.*)
(* An attempt whose connection failed may still reach the service, and be  *)
(* performed when the caller has long sent another one or given up.        *)
(* Definitions called ...Defect are mistakes the properties must catch.    *)
(***************************************************************************)
EXTENDS Naturals, FiniteSets

CONSTANTS Requests,
          MaxRetries,            \* _retryPolicy.maxRetries, 0 for no policy
          RetryCountUpperBound   \* the client's own bound, 10

ASSUME RestAssumption == MaxRetries \in Nat /\ RetryCountUpperBound \in Nat

VARIABLES call,            \* [Requests -> where executeWithRetry is]
          retriesInvoked,  \* [Requests -> the retries so far]
          onWire,          \* [Requests -> attempts the service may yet perform]
          answer,          \* [Requests -> the answer to the latest attempt]
          effects          \* [Requests -> times the service performed it]

vars == <<call, retriesInvoked, onWire, answer, effects>>

RetryLimit == IF MaxRetries < RetryCountUpperBound THEN MaxRetries
                                                   ELSE RetryCountUpperBound
Attempts == 0..RetryLimit

Errors == {"clientError", "serverError"}
Settled == {"fulfilled", "rejected"}

Init == /\ call = [r \in Requests |-> "idle"]
        /\ retriesInvoked = [r \in Requests |-> 0]
        /\ onWire = [r \in Requests |-> {}]
        /\ answer = [r \in Requests |-> "none"]
        /\ effects = [r \in Requests |-> 0]
-------------------------------------------------------------------------------
\* requestFunc is called: one more attempt is under way
Send(r) ==
    /\ call[r] \in {"idle", "sleeping"}
    /\ call' = [call EXCEPT ![r] = "awaiting"]
    /\ onWire' = [onWire EXCEPT ![r] = @ \union {retriesInvoked[r]}]
    /\ answer' = [answer EXCEPT ![r] = "none"]
    /\ UNCHANGED <<retriesInvoked, effects>>

\* a status below 500 is not retried, an error without a status is
ShouldRetry(error) == error # "clientError"

RetriesLeftDefect(n) == n <= RetryLimit

RetriesLeft(n) == ~(n >= MaxRetries) /\ ~(n >= RetryCountUpperBound)

CatchDefect(r, error) ==
    /\ call' = [call EXCEPT ![r] = IF RetriesLeft(retriesInvoked[r]) /\ ShouldRetry(error)
                                   THEN "sleeping" ELSE "rejected"]
    /\ UNCHANGED retriesInvoked

\* the catch block: throw, or count a retry and sleep
Catch(r, error) ==
    IF RetriesLeft(retriesInvoked[r]) /\ ShouldRetry(error)
    THEN /\ retriesInvoked' = [retriesInvoked EXCEPT ![r] = @ + 1]
         /\ call' = [call EXCEPT ![r] = "sleeping"]
    ELSE /\ call' = [call EXCEPT ![r] = "rejected"]
         /\ UNCHANGED retriesInvoked

ReceiveDefect(r) ==
    /\ call[r] = "awaiting"
    /\ answer[r] # "none"
    /\ IF answer[r] \in {"ok", "clientError"}
       THEN /\ call' = [call EXCEPT ![r] = "fulfilled"]
            /\ UNCHANGED retriesInvoked
       ELSE Catch(r, answer[r])
    /\ UNCHANGED <<onWire, answer, effects>>

Receive(r) ==
    /\ call[r] = "awaiting"
    /\ answer[r] # "none"
    /\ IF answer[r] = "ok"
       THEN /\ call' = [call EXCEPT ![r] = "fulfilled"]
            /\ UNCHANGED retriesInvoked
       ELSE Catch(r, answer[r])
    /\ UNCHANGED <<onWire, answer, effects>>

\* no answer comes, or it is lost; the attempt may be on its way all the same
ConnectionFails(r) ==
    /\ call[r] = "awaiting"
    /\ Catch(r, "noResponse")
    /\ answer' = [answer EXCEPT ![r] = "none"]
    /\ UNCHANGED <<onWire, effects>>
-------------------------------------------------------------------------------
(* The network and the service.                                            *)

\* the answer reaches the client if its connection is still there
Answer(r, a, reply) ==
    answer' = IF call[r] = "awaiting" /\ a = retriesInvoked[r]
              THEN [answer EXCEPT ![r] = reply] ELSE answer

\* the service performs an attempt, and answers so or fails afterwards
Perform(r, a) ==
    /\ a \in onWire[r]
    /\ onWire' = [onWire EXCEPT ![r] = @ \ {a}]
    /\ effects' = [effects EXCEPT ![r] = @ + 1]
    /\ \E reply \in {"ok", "serverError"} : Answer(r, a, reply)
    /\ UNCHANGED <<call, retriesInvoked>>

\* it refuses the attempt or fails before it does anything, or an attempt whose
\* connection failed is lost
Refuse(r, a) ==
    /\ a \in onWire[r]
    /\ onWire' = [onWire EXCEPT ![r] = @ \ {a}]
    /\ \E reply \in Errors : Answer(r, a, reply)
    /\ UNCHANGED <<call, retriesInvoked, effects>>

Done == /\ \A r \in Requests : call[r] \in Settled /\ onWire[r] = {}
        /\ UNCHANGED vars

Next == \/ \E r \in Requests : Send(r) \/ Receive(r) \/ ConnectionFails(r)
        \/ \E r \in Requests, a \in Attempts : Perform(r, a) \/ Refuse(r, a)
        \/ Done

\* Timers fire and ready callbacks run, and every attempt is answered or cut off:
\* the client sets no timeout, so an open connection is the network's to end.
Fairness == \A r \in Requests :
                /\ WF_vars(call[r] = "sleeping" /\ Send(r))
                /\ WF_vars(Receive(r) \/ ConnectionFails(r))

Spec == Init /\ [][Next]_vars

FairSpec == Spec /\ Fairness
-------------------------------------------------------------------------------
\* Every variable has its type.
TypeOK ==
    /\ call \in [Requests -> {"idle", "awaiting", "sleeping"} \union Settled]
    /\ retriesInvoked \in [Requests -> Attempts]
    /\ onWire \in [Requests -> SUBSET Attempts]
    /\ answer \in [Requests -> {"none", "ok"} \union Errors]
    /\ effects \in [Requests -> Nat]

\* However the network loses and delays things, a request that is not repeatable
\* (an acquired briefcase, a created iModel) is performed at most once more than
\* retries are allowed, the attempts that have not arrived yet included.
EffectsBounded ==
    \A r \in Requests : effects[r] + Cardinality(onWire[r]) <= RetryLimit + 1

\* A call fulfils only if the service has performed the request.
SuccessMeansEffect ==
    \A r \in Requests : call[r] = "fulfilled" => effects[r] > 0

\* A call gives up only on an answer of the service that says retrying is of no
\* use, or after all the retries it has: a connection that fails, or a failing
\* service, does not end it before.
RejectedForCause ==
    \A r \in Requests : call[r] = "rejected" =>
        answer[r] = "clientError" \/ retriesInvoked[r] = RetryLimit

\* Every call settles.
CallSettles == \A r \in Requests : call[r] # "idle" ~> call[r] \in Settled

\* The verdict the abstract call sees.
VerdictOf(r) == CASE call[r] = "idle"      -> "idle"
                  [] call[r] = "fulfilled" -> "success"
                  [] call[r] = "rejected"  -> "failure"
                  [] OTHER                 -> "open"

Verdicts == [r \in Requests |-> VerdictOf(r)]

Abstract == INSTANCE RetriedCall WITH MaxEffects <- RetryLimit + 1,
                                      verdict    <- Verdicts

\* The rest client implements the abstract call: attempts and answers are details.
ImplementsRetriedCall == Abstract!CallSpec
===============================================================================
