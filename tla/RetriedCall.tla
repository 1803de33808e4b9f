------------------------------ MODULE RetriedCall ------------------------------
(***************************************************************************)
(* What a request sent through the rest client promises, and all it        *)
(* promises: a success was an effect on the service, a failure says        *)
(* nothing, and the service performs the request a bounded number of       *)
(* times, some of them perhaps after the caller has its verdict.           *)
(***************************************************************************)
EXTENDS Naturals

CONSTANTS Requests, MaxEffects

VARIABLES effects,   \* [Requests -> times the service performed the request]
          verdict    \* [Requests -> "idle", "open", "success" or "failure"]

callVars == <<effects, verdict>>

CallInit == /\ effects = [r \in Requests |-> 0]
            /\ verdict = [r \in Requests |-> "idle"]

Invoke(r) == /\ verdict[r] = "idle"
             /\ verdict' = [verdict EXCEPT ![r] = "open"]
             /\ UNCHANGED effects

TakeEffect(r) == /\ verdict[r] # "idle"
                 /\ effects[r] < MaxEffects
                 /\ effects' = [effects EXCEPT ![r] = @ + 1]
                 /\ UNCHANGED verdict

Succeed(r) == /\ verdict[r] = "open"
              /\ effects[r] > 0
              /\ verdict' = [verdict EXCEPT ![r] = "success"]
              /\ UNCHANGED effects

Fail(r) == /\ verdict[r] = "open"
           /\ verdict' = [verdict EXCEPT ![r] = "failure"]
           /\ UNCHANGED effects

CallNext == \E r \in Requests : Invoke(r) \/ TakeEffect(r) \/ Succeed(r) \/ Fail(r)

CallSpec == CallInit /\ [][CallNext]_callVars
===============================================================================
