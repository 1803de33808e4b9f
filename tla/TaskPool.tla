------------------------------- MODULE TaskPool -------------------------------
(***************************************************************************)
(* What LimitedParallelQueue promises its caller, with no queue, no race   *)
(* and no promise in sight: tasks are submitted and run once each, at most *)
(* Limit of them at a time; the pool reports success only after every task *)
(* submitted succeeded, and failure only after one failed; it starts       *)
(* nothing after it reported.  A task that runs when failure is reported   *)
(* goes on running.                                                        *)
(***************************************************************************)
EXTENDS Naturals, FiniteSets

CONSTANTS Tasks, Limit

VARIABLES task,     \* [Tasks -> what became of the task]
          verdict   \* what the pool reported: "none", "success" or "failure"

poolVars == <<task, verdict>>

In(state) == {t \in Tasks : task[t] = state}

PoolInit == /\ task = [t \in Tasks |-> "idle"]
            /\ verdict = "none"

Submit(t) == /\ verdict = "none"
             /\ task[t] = "idle"
             /\ task' = [task EXCEPT ![t] = "submitted"]
             /\ UNCHANGED verdict

Start(S) == /\ verdict = "none"
            /\ S # {}
            /\ Cardinality(In("running")) + Cardinality(S) <= Limit
            /\ task' = [t \in Tasks |-> IF t \in S THEN "running" ELSE task[t]]
            /\ UNCHANGED verdict

Finish(t) == /\ task[t] = "running"
             /\ \E end \in {"succeeded", "failed"} :
                    task' = [task EXCEPT ![t] = end]
             /\ UNCHANGED verdict

ReportSuccess == /\ verdict = "none"
                 /\ In("submitted") \union In("running") \union In("failed") = {}
                 /\ verdict' = "success"
                 /\ UNCHANGED task

ReportFailure == /\ verdict = "none"
                 /\ In("failed") # {}
                 /\ verdict' = "failure"
                 /\ UNCHANGED task

PoolNext == \/ \E t \in Tasks : Submit(t) \/ Finish(t)
            \/ \E S \in SUBSET In("submitted") : Start(S)
            \/ ReportSuccess
            \/ ReportFailure

PoolSpec == PoolInit /\ [][PoolNext]_poolVars
===============================================================================
