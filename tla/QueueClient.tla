------------------------------ MODULE QueueClient ------------------------------
(***************************************************************************)
(* A LimitedParallelQueue at work: a caller pushes items and awaits        *)
(* waitAll, and the items' promises settle in any order.  JavaScript runs  *)
(* one synchronous stretch of code at a time, so a stretch is an action;   *)
(* the stretch after an await is an action of its own, and any number of   *)
(* promises may settle between the race being decided and waitAll going on.*)
(***************************************************************************)
EXTENDS LimitedParallelQueue

CONSTANT Items

VARIABLES queue,  \* the queue object, a record of LimitedParallelQueue
          item    \* [Items -> "idle", "queued", "running", "fulfilled", "rejected"]

clientVars == <<queue, item>>

ClientInit == /\ queue = NewQueue
              /\ item = [i \in Items |-> "idle"]

PushItem(i) == /\ item[i] = "idle"
               /\ queue.waitAll \in {"notCalled", "waiting"}
               /\ queue' = Push(queue, i)
               /\ item' = [item EXCEPT ![i] = "queued"]

\* a turn of waitAll's loop, and the items it calls begin to run
Turn == /\ queue' = Loop(queue)
        /\ item' = [i \in Items |->
                      IF i \in Started(queue) THEN "running" ELSE item[i]]

CallWaitAll == queue.waitAll = "notCalled" /\ Turn

Resume == queue.waitAll = "waiting" /\ queue.race = "fulfilled" /\ Turn

RaceThrowsDefect ==
    queue.waitAll = "waiting" /\ queue.race = "rejected" /\ Turn

RaceThrows == /\ queue.waitAll = "waiting"
              /\ queue.race = "rejected"
              /\ queue' = Throw(queue)
              /\ UNCHANGED item

ItemFulfils(i) == /\ item[i] = "running"
                  /\ item' = [item EXCEPT ![i] = "fulfilled"]
                  /\ queue' = OnFulfilled(queue, i)

ItemRejects(i) == /\ item[i] = "running"
                  /\ item' = [item EXCEPT ![i] = "rejected"]
                  /\ queue' = OnRejected(queue, i)

RunningItems == {i \in Items : item[i] = "running"}

Done == /\ queue.waitAll \in {"fulfilled", "rejected"}
        /\ RunningItems = {}
        /\ UNCHANGED clientVars

ClientNext == \/ \E i \in Items : PushItem(i) \/ ItemFulfils(i) \/ ItemRejects(i)
              \/ CallWaitAll
              \/ Resume
              \/ RaceThrows
              \/ Done

\* The event loop runs every callback that is ready, and a download settles.
ClientFairness == /\ WF_clientVars(Resume)
                  /\ WF_clientVars(RaceThrows)
                  /\ \A i \in Items : WF_clientVars(ItemFulfils(i) \/ ItemRejects(i))

ClientSpec == ClientInit /\ [][ClientNext]_clientVars

ClientFairSpec == ClientSpec /\ ClientFairness
-------------------------------------------------------------------------------
\* Every variable has its type, and a rejected item stays among the executing
\* ones for good.
ClientTypeOK ==
    /\ queue \in Queues(Items)
    /\ queue.broken \subseteq queue.executing
    /\ item \in [Items -> {"idle", "queued", "running", "fulfilled", "rejected"}]

\* At no moment do more than maxParallelPromises items run, items that go on
\* running after waitAll was rejected included.
BoundedParallelism == Cardinality(RunningItems) <= MaxParallelPromises

\* waitAll fulfils only when every item ever pushed has fulfilled: no item is
\* forgotten, whichever way settlements and turns of the loop interleave.
FulfilledMeansAllDone ==
    queue.waitAll = "fulfilled" =>
        \A i \in Items : item[i] \in {"idle", "fulfilled"}

\* While waitAll awaits an undecided race some item runs that can decide it,
\* so the await cannot hang on settled or missing promises.
RaceCanBeDecided ==
    queue.race = "pending" => queue.executing \intersect RunningItems # {}

\* Once one item's rejection is what the loop will see next, or waitAll has
\* settled, no further item is ever started.
NoStartAfterFailure ==
    [][queue.race = "rejected" \/ queue.waitAll \in {"fulfilled", "rejected"}
         => \A i \in Items : item'[i] = "running" => item[i] = "running"]_clientVars

\* waitAll settles whenever all items it starts settle.
WaitAllSettles ==
    queue.waitAll = "waiting" ~> queue.waitAll \in {"fulfilled", "rejected"}

\* The state of a task, and the verdict, that the abstract pool sees.
TaskOf(i) == CASE item[i] = "queued"    -> "submitted"
               [] item[i] = "fulfilled" -> "succeeded"
               [] item[i] = "rejected"  -> "failed"
               [] OTHER                 -> item[i]

Tasking == [i \in Items |-> TaskOf(i)]

Verdict == CASE queue.waitAll = "fulfilled" -> "success"
             [] queue.waitAll = "rejected"  -> "failure"
             [] OTHER                      -> "none"

Pool == INSTANCE TaskPool WITH
          Tasks   <- Items,
          Limit   <- MaxParallelPromises,
          task    <- Tasking,
          verdict <- Verdict

\* The queue implements the task pool: its records and races are details.
ImplementsTaskPool == Pool!PoolSpec
===============================================================================
