------------------------- MODULE LimitedParallelQueue -------------------------
(***************************************************************************)
(* The class LimitedParallelQueue of the authoring client, as a record and *)
(* one operator per step of JavaScript code that runs without an await in  *)
(* between:                                                                *)
(*   queue      _queue, the items pushed and not started yet               *)
(*   executing  currentlyExecutingPromises                                 *)
(*   broken     the items of executing whose promise is rejected; nothing  *)
(*              ever takes such an item out of executing                   *)
(*   race       the Promise.race the loop awaits; "none" outside the loop  *)
(*   waitAll    the promise waitAll returned                               *)
(* An item is the closure pushed, run once; what it does is left to the    *)
(* module that uses the queue (QueueClient, ChangesetDownload).            *)
(*                                                                         *)
(* Definitions called ...Defect are plausible mistakes in the definition   *)
(* that follows them; the system does not use them, the properties must    *)
(* tell them apart from it.                                                *)
(***************************************************************************)
EXTENDS Naturals, Sequences, FiniteSets

CONSTANT MaxParallelPromises    \* config.maxParallelPromises

ASSUME QueueAssumption == MaxParallelPromises \in Nat \ {0}

Queues(Items) == [queue     : Seq(Items),
                  executing : SUBSET Items,
                  broken    : SUBSET Items,
                  race      : {"none", "pending", "fulfilled", "rejected"},
                  waitAll   : {"notCalled", "waiting", "fulfilled", "rejected"}]

Queued(q) == {q.queue[j] : j \in 1..Len(q.queue)}

NewQueue == [queue     |-> <<>>,
             executing |-> {},
             broken    |-> {},
             race      |-> "none",
             waitAll   |-> "notCalled"]

\* push; the code has no guard, so an item may also arrive while waitAll waits
Push(q, item) == [q EXCEPT !.queue = Append(@, item)]

(***************************************************************************)
(* One turn of the outer while loop.  It starts items in the order they    *)
(* were pushed as long as there is room among the executing ones, and then *)
(* races everything that executes; it is left when nothing is queued and   *)
(* nothing executes.  A race over a promise that was rejected before the   *)
(* race was made is rejected from the start.                               *)
(***************************************************************************)
RoomDefect(q) == MaxParallelPromises + 1 - Cardinality(q.executing)

Room(q) == MaxParallelPromises - Cardinality(q.executing)

StartCount(q) == IF Len(q.queue) <= Room(q) THEN Len(q.queue) ELSE Room(q)

Starting(q) == {q.queue[j] : j \in 1..StartCount(q)}

LoopDefect(q) ==
    IF q.executing = {}
    THEN [q EXCEPT !.waitAll = "fulfilled", !.race = "none"]
    ELSE [q EXCEPT !.queue     = SubSeq(@, StartCount(q) + 1, Len(@)),
                   !.executing = @ \union Starting(q),
                   !.race      = IF q.broken = {} THEN "pending" ELSE "rejected",
                   !.waitAll   = "waiting"]

Loop(q) ==
    IF q.queue = <<>> /\ q.executing = {}
    THEN [q EXCEPT !.waitAll = "fulfilled", !.race = "none"]
    ELSE [q EXCEPT !.queue     = SubSeq(@, StartCount(q) + 1, Len(@)),
                   !.executing = @ \union Starting(q),
                   !.race      = IF q.broken = {} THEN "pending" ELSE "rejected",
                   !.waitAll   = "waiting"]

\* the items a turn of the loop calls
Started(q) == IF q.queue = <<>> /\ q.executing = {} THEN {} ELSE Starting(q)

\* the rejected race makes the await, and with it waitAll, throw
Throw(q) == [q EXCEPT !.race = "none", !.waitAll = "rejected"]

\* the first promise to settle decides the race
Settled(q, outcome) == IF q.race = "pending" THEN outcome ELSE q.race

\* an item's promise fulfils: its then callback takes it out of executing
OnFulfilledDefect(q, item) == [q EXCEPT !.race = Settled(q, "fulfilled")]

OnFulfilled(q, item) == [q EXCEPT !.executing = @ \ {item},
                                  !.race      = Settled(q, "fulfilled")]

\* an item's promise is rejected: the then callback has no rejection handler
OnRejectedDefect(q, item) == [q EXCEPT !.broken = @ \union {item}]

OnRejected(q, item) == [q EXCEPT !.broken = @ \union {item},
                                 !.race   = Settled(q, "rejected")]
===============================================================================
