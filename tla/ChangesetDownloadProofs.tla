------------------------ MODULE ChangesetDownloadProofs ------------------------
(***************************************************************************)
(* Proofs about LimitedParallelQueue, for any items and any                *)
(* maxParallelPromises; about ChangesetDownload, which uses it, for any    *)
(* number of calls, changesets and retries, any sizes of files and pages;  *)
(* and about its composition with the adapter that cancels a download.     *)
(* First what the steps of the queue preserve, which the other proofs cite *)
(* without looking inside Loop, and QueueClient, the queue in use: type    *)
(* correctness, the limit, that nothing is forgotten, that the loop never  *)
(* awaits a race nobody can decide, that nothing starts after a failure,   *)
(* and that the queue implements TaskPool.                                 *)
(* CallInv says of each call how its phase, the steps of its downloads and *)
(* its queue belong together, and holds however calls overlap.             *)
(* FileInv says how files, open streams and downloads belong together as   *)
(* long as no call begins beside downloads that an earlier one left        *)
(* running (~overlap).  The call that is in progress, or has downloads     *)
(* running, is then the only one, so a step of a download need be compared *)
(* with its own file alone.                                                *)
(* CancellationInv says where the adapter stands whose callback decided.   *)
(* ProgressInv counts: what a call has yet to receive is a set of chunks,  *)
(* Missing, and its cardinality is what downloaded falls short of total.   *)
(***************************************************************************)
EXTENDS DownloadCancellation, QueueClient, FiniteSetTheorems, TLAPS

-------------------------------------------------------------------------------
(* The queue.                                                              *)

\* An item is queued at one place only.
NoDuplicates(q) ==
    \A i, j \in 1..Len(q.queue) : q.queue[i] = q.queue[j] => i = j

\* The invariant of the queue object, which every step below preserves.
WellFormed(q) ==
    /\ IsFiniteSet(q.executing)
    /\ Cardinality(q.executing) <= MaxParallelPromises
    /\ q.broken \subseteq q.executing
    /\ NoDuplicates(q)
    /\ q.race = "pending" => q.executing # {} /\ q.broken = {}
    /\ q.race = "rejected" => q.broken # {}
    /\ q.waitAll = "notCalled" => q.executing = {}
    /\ q.waitAll = "waiting" => q.race # "none"
    /\ q.waitAll # "waiting" => q.race = "none"
    /\ q.waitAll = "fulfilled" => q.queue = <<>> /\ q.executing = {}
    /\ q.waitAll = "rejected" => q.broken # {}

\* A new queue is well formed and empty.
LEMMA NewQueueWellFormed ==
    ASSUME NEW S
    PROVE  /\ NewQueue \in Queues(S)
           /\ WellFormed(NewQueue)
           /\ Queued(NewQueue) = {}
BY FS_EmptySet, QueueAssumption DEF NewQueue, Queues, WellFormed, NoDuplicates, Queued

\* push adds one item at the end.
LEMMA PushWellFormed ==
    ASSUME NEW S, NEW q \in Queues(S), WellFormed(q),
           NEW i \in S \ Queued(q), q.waitAll # "fulfilled"
    PROVE  /\ Push(q, i) \in Queues(S)
           /\ WellFormed(Push(q, i))
           /\ Queued(Push(q, i)) = Queued(q) \union {i}
<1> DEFINE p == Push(q, i)
<1>1. q.queue \in Seq(S) /\ i \in S
  BY DEF Queues
<1>2. p = [q EXCEPT !.queue = Append(q.queue, i)]
  BY DEF Push
<1> HIDE DEF p
<1>a. Append(q.queue, i) \in Seq(S)
  BY <1>1
<1>3. /\ p \in Queues(S)
      /\ p.queue = Append(q.queue, i)
      /\ p.executing = q.executing
      /\ p.broken = q.broken
      /\ p.race = q.race
      /\ p.waitAll = q.waitAll
  BY <1>a, <1>2 DEF Queues
<1>4. /\ Len(p.queue) = Len(q.queue) + 1
      /\ Len(q.queue) \in Nat
      /\ p.queue[Len(q.queue) + 1] = i
      /\ \A j \in 1..Len(q.queue) : p.queue[j] = q.queue[j]
  BY <1>1, <1>3
<1>5. Queued(p) = Queued(q) \union {i}
  BY <1>4 DEF Queued
<1>6. NoDuplicates(p)
  <2> DEFINE n == Len(q.queue)
  <2>1. ASSUME NEW j \in 1..n
        PROVE  q.queue[j] # i
    BY DEF Queued
  <2>2. NoDuplicates(q)
    BY DEF WellFormed
  <2>3. ASSUME NEW j \in 1..(n + 1), NEW l \in 1..(n + 1), p.queue[j] = p.queue[l]
        PROVE  j = l
    <3>1. CASE j \in 1..n /\ l \in 1..n
      BY <1>4, <2>2, <2>3, <3>1 DEF NoDuplicates
    <3>2. CASE j = n + 1 \/ l = n + 1
      BY <1>4, <2>1, <2>3, <3>2
    <3> QED
      BY <1>4, <2>3, <3>1, <3>2
  <2> QED
    BY <1>4, <2>3 DEF NoDuplicates
<1>7. WellFormed(p)
  BY <1>3, <1>6 DEF WellFormed
<1> QED
  BY <1>3, <1>5, <1>7 DEF p

\* How many items a turn starts: no more than are queued or than there is
\* room for, and at least one when nothing executes.
LEMMA StartCountBounds ==
    ASSUME NEW S, NEW q \in Queues(S), WellFormed(q)
    PROVE  /\ StartCount(q) \in 0..Len(q.queue)
           /\ Cardinality(q.executing) + StartCount(q) <= MaxParallelPromises
           /\ q.executing = {} /\ q.queue # <<>> => StartCount(q) > 0
<1>1. q.queue \in Seq(S) /\ Len(q.queue) \in Nat
  BY DEF Queues
<1>2. /\ Cardinality(q.executing) \in Nat
      /\ Cardinality(q.executing) <= MaxParallelPromises
      /\ q.executing = {} => Cardinality(q.executing) = 0
  BY FS_CardinalityType, FS_EmptySet DEF WellFormed
<1>3. q.queue # <<>> => Len(q.queue) > 0
  BY <1>1
<1> DEFINE len == Len(q.queue)
           card == Cardinality(q.executing)
<1>4. StartCount(q) = IF len <= MaxParallelPromises - card
                      THEN len ELSE MaxParallelPromises - card
  BY DEF StartCount, Room
<1>5. MaxParallelPromises \in Nat \ {0} /\ len \in Nat /\ card \in Nat
      /\ card <= MaxParallelPromises
  BY <1>1, <1>2, QueueAssumption
<1> HIDE DEF len, card
<1>6. /\ StartCount(q) \in 0..len
      /\ card + StartCount(q) <= MaxParallelPromises
      /\ card = 0 /\ len > 0 => StartCount(q) > 0
  BY <1>4, <1>5
<1> QED
  BY <1>2, <1>3, <1>6 DEF len, card

\* A turn of the loop moves items from the front of the queue to the
\* executing ones, losing and doubling none.
LEMMA LoopMovesItems ==
    ASSUME NEW S, NEW q \in Queues(S), WellFormed(q)
    PROVE  /\ Loop(q) \in Queues(S)
           /\ NoDuplicates(Loop(q))
           /\ Started(q) \subseteq Queued(q)
           /\ Queued(Loop(q)) = Queued(q) \ Started(q)
           /\ Loop(q).executing = q.executing \union Started(q)
           /\ Loop(q).broken = q.broken
<1> DEFINE n == StartCount(q)
           s == q.queue
           t == SubSeq(s, n + 1, Len(s))
<1>1. s \in Seq(S) /\ Len(s) \in Nat /\ n \in 0..Len(s)
  BY StartCountBounds DEF Queues
<1>2. /\ t \in Seq(S)
      /\ Len(t) = Len(s) - n
      /\ \A j \in 1..Len(t) : t[j] = s[n + j]
  BY <1>1
<1>3. CASE s = <<>> /\ q.executing = {}
  <2>1. /\ Loop(q) = [q EXCEPT !.waitAll = "fulfilled", !.race = "none"]
        /\ Started(q) = {}
    BY <1>3 DEF Loop, Started
  <2>2. /\ Loop(q) \in Queues(S)
        /\ Loop(q).queue = q.queue
        /\ Loop(q).executing = q.executing
        /\ Loop(q).broken = q.broken
    BY <2>1 DEF Queues
  <2> QED
    BY <2>1, <2>2 DEF NoDuplicates, Queued, WellFormed
<1>4. CASE ~(s = <<>> /\ q.executing = {})
  <2>1. /\ Loop(q).queue = t
        /\ Loop(q).executing = q.executing \union Starting(q)
        /\ Loop(q).broken = q.broken
        /\ Loop(q).race \in {"pending", "rejected"}
        /\ Loop(q).waitAll = "waiting"
        /\ Loop(q) = [q EXCEPT !.queue     = t,
                               !.executing = q.executing \union Starting(q),
                               !.race      = Loop(q).race,
                               !.waitAll   = "waiting"]
    BY <1>4 DEF Loop, Queues
  <2>2. Started(q) = Starting(q)
    BY <1>4 DEF Started
  <2>3. Starting(q) \subseteq Queued(q) /\ Queued(q) \subseteq S
    BY <1>1 DEF Starting, Queued
  <2>4. Loop(q) \in Queues(S)
    BY <1>2, <2>1, <2>3 DEF Queues
  <2>5. NoDuplicates(Loop(q))
    <3>1. SUFFICES ASSUME NEW i \in 1..Len(t), NEW j \in 1..Len(t), t[i] = t[j]
                   PROVE  i = j
      BY <2>1 DEF NoDuplicates
    <3>2. n + i \in 1..Len(s) /\ n + j \in 1..Len(s)
      BY <1>1, <1>2
    <3>3. s[n + i] = s[n + j]
      BY <1>2, <3>1
    <3>4. n + i = n + j
      BY <3>2, <3>3 DEF NoDuplicates, WellFormed
    <3> QED
      BY <1>1, <1>2, <3>4
  <2>6. Queued(Loop(q)) = {s[j] : j \in (n + 1)..Len(s)}
    <3>1. ASSUME NEW j \in (n + 1)..Len(s)
          PROVE  s[j] \in {t[k] : k \in 1..Len(t)}
      <4>1. j - n \in 1..Len(t) /\ n + (j - n) = j
        BY <1>1, <1>2
      <4>2. t[j - n] = s[j]
        BY <1>2, <4>1
      <4> QED
        BY <4>1, <4>2
    <3>2. ASSUME NEW j \in 1..Len(t)
          PROVE  t[j] \in {s[k] : k \in (n + 1)..Len(s)}
      <4>1. n + j \in (n + 1)..Len(s)
        BY <1>1, <1>2
      <4> QED
        BY <1>2, <4>1
    <3>3. {t[j] : j \in 1..Len(t)} = {s[j] : j \in (n + 1)..Len(s)}
      BY <3>1, <3>2
    <3> QED
      BY <2>1, <3>3 DEF Queued
  <2>7. {s[j] : j \in (n + 1)..Len(s)} = Queued(q) \ Starting(q)
    <3>1. ASSUME NEW j \in (n + 1)..Len(s), NEW k \in 1..n
          PROVE  s[j] # s[k]
      BY <1>1 DEF NoDuplicates, WellFormed
    <3>2. 1..Len(s) = (1..n) \union ((n + 1)..Len(s))
      BY <1>1
    <3> QED
      BY <3>1, <3>2 DEF Queued, Starting
  <2> QED
    BY <2>1, <2>2, <2>3, <2>4, <2>5, <2>6, <2>7
<1> QED
  BY <1>3, <1>4

\* The items a turn starts are no more than the turn counted.
LEMMA StartingCardinality ==
    ASSUME NEW S, NEW q \in Queues(S), WellFormed(q)
    PROVE  /\ IsFiniteSet(Starting(q))
           /\ Cardinality(Starting(q)) <= StartCount(q)
<1> DEFINE n == StartCount(q)
           f == [j \in 1..n |-> q.queue[j]]
<1>1. n \in Nat
  BY StartCountBounds DEF Queues
<1>2. f \in Surjection(1..n, Starting(q))
  BY DEF Surjection, Starting
<1>3. IsFiniteSet(1..n) /\ Cardinality(1..n) = n
  BY <1>1, FS_Interval
<1>4. /\ IsFiniteSet(Starting(q))
      /\ Cardinality(Starting(q)) <= Cardinality(1..n)
  BY <1>2, <1>3, FS_Surjection
<1> QED
  BY <1>3, <1>4

\* A turn of the loop keeps the queue well formed: within its limit, racing
\* something that can settle, and fulfilled only when nothing is left.
LEMMA LoopWellFormed ==
    ASSUME NEW S, NEW q \in Queues(S), WellFormed(q),
           q.waitAll \in {"notCalled", "waiting"}
    PROVE  WellFormed(Loop(q))
<1>1. CASE q.queue = <<>> /\ q.executing = {}
  <2>1. Loop(q) = [q EXCEPT !.waitAll = "fulfilled", !.race = "none"]
    BY <1>1 DEF Loop
  <2>2. /\ Loop(q).queue = <<>> /\ Loop(q).executing = {}
        /\ Loop(q).broken = q.broken
        /\ Loop(q).race = "none" /\ Loop(q).waitAll = "fulfilled"
    BY <1>1, <2>1 DEF Queues
  <2> QED
    BY <1>1, <2>2 DEF WellFormed, NoDuplicates
<1>2. CASE ~(q.queue = <<>> /\ q.executing = {})
  <2>1. /\ Loop(q).executing = q.executing \union Starting(q)
        /\ Loop(q).broken = q.broken
        /\ Loop(q).race = IF q.broken = {} THEN "pending" ELSE "rejected"
        /\ Loop(q).waitAll = "waiting"
    BY <1>2 DEF Loop, Queues
  <2>2. NoDuplicates(Loop(q))
    BY LoopMovesItems
  <2>3. Loop(q).executing # {}
    <3>1. CASE q.executing # {}
      BY <2>1, <3>1
    <3>2. CASE q.executing = {}
      <4>1. 1 \in 1..StartCount(q)
        BY <1>2, <3>2, StartCountBounds DEF Queues
      <4>2. q.queue[1] \in Starting(q)
        BY <4>1 DEF Starting
      <4> QED
        BY <2>1, <4>2
    <3> QED
      BY <3>1, <3>2
  <2>4. IsFiniteSet(Loop(q).executing)
        /\ Cardinality(Loop(q).executing) <= MaxParallelPromises
    <3>1. IsFiniteSet(q.executing) /\ IsFiniteSet(Starting(q))
      BY StartingCardinality DEF WellFormed
    <3>2. /\ IsFiniteSet(q.executing \union Starting(q))
          /\ Cardinality(q.executing \union Starting(q))
               = Cardinality(q.executing) + Cardinality(Starting(q))
                   - Cardinality(q.executing \intersect Starting(q))
      BY <3>1, FS_Union
    <3>3. IsFiniteSet(q.executing \intersect Starting(q))
      BY <3>1, FS_Intersection
    <3>4. /\ Cardinality(q.executing) \in Nat
          /\ Cardinality(Starting(q)) \in Nat
          /\ Cardinality(q.executing \intersect Starting(q)) \in Nat
      BY <3>1, <3>3, FS_CardinalityType
    <3>5. /\ Cardinality(Starting(q)) <= StartCount(q)
          /\ Cardinality(q.executing) + StartCount(q) <= MaxParallelPromises
          /\ StartCount(q) \in Nat
      BY StartingCardinality, StartCountBounds DEF Queues
    <3> QED
      BY <2>1, <3>2, <3>4, <3>5, QueueAssumption
  <2> QED
    BY <2>1, <2>2, <2>3, <2>4 DEF WellFormed
<1> QED
  BY <1>1, <1>2

\* A fulfilled item leaves the executing ones and may decide the race.
LEMMA OnFulfilledWellFormed ==
    ASSUME NEW S, NEW q \in Queues(S), WellFormed(q),
           NEW i \in q.executing \ q.broken
    PROVE  /\ OnFulfilled(q, i) \in Queues(S)
           /\ WellFormed(OnFulfilled(q, i))
           /\ OnFulfilled(q, i).queue = q.queue
           /\ OnFulfilled(q, i).executing = q.executing \ {i}
           /\ OnFulfilled(q, i).broken = q.broken
           /\ OnFulfilled(q, i).waitAll = q.waitAll
<1> DEFINE p == OnFulfilled(q, i)
<1>1. /\ p \in Queues(S)
      /\ p.queue = q.queue
      /\ p.executing = q.executing \ {i}
      /\ p.broken = q.broken
      /\ p.waitAll = q.waitAll
      /\ p.race = IF q.race = "pending" THEN "fulfilled" ELSE q.race
  BY DEF OnFulfilled, Settled, Queues
<1>2. /\ IsFiniteSet(p.executing)
      /\ Cardinality(p.executing) = Cardinality(q.executing) - 1
      /\ Cardinality(q.executing) \in Nat
  BY <1>1, FS_RemoveElement, FS_CardinalityType DEF WellFormed
<1>3. WellFormed(p)
  BY <1>1, <1>2, QueueAssumption DEF WellFormed, NoDuplicates
<1> QED
  BY <1>1, <1>3

\* A rejected item stays among the executing ones and may decide the race.
LEMMA OnRejectedWellFormed ==
    ASSUME NEW S, NEW q \in Queues(S), WellFormed(q),
           NEW i \in q.executing \ q.broken
    PROVE  /\ OnRejected(q, i) \in Queues(S)
           /\ WellFormed(OnRejected(q, i))
           /\ OnRejected(q, i).queue = q.queue
           /\ OnRejected(q, i).executing = q.executing
           /\ OnRejected(q, i).broken = q.broken \union {i}
           /\ OnRejected(q, i).waitAll = q.waitAll
<1> DEFINE p == OnRejected(q, i)
<1>1. /\ p \in Queues(S)
      /\ p.queue = q.queue
      /\ p.executing = q.executing
      /\ p.broken = q.broken \union {i}
      /\ p.waitAll = q.waitAll
      /\ p.race = IF q.race = "pending" THEN "rejected" ELSE q.race
  BY DEF OnRejected, Settled, Queues
<1>2. WellFormed(p)
  BY <1>1 DEF WellFormed, NoDuplicates
<1> QED
  BY <1>1, <1>2

\* waitAll throws: nothing else changes.
LEMMA ThrowWellFormed ==
    ASSUME NEW S, NEW q \in Queues(S), WellFormed(q),
           q.race = "rejected"
    PROVE  /\ Throw(q) \in Queues(S)
           /\ WellFormed(Throw(q))
           /\ Throw(q).queue = q.queue
           /\ Throw(q).executing = q.executing
           /\ Throw(q).broken = q.broken
           /\ Throw(q).waitAll = "rejected"
<1> DEFINE p == Throw(q)
<1>1. /\ p \in Queues(S)
      /\ p.queue = q.queue
      /\ p.executing = q.executing
      /\ p.broken = q.broken
      /\ p.waitAll = "rejected"
      /\ p.race = "none"
  BY DEF Throw, Queues
<1>2. WellFormed(p)
  BY <1>1 DEF WellFormed, NoDuplicates
<1> QED
  BY <1>1, <1>2
-------------------------------------------------------------------------------
\* The inductive invariant: the queue object is well formed, and its fields
\* say what became of each item.
ClientInv ==
    /\ ClientTypeOK
    /\ WellFormed(queue)
    /\ Queued(queue) = {i \in Items : item[i] = "queued"}
    /\ queue.executing = {i \in Items : item[i] \in {"running", "rejected"}}
    /\ queue.broken = {i \in Items : item[i] = "rejected"}

LEMMA InitClientInv == ClientInit => ClientInv
<1> SUFFICES ASSUME ClientInit PROVE ClientInv
  OBVIOUS
<1>1. /\ queue \in Queues(Items) /\ WellFormed(queue) /\ Queued(queue) = {}
      /\ queue.executing = {} /\ queue.broken = {}
  BY NewQueueWellFormed DEF ClientInit, NewQueue
<1> QED
  BY <1>1 DEF ClientInv, ClientTypeOK, ClientInit

LEMMA PushStep == ASSUME ClientInv, NEW i \in Items, PushItem(i) PROVE ClientInv'
<1>1. i \in Items \ Queued(queue) /\ queue.waitAll # "fulfilled"
  BY DEF ClientInv, PushItem
<1>2. /\ queue' = Push(queue, i) /\ queue \in Queues(Items) /\ WellFormed(queue)
  BY DEF ClientInv, PushItem, ClientTypeOK
<1>3. /\ queue' \in Queues(Items) /\ WellFormed(queue)'
      /\ Queued(queue)' = Queued(queue) \union {i}
  BY <1>1, <1>2, PushWellFormed
<1>4. queue'.executing = queue.executing /\ queue'.broken = queue.broken
  BY <1>2 DEF Push, Queues
<1> QED
  BY <1>3, <1>4 DEF ClientInv, ClientTypeOK, PushItem

LEMMA TurnStep ==
    ASSUME ClientInv, Turn, queue.waitAll \in {"notCalled", "waiting"}
    PROVE  ClientInv'
<1>1. queue' = Loop(queue) /\ queue \in Queues(Items) /\ WellFormed(queue)
  BY DEF ClientInv, Turn, ClientTypeOK
<1>2. /\ queue' \in Queues(Items)
      /\ Started(queue) \subseteq Queued(queue)
      /\ Queued(queue)' = Queued(queue) \ Started(queue)
      /\ queue'.executing = queue.executing \union Started(queue)
      /\ queue'.broken = queue.broken
  BY <1>1, LoopMovesItems
<1>3. WellFormed(queue)'
  BY <1>1, LoopWellFormed
<1>4. queue'.broken \subseteq queue'.executing
  BY <1>3 DEF WellFormed
<1> QED
  BY <1>2, <1>3, <1>4 DEF ClientInv, ClientTypeOK, Turn

LEMMA FulfilStep ==
    ASSUME ClientInv, NEW i \in Items, ItemFulfils(i) PROVE ClientInv'
<1>1. /\ queue' = OnFulfilled(queue, i) /\ queue \in Queues(Items)
      /\ WellFormed(queue) /\ i \in queue.executing \ queue.broken
  BY DEF ClientInv, ItemFulfils, ClientTypeOK
<1>2. /\ queue' \in Queues(Items) /\ WellFormed(queue)'
      /\ queue'.queue = queue.queue
      /\ queue'.executing = queue.executing \ {i}
      /\ queue'.broken = queue.broken
  BY <1>1, OnFulfilledWellFormed
<1>3. Queued(queue)' = Queued(queue) /\ queue'.broken \subseteq queue'.executing
  BY <1>2 DEF Queued, WellFormed
<1> QED
  BY <1>2, <1>3 DEF ClientInv, ClientTypeOK, ItemFulfils

LEMMA RejectStep ==
    ASSUME ClientInv, NEW i \in Items, ItemRejects(i) PROVE ClientInv'
<1>1. /\ queue' = OnRejected(queue, i) /\ queue \in Queues(Items)
      /\ WellFormed(queue) /\ i \in queue.executing \ queue.broken
  BY DEF ClientInv, ItemRejects, ClientTypeOK
<1>2. /\ queue' \in Queues(Items) /\ WellFormed(queue)'
      /\ queue'.queue = queue.queue
      /\ queue'.executing = queue.executing
      /\ queue'.broken = queue.broken \union {i}
  BY <1>1, OnRejectedWellFormed
<1>3. Queued(queue)' = Queued(queue) /\ queue'.broken \subseteq queue'.executing
  BY <1>2 DEF Queued, WellFormed
<1> QED
  BY <1>2, <1>3 DEF ClientInv, ClientTypeOK, ItemRejects

LEMMA ThrowStep == ASSUME ClientInv, RaceThrows PROVE ClientInv'
<1>1. /\ queue' = Throw(queue) /\ queue \in Queues(Items)
      /\ WellFormed(queue) /\ queue.race = "rejected"
  BY DEF ClientInv, RaceThrows, ClientTypeOK
<1>2. /\ queue' \in Queues(Items) /\ WellFormed(queue)'
      /\ queue'.queue = queue.queue
      /\ queue'.executing = queue.executing
      /\ queue'.broken = queue.broken
  BY <1>1, ThrowWellFormed
<1>3. Queued(queue)' = Queued(queue) /\ queue'.broken \subseteq queue'.executing
  BY <1>2 DEF Queued, WellFormed
<1> QED
  BY <1>2, <1>3 DEF ClientInv, ClientTypeOK, RaceThrows

LEMMA NextClientInv == ClientInv /\ [ClientNext]_clientVars => ClientInv'
<1> SUFFICES ASSUME ClientInv, [ClientNext]_clientVars PROVE ClientInv'
  OBVIOUS
<1>1. CASE \E i \in Items : PushItem(i) \/ ItemFulfils(i) \/ ItemRejects(i)
  BY <1>1, PushStep, FulfilStep, RejectStep
<1>2. CASE CallWaitAll
  BY <1>2, TurnStep DEF CallWaitAll
<1>3. CASE Resume
  BY <1>3, TurnStep DEF Resume
<1>4. CASE RaceThrows
  BY <1>4, ThrowStep
<1>5. CASE UNCHANGED clientVars
  BY <1>5 DEF clientVars, ClientInv, ClientTypeOK
<1> QED
  BY <1>1, <1>2, <1>3, <1>4, <1>5 DEF ClientNext, Done

LEMMA AlwaysClientInv == ClientSpec => []ClientInv
<1>1. ClientInit => ClientInv
  BY InitClientInv
<1>2. ClientInv /\ [ClientNext]_clientVars => ClientInv'
  BY NextClientInv
<1> QED
  BY <1>1, <1>2, PTL DEF ClientSpec

\* The queue object and the items keep their types.
THEOREM ClientTypeCorrect == ClientSpec => []ClientTypeOK
<1>1. ClientInv => ClientTypeOK
  BY DEF ClientInv
<1> QED
  BY <1>1, AlwaysClientInv, PTL

\* At no moment do more than maxParallelPromises items run.
THEOREM LimitHolds == ClientSpec => []BoundedParallelism
<1>1. ClientInv => BoundedParallelism
  <2> SUFFICES ASSUME ClientInv PROVE BoundedParallelism
    OBVIOUS
  <2>1. RunningItems \in SUBSET queue.executing
    BY DEF ClientInv, RunningItems
  <2>2. IsFiniteSet(queue.executing)
        /\ Cardinality(queue.executing) <= MaxParallelPromises
    BY DEF ClientInv, WellFormed
  <2>3. /\ IsFiniteSet(RunningItems)
        /\ Cardinality(RunningItems) <= Cardinality(queue.executing)
    BY <2>1, <2>2, FS_Subset
  <2>4. Cardinality(RunningItems) \in Nat /\ Cardinality(queue.executing) \in Nat
    BY <2>2, <2>3, FS_CardinalityType
  <2> QED
    BY <2>2, <2>3, <2>4, QueueAssumption DEF BoundedParallelism
<1> QED
  BY <1>1, AlwaysClientInv, PTL

\* waitAll fulfils only when every item pushed has fulfilled.
THEOREM NothingForgotten == ClientSpec => []FulfilledMeansAllDone
<1>1. ClientInv => FulfilledMeansAllDone
  <2> SUFFICES ASSUME ClientInv, queue.waitAll = "fulfilled",
                      NEW i \in Items
               PROVE  item[i] \in {"idle", "fulfilled"}
    BY DEF FulfilledMeansAllDone
  <2>1. queue.queue = <<>> /\ queue.executing = {}
    BY DEF ClientInv, WellFormed
  <2>2. Queued(queue) = {}
    BY <2>1 DEF Queued
  <2> QED
    BY <2>1, <2>2 DEF ClientInv, ClientTypeOK
<1> QED
  BY <1>1, AlwaysClientInv, PTL

\* The loop never awaits a race that no running item can decide.
THEOREM AwaitCanEnd == ClientSpec => []RaceCanBeDecided
<1>1. ClientInv => RaceCanBeDecided
  BY DEF ClientInv, WellFormed, RaceCanBeDecided, RunningItems
<1> QED
  BY <1>1, AlwaysClientInv, PTL

\* Nothing starts once a failure is what the loop sees next, or after waitAll
\* has settled.
THEOREM NothingStartsLate == ClientSpec => NoStartAfterFailure
<1> DEFINE NoLateStart ==
      queue.race = "rejected" \/ queue.waitAll \in {"fulfilled", "rejected"}
         => \A i \in Items : item'[i] = "running" => item[i] = "running"
<1>1. ClientInv /\ [ClientNext]_clientVars => [NoLateStart]_clientVars
  <2> SUFFICES ASSUME ClientInv, ClientNext,
                      queue.race = "rejected"
                        \/ queue.waitAll \in {"fulfilled", "rejected"},
                      NEW j \in Items, item'[j] = "running"
               PROVE  item[j] = "running"
    BY DEF clientVars
  <2>1. CASE \E i \in Items : PushItem(i)
    BY <2>1 DEF PushItem, ClientInv, ClientTypeOK
  <2>2. CASE \E i \in Items : ItemFulfils(i) \/ ItemRejects(i)
    BY <2>2 DEF ItemFulfils, ItemRejects, ClientInv, ClientTypeOK
  <2>3. CASE CallWaitAll
    BY <2>3 DEF CallWaitAll, ClientInv, WellFormed
  <2>4. CASE Resume
    BY <2>4 DEF Resume
  <2>5. CASE RaceThrows \/ Done
    BY <2>5 DEF RaceThrows, Done, clientVars
  <2> QED
    BY <2>1, <2>2, <2>3, <2>4, <2>5 DEF ClientNext
<1> QED
  BY <1>1, AlwaysClientInv, PTL DEF ClientSpec, NoStartAfterFailure

-------------------------------------------------------------------------------
LEMMA TaskValues ==
    ASSUME ClientTypeOK, NEW i \in Items
    PROVE  /\ TaskOf(i) = "idle" <=> item[i] = "idle"
           /\ TaskOf(i) = "submitted" <=> item[i] = "queued"
           /\ TaskOf(i) = "running" <=> item[i] = "running"
           /\ TaskOf(i) = "succeeded" <=> item[i] = "fulfilled"
           /\ TaskOf(i) = "failed" <=> item[i] = "rejected"
BY DEF ClientTypeOK, TaskOf

LEMMA VerdictValues ==
    ASSUME ClientTypeOK
    PROVE  /\ Verdict = "none" <=> queue.waitAll \in {"notCalled", "waiting"}
           /\ Verdict = "success" <=> queue.waitAll = "fulfilled"
           /\ Verdict = "failure" <=> queue.waitAll = "rejected"
BY DEF ClientTypeOK, Queues, Verdict

\* A step that changes one item, and not what waitAll returned.
LEMMA OneTaskChanges ==
    ASSUME ClientTypeOK, ClientTypeOK', NEW i \in Items, queue'.waitAll = queue.waitAll,
           NEW state, item' = [item EXCEPT ![i] = state]
    PROVE  /\ Tasking' = [Tasking EXCEPT ![i] = TaskOf(i)']
           /\ Verdict' = Verdict
<1>1. \A j \in Items \ {i} : item'[j] = item[j]
  BY DEF ClientTypeOK
<1>2. \A j \in Items \ {i} : TaskOf(j)' = TaskOf(j)
  BY <1>1 DEF TaskOf
<1>3. Tasking' = [j \in Items |-> TaskOf(j)']
  BY DEF Tasking
<1>4. Tasking' = [Tasking EXCEPT ![i] = TaskOf(i)']
  BY <1>2, <1>3 DEF Tasking
<1> QED
  BY <1>4 DEF Verdict

\* An abstract state is never reached by the tasks of another.
LEMMA TasksIn ==
    ASSUME ClientTypeOK
    PROVE  /\ Pool!In("submitted") = {i \in Items : item[i] = "queued"}
           /\ Pool!In("running") = RunningItems
           /\ Pool!In("failed") = {i \in Items : item[i] = "rejected"}
BY TaskValues DEF Pool!In, Tasking, RunningItems

\* The module TaskPool counts as this one does.
LEMMA SameCardinality ==
    ASSUME NEW S PROVE Pool!Cardinality(S) = Cardinality(S)
BY Zenon DEF Cardinality, Pool!Cardinality, Pool!IsFiniteSet, IsFiniteSet

\* A turn of the loop starts a set of submitted tasks that fits the limit, or
\* reports success, or changes nothing the abstract pool can see.
LEMMA TurnRefines ==
    ASSUME ClientInv, ClientInv', Turn, queue.waitAll \in {"notCalled", "waiting"}
    PROVE  Pool!PoolNext \/ UNCHANGED Pool!poolVars
<1> DEFINE S == Started(queue)
<1>1. /\ queue' = Loop(queue) /\ queue \in Queues(Items) /\ WellFormed(queue)
      /\ ClientTypeOK /\ ClientTypeOK'
      /\ item' = [i \in Items |-> IF i \in S THEN "running" ELSE item[i]]
  BY DEF ClientInv, Turn, ClientTypeOK
<1>2. Verdict = "none"
  BY <1>1, VerdictValues
<1>3. CASE queue.queue = <<>> /\ queue.executing = {}
  <2>1. S = {} /\ queue'.waitAll = "fulfilled"
    BY <1>1, <1>3 DEF Started, Loop, Queues
  <2>2. Tasking' = Tasking
    BY <1>1, <2>1 DEF Tasking, TaskOf, ClientTypeOK
  <2>3. Verdict' = "success"
    BY <2>1 DEF Verdict
  <2>4. Queued(queue) = {}
    BY <1>3 DEF Queued
  <2>5. Pool!In("submitted") \union Pool!In("running") \union Pool!In("failed") = {}
    BY <1>1, <1>3, <2>4, TasksIn DEF ClientInv, RunningItems
  <2> QED
    BY <1>2, <2>2, <2>3, <2>5 DEF Pool!PoolNext, Pool!ReportSuccess
<1>4. CASE ~(queue.queue = <<>> /\ queue.executing = {})
  <2>1. queue'.waitAll = "waiting"
    BY <1>1, <1>4 DEF Loop, Queues
  <2>2. Verdict' = "none"
    BY <2>1 DEF Verdict
  <2>3. /\ S \subseteq Pool!In("submitted")
        /\ S \intersect RunningItems = {}
    BY <1>1, LoopMovesItems, TasksIn DEF ClientInv, RunningItems
  <2>4. ASSUME NEW i \in Items
        PROVE  Tasking'[i] = IF i \in S THEN "running" ELSE Tasking[i]
    BY <1>1 DEF Tasking, TaskOf
  <2>5. Tasking' = [i \in Items |-> IF i \in S THEN "running" ELSE Tasking[i]]
    BY <2>4 DEF Tasking
  <2>6. CASE S = {}
    BY <1>2, <2>2, <2>5, <2>6 DEF Pool!poolVars, Tasking
  <2>7. CASE S # {}
    <3>1. /\ RunningItems \union S \in SUBSET queue'.executing
          /\ IsFiniteSet(queue'.executing)
          /\ Cardinality(queue'.executing) <= MaxParallelPromises
      BY <1>1, <2>3, LoopMovesItems DEF ClientInv, WellFormed, RunningItems
    <3>2. /\ IsFiniteSet(RunningItems \union S)
          /\ Cardinality(RunningItems \union S) <= Cardinality(queue'.executing)
      BY <3>1, FS_Subset
    <3>3. IsFiniteSet(RunningItems) /\ IsFiniteSet(S)
      BY <3>2, FS_Subset
    <3>4. /\ Cardinality(RunningItems \union S)
               = Cardinality(RunningItems) + Cardinality(S)
                   - Cardinality(RunningItems \intersect S)
          /\ Cardinality(RunningItems \intersect S) = 0
      BY <2>3, <3>3, FS_Union, FS_EmptySet
    <3>5. /\ Cardinality(RunningItems) \in Nat /\ Cardinality(S) \in Nat
          /\ Cardinality(queue'.executing) \in Nat
      BY <3>1, <3>3, FS_CardinalityType
    <3>6. Cardinality(RunningItems) + Cardinality(S) <= MaxParallelPromises
      BY <3>1, <3>2, <3>4, <3>5, QueueAssumption
    <3>7. Pool!Start(S)
      BY <1>1, <1>2, <2>2, <2>5, <2>7, <3>6, TasksIn, SameCardinality DEF Pool!Start
    <3> QED
      BY <2>3, <3>7 DEF Pool!PoolNext
  <2> QED
    BY <2>6, <2>7
<1> QED
  BY <1>3, <1>4

\* LimitedParallelQueue implements TaskPool: every step of the queue is a step
\* of the queue or invisible to it.
THEOREM QueueImplementsTaskPool == ClientSpec => ImplementsTaskPool
<1>1. ClientInit => Pool!PoolInit
  BY DEF ClientInit, NewQueue, Pool!PoolInit, Tasking, TaskOf, Verdict
<1>2. ClientInv /\ ClientInv' /\ [ClientNext]_clientVars => [Pool!PoolNext]_(Pool!poolVars)
  <2> SUFFICES ASSUME ClientInv, ClientInv', [ClientNext]_clientVars
               PROVE  Pool!PoolNext \/ UNCHANGED Pool!poolVars
    OBVIOUS
  <2>0. ClientTypeOK /\ ClientTypeOK' /\ queue \in Queues(Items)
    BY DEF ClientInv, ClientTypeOK
  <2>1. ASSUME NEW i \in Items, PushItem(i) PROVE Pool!Submit(i)
    <3>1. queue'.waitAll = queue.waitAll
      BY <2>0, <2>1 DEF PushItem, Push, Queues
    <3>2. Tasking' = [Tasking EXCEPT ![i] = TaskOf(i)'] /\ Verdict' = Verdict
      BY <2>0, <2>1, <3>1, OneTaskChanges DEF PushItem
    <3>3. TaskOf(i) = "idle" /\ TaskOf(i)' = "submitted"
      BY <2>0, <2>1 DEF PushItem, TaskOf, ClientTypeOK
    <3>4. Verdict = "none"
      BY <2>0, <2>1, VerdictValues DEF PushItem
    <3> QED
      BY <3>2, <3>3, <3>4 DEF Pool!Submit, Tasking
  <2>2. ASSUME NEW i \in Items, ItemFulfils(i) \/ ItemRejects(i)
        PROVE  Pool!Finish(i)
    <3>1. queue'.waitAll = queue.waitAll
      BY <2>0, <2>2 DEF ItemFulfils, ItemRejects, OnFulfilled, OnRejected, Queues
    <3>2. \E state \in {"fulfilled", "rejected"} :
             item[i] = "running" /\ item' = [item EXCEPT ![i] = state]
      BY <2>2 DEF ItemFulfils, ItemRejects
    <3>3. Tasking' = [Tasking EXCEPT ![i] = TaskOf(i)'] /\ Verdict' = Verdict
      BY <2>0, <3>1, <3>2, OneTaskChanges
    <3>4. TaskOf(i) = "running" /\ TaskOf(i)' \in {"succeeded", "failed"}
      BY <2>0, <3>2 DEF TaskOf, ClientTypeOK
    <3> QED
      BY <3>3, <3>4 DEF Pool!Finish, Tasking
  <2>3. CASE CallWaitAll \/ Resume
    BY <2>3, TurnRefines DEF CallWaitAll, Resume
  <2>4. CASE RaceThrows
    <3>1. queue.broken # {} /\ queue.waitAll = "waiting"
      BY <2>4 DEF RaceThrows, ClientInv, WellFormed
    <3>2. Pool!In("failed") # {}
      BY <2>0, <3>1, TasksIn DEF ClientInv
    <3>3. queue'.waitAll = "rejected" /\ item' = item
      BY <2>0, <2>4 DEF RaceThrows, Throw, Queues
    <3>4. Verdict = "none" /\ Verdict' = "failure" /\ Tasking' = Tasking
      BY <3>1, <3>3 DEF Verdict, Tasking, TaskOf
    <3> QED
      BY <3>2, <3>4 DEF Pool!PoolNext, Pool!ReportFailure
  <2>5. CASE UNCHANGED clientVars
    BY <2>5 DEF clientVars, Pool!poolVars, Tasking, TaskOf, Verdict
  <2> QED
    BY <2>1, <2>2, <2>3, <2>4, <2>5 DEF ClientNext, Done, Pool!PoolNext
<1> QED
  BY <1>1, <1>2, AlwaysClientInv, PTL DEF ClientSpec, ImplementsTaskPool, Pool!PoolSpec

-------------------------------------------------------------------------------
(* Calls and their downloads.                                              *)

\* A download that still looks at the file has made no attempt, one that
\* transfers has an attempt left, and each attempt begins at the first chunk.
AttemptsInv(k) ==
    \A c \in Changesets :
        /\ step[k][c] \in {"queued", "exists", "size", "delete"} =>
              attempt[k][c] = 0 /\ position[k][c] = 0
        /\ step[k][c] \in {"link", "request", "stream"} => attempt[k][c] < MaxRetries
        /\ step[k][c] \in {"link", "request"} => position[k][c] = 0
        /\ phase[k] \in Live \union {"idle"} /\ step[k][c] = "none" =>
              attempt[k][c] = 0 /\ position[k][c] = 0

\* The queue of a list call holds the downloads that wait, run or failed.
QueueInv(k) ==
    /\ WellFormed(pool[k])
    /\ Queued(pool[k]) = {c \in Changesets : step[k][c] = "queued"}
    /\ pool[k].broken \subseteq {c \in Changesets : step[k][c] = "failed"}
    /\ Kind[k] = "list" /\ phase[k] # "scan" =>
          pool[k].executing \ pool[k].broken = {c \in Changesets : Running(k, c)}
    /\ Kind[k] = "list" /\ phase[k] = "download" =>
          {c \in Changesets : step[k][c] = "failed"} \subseteq pool[k].broken

\* What the phase of a call says about its downloads and its result.
PhaseInv(k) ==
    /\ cursor[k] <= lastIndex
    /\ phase[k] \in {"idle"} \union Scanning => result[k] = {} /\ pool[k] = NewQueue
    /\ phase[k] \in Scanning => Kind[k] = "list"
    /\ Kind[k] = "single" => pool[k] = NewQueue
    /\ phase[k] \in {"idle", "scanFetch"} => \A c \in Changesets : step[k][c] = "none"
    /\ phase[k] = "scan" =>
          /\ \A c \in Changesets : step[k][c] \in {"none", "exists", "size", "delete"}
          /\ \A c, d \in Changesets : Running(k, c) /\ Running(k, d) => c = d
    /\ phase[k] \in {"fetch", "fulfilled"} =>
          \A c \in Changesets : step[k][c] = IF c \in result[k] THEN "done" ELSE "none"
    /\ phase[k] = "fetch" =>
          result[k] \subseteq IF Kind[k] = "list" THEN 1..cursor[k] ELSE {}
    /\ phase[k] = "download" =>
          \A c \in Changesets : step[k][c] # "none" <=> c \in result[k]
    /\ phase[k] = "download" /\ Kind[k] = "list" => result[k] \subseteq 1..cursor[k]
    /\ phase[k] = "download" /\ Kind[k] = "single" =>
          /\ \A c \in result[k] : Running(k, c)
          /\ \A c, d \in result[k] : c = d
    /\ Kind[k] = "single" =>
          \A c \in Changesets : Running(k, c) => phase[k] = "download"

OneCallInv(k) == AttemptsInv(k) /\ QueueInv(k) /\ PhaseInv(k)

CallInv == TypeOK /\ \A k \in Calls : OneCallInv(k)
-------------------------------------------------------------------------------
(* Steps change one call and leave the others as they are.                 *)

Untouched(j) == /\ phase'[j] = phase[j]
                /\ cursor'[j] = cursor[j]
                /\ result'[j] = result[j]
                /\ pool'[j] = pool[j]
                /\ step'[j] = step[j]
                /\ attempt'[j] = attempt[j]
                /\ position'[j] = position[j]
                /\ lastIndex' \in {lastIndex, lastIndex + 1}

LEMMA UntouchedCall ==
    ASSUME TypeOK, NEW j \in Calls, OneCallInv(j), Untouched(j)
    PROVE  OneCallInv(j)'
<1>1. AttemptsInv(j)'
  BY DEF OneCallInv, AttemptsInv, Untouched
<1>2. QueueInv(j)'
  BY DEF OneCallInv, QueueInv, Untouched, Running
<1>3. PhaseInv(j)'
  <2>1. lastIndex \in Int /\ cursor[j] \in Int
    BY DownloadAssumption DEF TypeOK
  <2>2. (cursor[j] <= lastIndex)'
    BY <2>1 DEF OneCallInv, PhaseInv, Untouched
  <2> QED
    BY <2>2 DEF OneCallInv, PhaseInv, Untouched, Running
<1> QED
  BY <1>1, <1>2, <1>3 DEF OneCallInv

LEMMA OneCallChanges ==
    ASSUME CallInv, NEW k \in Calls, TypeOK', OneCallInv(k)',
           \A j \in Calls : j # k => Untouched(j)
    PROVE  CallInv'
BY UntouchedCall DEF CallInv

StepNames == Waiting \union {"none", "queued", "done", "failed"}

LEMMA StepChange ==
    ASSUME TypeOK, NEW k \in Calls, NEW c, NEW v \in StepNames,
           step' = [step EXCEPT ![k][c] = v]
    PROVE  /\ step' \in [Calls -> [Changesets -> StepNames]]
           /\ \A d \in Changesets : step'[k][d] = IF d = c THEN v ELSE step[k][d]
           /\ \A j \in Calls : j # k => step'[j] = step[j]
<1>1. step \in [Calls -> [Changesets -> StepNames]]
  BY DEF TypeOK, StepNames
<1>2. [step[k] EXCEPT ![c] = v] \in [Changesets -> StepNames]
  BY <1>1
<1>3. step' = [step EXCEPT ![k] = [step[k] EXCEPT ![c] = v]]
  BY <1>1
<1> QED
  BY <1>1, <1>2, <1>3

LEMMA Kinds == \A k \in Calls : Kind[k] \in {"single", "list"}
BY DownloadAssumption DEF Calls

LEMMA PageEnds ==
    ASSUME TypeOK, NEW k \in Calls
    PROVE  PageEnd(k) \in 0..MaxIndex /\ PageEnd(k) <= lastIndex
BY DownloadAssumption DEF TypeOK, PageEnd
-------------------------------------------------------------------------------
(* The steps of the call itself.                                           *)

\* The part of TypeOK that is about chunks on their way.
UnwrittenTypes ==
    /\ unwritten \in [Calls -> [Changesets -> [Attempts -> SUBSET Nat]]]
    /\ \A k \in Calls, c \in Changesets, i \in Attempts :
          unwritten[k][c][i] \subseteq 1..FileSize[c]

LEMMA InitCallInv == Init => CallInv
<1> SUFFICES ASSUME Init PROVE CallInv
  OBVIOUS
<1>1. /\ NewQueue \in Queues(Changesets) /\ WellFormed(NewQueue) /\ Queued(NewQueue) = {}
      /\ NewQueue.executing = {} /\ NewQueue.broken = {}
  BY NewQueueWellFormed DEF NewQueue
<1>2. TypeOK
  <2>1. /\ chunks \in [Changesets -> SUBSET Nat]
        /\ \A c \in Changesets : chunks[c] \subseteq 1..FileSize[c]
    <3>1. PICK left \in [Changesets -> UNION {0..FileSize[c] : c \in Changesets}] :
              /\ chunks = [c \in Changesets |-> 1..left[c]]
              /\ \A c \in Changesets :
                    left[c] <= IF present[c] THEN FileSize[c] ELSE 0
      BY DEF Init
    <3>2. ASSUME NEW c \in Changesets
          PROVE  left[c] \in Nat /\ FileSize[c] \in Nat /\ left[c] <= FileSize[c]
      BY <3>1, DownloadAssumption
    <3> QED
      BY <3>1, <3>2
  <2>2. lastIndex \in InitialIndex..MaxIndex /\ pool \in [Calls -> Queues(Changesets)]
    BY <1>1, DownloadAssumption DEF Init
  <2>3. attempt \in [Calls -> [Changesets -> 0..MaxRetries]]
    BY DownloadAssumption DEF Init
  <2>4. report \in [Calls -> Nat \X Nat]
    BY DEF Init
  <2>5. /\ phase \in [Calls -> {"idle"} \union Live \union SettledPhases]
        /\ step \in [Calls -> [Changesets ->
                        Waiting \union {"none", "queued", "done", "failed"}]]
        /\ cursor \in [Calls -> 0..MaxIndex]
    BY DownloadAssumption DEF Init
  <2>6. /\ present \in [Changesets -> BOOLEAN] /\ overlap \in BOOLEAN /\ late \in BOOLEAN
        /\ more \in [Calls -> BOOLEAN] /\ aborted \in [Calls -> BOOLEAN]
        /\ result \in [Calls -> SUBSET Changesets]
        /\ downloaded \in [Calls -> Nat] /\ total \in [Calls -> Nat]
        /\ position \in [Calls -> [Changesets -> Nat]]
        /\ linked \in [Calls -> [Changesets -> BOOLEAN]]
    BY DEF Init
  <2>7. UnwrittenTypes
    BY DEF Init, NothingUnwritten, UnwrittenTypes
  <2> QED
    BY <2>1, <2>2, <2>3, <2>4, <2>5, <2>6, <2>7 DEF TypeOK, UnwrittenTypes
<1>3. ASSUME NEW k \in Calls
      PROVE  OneCallInv(k)
  <2>1. AttemptsInv(k)
    BY DEF Init, AttemptsInv
  <2>2. QueueInv(k)
    BY <1>1 DEF Init, QueueInv, Running, Waiting
  <2>3. PhaseInv(k)
    BY DownloadAssumption DEF Init, PhaseInv, Running, Waiting, Scanning
  <2> QED
    BY <2>1, <2>2, <2>3 DEF OneCallInv
<1> QED
  BY <1>2, <1>3 DEF CallInv

LEMMA BeginCall == ASSUME CallInv, NEW k \in Calls, Begin(k) PROVE CallInv'
<1>1. TypeOK'
  BY Kinds DEF CallInv, TypeOK, Begin, Live, Scanning, fileVars, listVars, progressVars, streamVars
<1>2. OneCallInv(k)
  BY DEF CallInv
<1>3. /\ phase'[k] \in {"scanFetch", "fetch"}
      /\ phase'[k] = "scanFetch" => Kind[k] = "list"
      /\ phase[k] = "idle"
      /\ UNCHANGED <<lastIndex, cursor, result, pool, step, attempt, position>>
  BY DEF CallInv, TypeOK, Begin, worldVars, listVars, streamVars
<1>4. AttemptsInv(k)'
  BY <1>2, <1>3 DEF OneCallInv, AttemptsInv, Live, Scanning
<1>5. QueueInv(k)'
  BY <1>2, <1>3 DEF OneCallInv, QueueInv, Running
<1>6. PhaseInv(k)'
  BY <1>2, <1>3 DEF OneCallInv, PhaseInv, Running, Waiting, Scanning
<1>7. \A j \in Calls : j # k => Untouched(j)
  BY DEF CallInv, TypeOK, Begin, Untouched, worldVars, listVars, streamVars
<1> QED
  BY <1>1, <1>4, <1>5, <1>6, <1>7, OneCallChanges DEF OneCallInv

LEMMA FetchMinimalPageCall ==
    ASSUME CallInv, NEW k \in Calls, FetchMinimalPage(k) PROVE CallInv'
<1>1. /\ PageEnd(k) \in 0..MaxIndex /\ cursor[k] \in 0..MaxIndex
      /\ OneCallInv(k) /\ TypeOK /\ Kind[k] = "list"
  BY PageEnds DEF CallInv, OneCallInv, PhaseInv, TypeOK, FetchMinimalPage, Scanning
<1>a. /\ phase[k] = "scanFetch"
      /\ \/ /\ phase' = [phase EXCEPT ![k] = "fetch"]
            /\ cursor' = [cursor EXCEPT ![k] = 0]
            /\ more' = more /\ step' = step
         \/ /\ phase' = [phase EXCEPT ![k] = "scan"]
            /\ cursor' = [cursor EXCEPT ![k] = PageEnd(k)]
            /\ more' = [more EXCEPT ![k] = PageEnd(k) < lastIndex]
            /\ step' = [step EXCEPT ![k][cursor[k] + 1] = "exists"]
      /\ UNCHANGED <<lastIndex, overlap, late, present, chunks, unwritten, result, pool,
                     aborted,
                     downloaded, total, report, attempt, position, linked>>
  BY DEF FetchMinimalPage, worldVars, fileVars, progressVars, streamVars
<1>b. \/ phase' = [phase EXCEPT ![k] = "fetch"] /\ step' = step
      \/ /\ phase' = [phase EXCEPT ![k] = "scan"]
         /\ step' \in [Calls -> [Changesets -> StepNames]]
         /\ \A d \in Changesets : step'[k][d] = IF d = cursor[k] + 1 THEN "exists"
                                                                   ELSE step[k][d]
         /\ \A j \in Calls : j # k => step'[j] = step[j]
  BY <1>1, <1>a, StepChange DEF StepNames, Waiting
<1>2. TypeOK'
  <2>1. step' \in [Calls -> [Changesets -> StepNames]]
    BY <1>1, <1>b DEF TypeOK, StepNames
  <2>2. phase' \in [Calls -> {"idle"} \union Live \union SettledPhases]
    BY <1>1, <1>a DEF TypeOK, Live, Scanning
  <2>3. cursor' \in [Calls -> 0..MaxIndex]
    <3>1. 0 \in 0..MaxIndex
      BY DownloadAssumption
    <3> QED
      BY <1>1, <1>a, <3>1 DEF TypeOK
  <2>4. more' \in [Calls -> BOOLEAN]
    <3>1. (PageEnd(k) < lastIndex) \in BOOLEAN
      OBVIOUS
    <3> QED
      BY <1>1, <1>a, <3>1, Zenon DEF TypeOK
  <2> QED
    BY <1>1, <1>a, <2>1, <2>2, <2>3, <2>4 DEF TypeOK, StepNames
<1>3. /\ phase[k] = "scanFetch" /\ result[k] = {} /\ pool[k] = NewQueue
      /\ \A c \in Changesets : step[k][c] = "none" /\ attempt[k][c] = 0 /\ position[k][c] = 0
  BY <1>1 DEF OneCallInv, PhaseInv, AttemptsInv, FetchMinimalPage, Scanning, Live
<1>4. /\ UNCHANGED <<result, pool, attempt, position>>
      /\ \/ phase'[k] = "fetch" /\ step' = step
         \/ phase'[k] = "scan"
  BY <1>1, <1>a DEF TypeOK
<1>5. \A c \in Changesets : \/ step'[k][c] = "none"
                            \/ /\ step'[k][c] = "exists" /\ c = cursor[k] + 1
                               /\ phase'[k] = "scan"
  BY <1>1, <1>3, <1>b DEF TypeOK
<1>6. AttemptsInv(k)'
  BY <1>3, <1>4, <1>5 DEF AttemptsInv
<1>7. QueueInv(k)'
  <2>1. /\ WellFormed(pool'[k]) /\ pool'[k] = NewQueue
        /\ NewQueue.executing = {} /\ NewQueue.broken = {} /\ Queued(pool'[k]) = {}
    BY <1>3, <1>4, NewQueueWellFormed DEF NewQueue
  <2> QED
    BY <1>1, <1>4, <1>5, <2>1 DEF QueueInv, Running, Waiting
<1>8. PhaseInv(k)'
  <2>1. cursor'[k] <= lastIndex'
    <3>1. PageEnd(k) <= lastIndex /\ 0 <= lastIndex
      <4>1. lastIndex \in InitialIndex..MaxIndex /\ InitialIndex \in Nat
        BY <1>1, DownloadAssumption DEF TypeOK
      <4>2. PageEnd(k) <= lastIndex
        BY <1>1, PageEnds
      <4> QED
        BY <4>1, <4>2
    <3>2. cursor'[k] \in {0, PageEnd(k)} /\ lastIndex' = lastIndex
      BY <1>1, <1>a DEF TypeOK
    <3> QED
      BY <3>1, <3>2
  <2> QED
    BY <1>1, <1>3, <1>4, <1>5, <2>1 DEF PhaseInv, Running, Waiting, Scanning
<1>9. \A j \in Calls : j # k => Untouched(j)
  BY <1>1, <1>a, <1>b DEF TypeOK, Untouched
<1> QED
  BY <1>2, <1>6, <1>7, <1>8, <1>9, OneCallChanges DEF OneCallInv

\* A page that is put into a new queue is in it once.
LEMMA PageQueue ==
    ASSUME NEW S \in SUBSET Changesets, NEW q \in BySize(S),
           NEW p, p = [NewQueue EXCEPT !.queue = q]
    PROVE  /\ p \in Queues(Changesets) /\ WellFormed(p) /\ Queued(p) = S
           /\ p.executing = {} /\ p.broken = {} /\ p.waitAll = "notCalled"
<1> DEFINE n == Cardinality(S)
<1>1. n \in Nat
  <2>1. IsFiniteSet(Changesets)
    <3>1. 1 \in Int /\ MaxIndex \in Int
      BY DownloadAssumption
    <3> QED
      BY <3>1, FS_Interval DEF Changesets
  <2> QED
    BY <2>1, FS_Subset, FS_CardinalityType
<1>2. /\ q \in [1..n -> S]
      /\ \A c \in S : \E j \in 1..n : q[j] = c
      /\ \A i, j \in 1..n : i < j => q[i] # q[j]
  <2>1. \A c \in S : FileSize[c] \in Nat /\ c \in Nat
    BY DownloadAssumption DEF Changesets
  <2>2. /\ q \in [1..n -> S]
        /\ \A c \in S : \E j \in 1..n : q[j] = c
        /\ \A i, j \in 1..n : i < j => \/ FileSize[q[i]] < FileSize[q[j]]
                                      \/ q[i] < q[j]
    BY DEF BySize
  <2> QED
    BY <2>1, <2>2
<1> HIDE DEF n
<1>3. q \in Seq(S) /\ Len(q) = n
  BY <1>1, <1>2
<1>4. q \in Seq(Changesets)
  BY <1>3
<1>5. /\ p.queue = q /\ p.executing = {} /\ p.broken = {}
      /\ p.race = "none" /\ p.waitAll = "notCalled"
      /\ p \in Queues(Changesets)
  BY <1>4 DEF NewQueue, Queues
<1>6. NoDuplicates(p)
  <2>1. ASSUME NEW i \in 1..n, NEW j \in 1..n, q[i] = q[j]
        PROVE  i = j
    BY <1>1, <1>2, <2>1
  <2> QED
    BY <1>3, <1>5, <2>1 DEF NoDuplicates
<1>7. WellFormed(p)
  <2>1. IsFiniteSet(p.executing) /\ Cardinality(p.executing) = 0
    BY <1>5, FS_EmptySet
  <2> QED
    BY <1>5, <1>6, <2>1, QueueAssumption DEF WellFormed
<1>8. Queued(p) = S
  BY <1>2, <1>3, <1>5 DEF Queued
<1> QED
  BY <1>5, <1>7, <1>8

\* A turn of the queue starts downloads that were queued, and keeps queue and
\* steps in agreement.
LEMMA TurnAgrees ==
    ASSUME TypeOK, NEW k \in Calls, NEW q \in Queues(Changesets), WellFormed(q),
           q.waitAll \in {"notCalled", "waiting"},
           NEW steps \in [Changesets -> StepNames],
           TurnQueue(k, q, steps),
           Queued(q) = {c \in Changesets : steps[c] = "queued"},
           q.broken = {c \in Changesets : steps[c] = "failed"},
           q.executing \ q.broken = {c \in Changesets : steps[c] \in Waiting}
    PROVE  /\ pool' \in [Calls -> Queues(Changesets)]
           /\ step' \in [Calls -> [Changesets -> StepNames]]
           /\ WellFormed(pool'[k])
           /\ Queued(pool'[k]) = {c \in Changesets : step'[k][c] = "queued"}
           /\ pool'[k].broken = {c \in Changesets : step'[k][c] = "failed"}
           /\ pool'[k].executing \ pool'[k].broken
                = {c \in Changesets : step'[k][c] \in Waiting}
           /\ \A c \in Changesets :
                 \/ step'[k][c] = steps[c]
                 \/ steps[c] = "queued" /\ step'[k][c] = "exists"
           /\ \A j \in Calls : j # k => pool'[j] = pool[j] /\ step'[j] = step[j]
<1>1. /\ pool' = [pool EXCEPT ![k] = Loop(q)]
      /\ step' = [step EXCEPT ![k] =
                    [c \in Changesets |-> IF c \in Started(q) THEN "exists" ELSE steps[c]]]
  BY DEF TurnQueue
<1>2. /\ Loop(q) \in Queues(Changesets) /\ WellFormed(Loop(q))
      /\ Started(q) \subseteq Queued(q)
      /\ Queued(Loop(q)) = Queued(q) \ Started(q)
      /\ Loop(q).executing = q.executing \union Started(q)
      /\ Loop(q).broken = q.broken
  BY LoopMovesItems, LoopWellFormed
<1>3. pool'[k] = Loop(q) /\ pool' \in [Calls -> Queues(Changesets)]
  BY <1>1, <1>2 DEF TypeOK
<1>4. \A c \in Changesets :
         step'[k][c] = IF c \in Started(q) THEN "exists" ELSE steps[c]
  BY <1>1 DEF TypeOK
<1>5. step' \in [Calls -> [Changesets -> StepNames]]
  BY <1>1 DEF TypeOK, StepNames, Waiting
<1>6. \A c \in Changesets : c \in Started(q) => steps[c] = "queued"
  BY <1>2
<1>7. Queued(pool'[k]) = {c \in Changesets : step'[k][c] = "queued"}
  BY <1>2, <1>3, <1>4
<1>8. pool'[k].broken = {c \in Changesets : step'[k][c] = "failed"}
  BY <1>2, <1>3, <1>4, <1>6
<1>9. pool'[k].executing \ pool'[k].broken = {c \in Changesets : step'[k][c] \in Waiting}
  <2>1. Started(q) \subseteq Changesets /\ \A c \in Started(q) : c \notin q.broken
    BY <1>2
  <2>2. \A c : c \in Loop(q).executing \ q.broken <=>
                 c \in Changesets /\ (steps[c] \in Waiting \/ c \in Started(q))
    BY <1>2, <2>1
  <2>3. \A c \in Changesets : step'[k][c] \in Waiting <=> (steps[c] \in Waiting \/ c \in Started(q))
    BY <1>4, <1>6 DEF Waiting
  <2> QED
    BY <1>2, <1>3, <2>2, <2>3
<1>10. \A c \in Changesets : \/ step'[k][c] = steps[c]
                             \/ steps[c] = "queued" /\ step'[k][c] = "exists"
  BY <1>4, <1>6
<1>11. \A j \in Calls : j # k => pool'[j] = pool[j] /\ step'[j] = step[j]
  BY <1>1 DEF TypeOK
<1> QED
  BY <1>2, <1>3, <1>5, <1>7, <1>8, <1>9, <1>10, <1>11
LEMMA FetchPageCall ==
    ASSUME CallInv, NEW k \in Calls, FetchPage(k) PROVE CallInv'
<1> DEFINE page == (cursor[k] + 1)..PageEnd(k)
           steps == [c \in Changesets |-> IF c \in page THEN "queued" ELSE step[k][c]]
<1>1. /\ TypeOK /\ OneCallInv(k) /\ PageEnd(k) \in 0..MaxIndex
      /\ cursor[k] \in 0..MaxIndex /\ phase[k] = "fetch" /\ Kind[k] = "list"
  BY PageEnds DEF CallInv, TypeOK, FetchPage
<1>2. PICK q \in BySize(page) :
          TurnQueue(k, [NewQueue EXCEPT !.queue = q], steps)
  BY DEF FetchPage
<1>3. /\ phase' = [phase EXCEPT ![k] = "download"]
      /\ cursor' = [cursor EXCEPT ![k] = PageEnd(k)]
      /\ more' = [more EXCEPT ![k] = PageEnd(k) < lastIndex]
      /\ result' = [result EXCEPT ![k] = @ \union page]
      /\ UNCHANGED <<lastIndex, overlap, late, present, chunks, unwritten, aborted, downloaded,
                     total,
                     report, attempt, position, linked>>
  BY DEF FetchPage, worldVars, fileVars, progressVars, streamVars
<1>4. page \in SUBSET Changesets /\ result[k] \in SUBSET Changesets
  <2>1. \A c \in page : c \in 1..MaxIndex
    BY <1>1, DownloadAssumption
  <2> QED
    BY <1>1, <2>1 DEF TypeOK, Changesets
<1>5. /\ result[k] \subseteq 1..cursor[k]
      /\ \A c \in Changesets : step[k][c] = IF c \in result[k] THEN "done" ELSE "none"
      /\ \A c \in Changesets : c \notin result[k] => attempt[k][c] = 0 /\ position[k][c] = 0
  BY <1>1 DEF OneCallInv, PhaseInv, AttemptsInv, Live
<1>6. page \intersect result[k] = {}
  BY <1>1, <1>5
<1>7. /\ steps \in [Changesets -> StepNames]
      /\ \A c \in Changesets :
            /\ c \in page => steps[c] = "queued"
            /\ c \in result[k] => steps[c] = "done"
            /\ c \notin page /\ c \notin result[k] => steps[c] = "none"
  BY <1>5, <1>6 DEF StepNames
<1> HIDE DEF steps, page
<1> DEFINE p == [NewQueue EXCEPT !.queue = q]
<1>8. /\ p \in Queues(Changesets) /\ WellFormed(p) /\ Queued(p) = page
      /\ p.executing = {} /\ p.broken = {} /\ p.waitAll = "notCalled"
  BY <1>2, <1>4, PageQueue
<1>9. TurnQueue(k, p, steps)
  BY <1>2
<1> HIDE DEF p
<1>10. \A c \in Changesets : /\ steps[c] = "queued" <=> c \in page
                             /\ steps[c] # "failed" /\ steps[c] \notin Waiting
  BY <1>7 DEF Waiting
<1>11. /\ pool' \in [Calls -> Queues(Changesets)]
       /\ step' \in [Calls -> [Changesets -> StepNames]]
       /\ WellFormed(pool'[k])
       /\ Queued(pool'[k]) = {c \in Changesets : step'[k][c] = "queued"}
       /\ pool'[k].broken = {c \in Changesets : step'[k][c] = "failed"}
       /\ pool'[k].executing \ pool'[k].broken
            = {c \in Changesets : step'[k][c] \in Waiting}
       /\ \A c \in Changesets : \/ step'[k][c] = steps[c]
                                \/ steps[c] = "queued" /\ step'[k][c] = "exists"
       /\ \A j \in Calls : j # k => pool'[j] = pool[j] /\ step'[j] = step[j]
  <2>1. /\ Queued(p) = {c \in Changesets : steps[c] = "queued"}
        /\ p.broken = {c \in Changesets : steps[c] = "failed"}
        /\ p.executing \ p.broken = {c \in Changesets : steps[c] \in Waiting}
    BY <1>4, <1>8, <1>10
  <2> QED
    BY <1>1, <1>7, <1>8, <1>9, <2>1, TurnAgrees
<1>12. TypeOK'
  <2>1. more' \in [Calls -> BOOLEAN]
    <3>1. (PageEnd(k) < lastIndex) \in BOOLEAN
      OBVIOUS
    <3> QED
      BY <1>1, <1>3, <3>1, Zenon DEF TypeOK
  <2>2. /\ cursor' \in [Calls -> 0..MaxIndex] /\ result' \in [Calls -> SUBSET Changesets]
        /\ phase' \in [Calls -> {"idle"} \union Live \union SettledPhases]
    BY <1>1, <1>3, <1>4 DEF TypeOK, Live
  <2> QED
    BY <1>1, <1>3, <1>11, <2>1, <2>2 DEF TypeOK, StepNames
<1>13. /\ phase'[k] = "download" /\ cursor'[k] = PageEnd(k)
       /\ result'[k] = result[k] \union page
       /\ attempt'[k] = attempt[k] /\ position'[k] = position[k]
  BY <1>1, <1>3 DEF TypeOK
<1>14. \A c \in Changesets :
          \/ c \in page /\ step'[k][c] \in {"queued", "exists"}
          \/ c \in result[k] /\ step'[k][c] = "done"
          \/ c \notin page /\ c \notin result[k] /\ step'[k][c] = "none"
  BY <1>7, <1>11
<1>15. AttemptsInv(k)'
  BY <1>5, <1>6, <1>13, <1>14 DEF AttemptsInv
<1>16. QueueInv(k)'
  BY <1>11 DEF QueueInv, Running
<1>17. PhaseInv(k)'
  <2>1. cursor[k] <= PageEnd(k) /\ PageEnd(k) <= lastIndex
    BY <1>1, DownloadAssumption DEF TypeOK, OneCallInv, PhaseInv, PageEnd
  <2>2. result'[k] \subseteq 1..cursor'[k]
    BY <1>1, <1>5, <1>13, <2>1 DEF page
  <2> QED
    BY <1>1, <1>3, <1>13, <1>14, <2>1, <2>2 DEF PhaseInv, Scanning
<1>18. \A j \in Calls : j # k => Untouched(j)
  BY <1>1, <1>3, <1>11 DEF TypeOK, Untouched
<1> QED
  BY <1>12, <1>15, <1>16, <1>17, <1>18, OneCallChanges DEF OneCallInv

LEMMA QuerySingleCall ==
    ASSUME CallInv, NEW k \in Calls, QuerySingle(k) PROVE CallInv'
<1>1. /\ TypeOK /\ OneCallInv(k) /\ phase[k] = "fetch" /\ Kind[k] = "single"
  BY DEF CallInv, QuerySingle
<1>2. PICK c \in 1..lastIndex : /\ result' = [result EXCEPT ![k] = {c}]
                                /\ step' = [step EXCEPT ![k][c] = "exists"]
  BY DEF QuerySingle
<1>3. c \in Changesets
  BY DownloadAssumption DEF CallInv, TypeOK, Changesets
<1>4. /\ phase' = [phase EXCEPT ![k] = "download"]
      /\ UNCHANGED <<lastIndex, overlap, late, present, chunks, unwritten, cursor, more, pool,
                     aborted,
                     downloaded, total, report, attempt, position, linked>>
  BY DEF QuerySingle, worldVars, fileVars, progressVars, streamVars
<1>5. \A d \in Changesets : step[k][d] = "none" /\ attempt[k][d] = 0 /\ position[k][d] = 0
  BY <1>1 DEF OneCallInv, PhaseInv, AttemptsInv, Live
<1>6. /\ step' \in [Calls -> [Changesets -> StepNames]]
      /\ \A d \in Changesets : step'[k][d] = IF d = c THEN "exists" ELSE "none"
      /\ \A j \in Calls : j # k => step'[j] = step[j]
  BY <1>1, <1>2, <1>5, StepChange DEF StepNames, Waiting
<1>7. TypeOK'
  <2>1. /\ result' \in [Calls -> SUBSET Changesets]
        /\ phase' \in [Calls -> {"idle"} \union Live \union SettledPhases]
    BY <1>1, <1>2, <1>3, <1>4 DEF TypeOK, Live
  <2> QED
    BY <1>1, <1>4, <1>6, <2>1 DEF TypeOK, StepNames
<1>8. /\ phase'[k] = "download" /\ result'[k] = {c}
      /\ pool'[k] = pool[k] /\ attempt'[k] = attempt[k] /\ position'[k] = position[k]
  BY <1>1, <1>2, <1>4 DEF TypeOK
<1>9. AttemptsInv(k)'
  BY <1>5, <1>6, <1>8 DEF AttemptsInv
<1>10. QueueInv(k)'
  <2>1. /\ WellFormed(pool[k]) /\ Queued(pool[k]) = {} /\ pool[k].broken = {}
    BY <1>1, <1>5 DEF OneCallInv, QueueInv
  <2> QED
    BY <1>1, <1>6, <1>8, <2>1 DEF QueueInv, Running
<1>11. PhaseInv(k)'
  BY <1>1, <1>3, <1>4, <1>6, <1>8 DEF OneCallInv, PhaseInv, Running, Waiting, Scanning
<1>12. \A j \in Calls : j # k => Untouched(j)
  BY <1>1, <1>2, <1>4, <1>6 DEF TypeOK, Untouched
<1> QED
  BY <1>7, <1>9, <1>10, <1>11, <1>12, OneCallChanges DEF OneCallInv

LEMMA FetchFailsCall ==
    ASSUME CallInv, NEW k \in Calls, FetchFails(k) PROVE CallInv'
<1>1. /\ TypeOK /\ OneCallInv(k) /\ phase[k] \in {"scanFetch", "fetch"}
      /\ phase' = [phase EXCEPT ![k] = "rejected"]
      /\ UNCHANGED <<lastIndex, overlap, late, present, chunks, unwritten, cursor, more,
                     result, pool,
                     aborted, downloaded, total, report, step, attempt, position, linked>>
  BY DEF CallInv, FetchFails, worldVars, fileVars, listVars, progressVars, streamVars
<1>2. TypeOK'
  BY <1>1 DEF TypeOK, SettledPhases
<1>3. \A c \in Changesets : step[k][c] \in {"none", "done"}
  BY <1>1 DEF OneCallInv, PhaseInv
<1>4. phase'[k] = "rejected"
  BY <1>1 DEF TypeOK
<1>5. AttemptsInv(k)'
  BY <1>1, <1>3, <1>4 DEF OneCallInv, AttemptsInv, Live, Scanning
<1>6. QueueInv(k)'
  BY <1>1, <1>4 DEF OneCallInv, QueueInv, Running
<1>7. PhaseInv(k)'
  BY <1>1, <1>3, <1>4 DEF OneCallInv, PhaseInv, Running, Waiting, Scanning
<1>8. \A j \in Calls : j # k => Untouched(j)
  BY <1>1 DEF TypeOK, Untouched
<1> QED
  BY <1>2, <1>5, <1>6, <1>7, <1>8, OneCallChanges DEF OneCallInv

LEMMA ResumeCall ==
    ASSUME CallInv, NEW k \in Calls, ResumeWaitAll(k) PROVE CallInv'
<1>1. /\ TypeOK /\ OneCallInv(k) /\ phase[k] = "download"
      /\ pool[k].waitAll = "waiting"
      /\ TurnQueue(k, pool[k], step[k])
      /\ UNCHANGED <<lastIndex, overlap, late, present, chunks, unwritten, phase, cursor, more,
                     result,
                     aborted, downloaded, total, report, attempt, position, linked>>
  BY DEF CallInv, ResumeWaitAll, worldVars, fileVars, listVars, progressVars, streamVars
<1>2. Kind[k] = "list"
  <2>1. CASE Kind[k] = "single"
    <3>1. pool[k].waitAll # "waiting"
      BY <1>1, <2>1 DEF OneCallInv, PhaseInv, NewQueue
    <3> QED
      BY <1>1, <3>1
  <2> QED
    BY <2>1, Kinds
<1>3. /\ pool[k] \in Queues(Changesets) /\ WellFormed(pool[k])
      /\ step[k] \in [Changesets -> StepNames]
      /\ Queued(pool[k]) = {c \in Changesets : step[k][c] = "queued"}
      /\ pool[k].broken = {c \in Changesets : step[k][c] = "failed"}
      /\ pool[k].executing \ pool[k].broken = {c \in Changesets : step[k][c] \in Waiting}
  BY <1>1, <1>2 DEF TypeOK, OneCallInv, QueueInv, StepNames, Running
<1>4. /\ pool' \in [Calls -> Queues(Changesets)]
      /\ step' \in [Calls -> [Changesets -> StepNames]]
      /\ WellFormed(pool'[k])
      /\ Queued(pool'[k]) = {c \in Changesets : step'[k][c] = "queued"}
      /\ pool'[k].broken = {c \in Changesets : step'[k][c] = "failed"}
      /\ pool'[k].executing \ pool'[k].broken
           = {c \in Changesets : step'[k][c] \in Waiting}
      /\ \A c \in Changesets : \/ step'[k][c] = step[k][c]
                               \/ step[k][c] = "queued" /\ step'[k][c] = "exists"
      /\ \A j \in Calls : j # k => pool'[j] = pool[j] /\ step'[j] = step[j]
  BY <1>1, <1>3, TurnAgrees
<1>5. TypeOK'
  BY <1>1, <1>4 DEF TypeOK, StepNames
<1>6. AttemptsInv(k)'
  BY <1>1, <1>4 DEF OneCallInv, AttemptsInv
<1>7. QueueInv(k)'
  BY <1>4 DEF QueueInv, Running
<1>8. PhaseInv(k)'
  BY <1>1, <1>2, <1>4 DEF OneCallInv, PhaseInv, Scanning
<1>9. \A j \in Calls : j # k => Untouched(j)
  BY <1>1, <1>4 DEF Untouched
<1> QED
  BY <1>5, <1>6, <1>7, <1>8, <1>9, OneCallChanges DEF OneCallInv

LEMMA WaitAllThrowsCall ==
    ASSUME CallInv, NEW k \in Calls, WaitAllThrows(k) PROVE CallInv'
<1>1. /\ TypeOK /\ OneCallInv(k) /\ phase[k] = "download"
      /\ pool[k].waitAll = "waiting" /\ pool[k].race = "rejected"
      /\ pool' = [pool EXCEPT ![k] = Throw(pool[k])]
      /\ phase' = [phase EXCEPT ![k] = "rejected"]
      /\ UNCHANGED <<lastIndex, overlap, late, present, chunks, unwritten, cursor, more,
                     result, aborted,
                     downloaded, total, report, step, attempt, position, linked>>
  BY DEF CallInv, WaitAllThrows, TypeOK, worldVars, fileVars, listVars, progressVars,
         streamVars
<1>2. /\ pool[k] \in Queues(Changesets) /\ WellFormed(pool[k])
  BY <1>1 DEF TypeOK, OneCallInv, QueueInv
<1>3. /\ Throw(pool[k]) \in Queues(Changesets) /\ WellFormed(Throw(pool[k]))
      /\ Throw(pool[k]).queue = pool[k].queue
      /\ Throw(pool[k]).executing = pool[k].executing
      /\ Throw(pool[k]).broken = pool[k].broken
  BY <1>1, <1>2, ThrowWellFormed
<1>4. pool'[k] = Throw(pool[k]) /\ phase'[k] = "rejected"
  BY <1>1 DEF TypeOK
<1>5. Queued(pool'[k]) = Queued(pool[k])
  BY <1>3, <1>4 DEF Queued
<1>6. TypeOK'
  BY <1>1, <1>3 DEF TypeOK, SettledPhases
<1>7. AttemptsInv(k)'
  BY <1>1, <1>4 DEF OneCallInv, AttemptsInv, Live, Scanning
<1>8. QueueInv(k)'
  BY <1>1, <1>3, <1>4, <1>5 DEF OneCallInv, QueueInv, Running
<1>9. Kind[k] = "list"
  <2>1. CASE Kind[k] = "single"
    BY <1>1, <2>1 DEF OneCallInv, PhaseInv, NewQueue
  <2> QED
    BY <2>1, Kinds
<1>10. PhaseInv(k)'
  BY <1>1, <1>4, <1>9 DEF OneCallInv, PhaseInv, Scanning
<1>11. \A j \in Calls : j # k => Untouched(j)
  BY <1>1 DEF TypeOK, Untouched
<1> QED
  BY <1>6, <1>7, <1>8, <1>10, <1>11, OneCallChanges DEF OneCallInv

LEMMA PageDoneCall ==
    ASSUME CallInv, NEW k \in Calls, PageDone(k) PROVE CallInv'
<1>1. /\ TypeOK /\ OneCallInv(k) /\ phase[k] = "download"
      /\ pool[k].waitAll = "fulfilled"
      /\ phase' = [phase EXCEPT ![k] = IF more[k] THEN "fetch" ELSE "fulfilled"]
      /\ UNCHANGED <<lastIndex, overlap, late, present, chunks, unwritten, cursor, more,
                     result, pool,
                     aborted, downloaded, total, report, step, attempt, position, linked>>
  BY DEF CallInv, PageDone, worldVars, fileVars, listVars, progressVars, streamVars
<1>2. Kind[k] = "list"
  <2>1. CASE Kind[k] = "single"
    BY <1>1, <2>1 DEF OneCallInv, PhaseInv, NewQueue
  <2> QED
    BY <2>1, Kinds
<1>3. pool[k].queue = <<>> /\ pool[k].executing = {} /\ pool[k].broken = {}
  BY <1>1 DEF OneCallInv, QueueInv, WellFormed
<1>4. Queued(pool[k]) = {}
  BY <1>3 DEF Queued
<1>5. \A c \in Changesets : step[k][c] \in {"none", "done"}
  BY <1>1, <1>2, <1>3, <1>4 DEF TypeOK, OneCallInv, QueueInv, Running
<1>6. phase'[k] \in {"fetch", "fulfilled"}
  BY <1>1 DEF TypeOK
<1>7. TypeOK'
  BY <1>1 DEF TypeOK, Live, SettledPhases
<1>8. AttemptsInv(k)'
  BY <1>1, <1>5, <1>6 DEF OneCallInv, AttemptsInv, Live, Scanning
<1>9. QueueInv(k)'
  BY <1>1, <1>6 DEF OneCallInv, QueueInv, Running
<1>10. PhaseInv(k)'
  BY <1>1, <1>2, <1>5, <1>6 DEF OneCallInv, PhaseInv, Scanning, Running, Waiting
<1>11. \A j \in Calls : j # k => Untouched(j)
  BY <1>1 DEF TypeOK, Untouched
<1> QED
  BY <1>7, <1>8, <1>9, <1>10, <1>11, OneCallChanges DEF OneCallInv

LEMMA AbortCall ==
    ASSUME CallInv, NEW k \in Calls, Abort(k) PROVE CallInv'
<1>1. /\ TypeOK /\ aborted' = [aborted EXCEPT ![k] = TRUE]
      /\ UNCHANGED <<lastIndex, overlap, late, present, chunks, unwritten, phase, cursor, more,
                     result,
                     pool, downloaded, total, report, step, attempt, position, linked>>
  BY DEF CallInv, Abort, worldVars, fileVars, listVars, progressVars, streamVars
<1>2. TypeOK'
  BY <1>1 DEF TypeOK
<1>3. \A j \in Calls : Untouched(j)
  BY <1>1 DEF Untouched
<1> QED
  BY <1>2, <1>3, UntouchedCall DEF CallInv

LEMMA PushCall == ASSUME CallInv, PushChangeset PROVE CallInv'
<1>1. /\ TypeOK /\ lastIndex < MaxIndex /\ lastIndex' = lastIndex + 1
      /\ UNCHANGED <<overlap, late, present, chunks, unwritten, phase, cursor, more, result,
                     pool, aborted,
                     downloaded, total, report, step, attempt, position, linked>>
  BY DEF CallInv, PushChangeset, fileVars, listVars, progressVars, streamVars
<1>2. TypeOK'
  <2>1. lastIndex' \in InitialIndex..MaxIndex
    BY <1>1, DownloadAssumption DEF TypeOK
  <2> QED
    BY <1>1, <2>1 DEF TypeOK
<1>3. \A j \in Calls : Untouched(j)
  BY <1>1 DEF Untouched
<1> QED
  BY <1>2, <1>3, UntouchedCall DEF CallInv

LEMMA CrashCall == ASSUME CallInv, Crash PROVE CallInv'
<1>1. /\ TypeOK
      /\ phase' = [k \in Calls |-> IF phase[k] \in Live THEN "crashed" ELSE phase[k]]
      /\ pool' = [k \in Calls |-> NewQueue]
      /\ step' = [k \in Calls |-> [c \in Changesets |->
                     IF Running(k, c) \/ step[k][c] = "queued" THEN "none"
                                                               ELSE step[k][c]]]
      /\ linked' = [k \in Calls |-> [c \in Changesets |-> FALSE]]
      /\ unwritten' = [k \in Calls |-> NothingUnwritten]
      /\ UNCHANGED <<lastIndex, overlap, late, present, chunks, cursor, more, result, aborted,
                     downloaded, total, report, attempt, position>>
  BY DEF CallInv, Crash, worldVars, fileVars, listVars, progressVars
<1>2. /\ NewQueue \in Queues(Changesets) /\ WellFormed(NewQueue) /\ Queued(NewQueue) = {}
      /\ NewQueue.executing = {} /\ NewQueue.broken = {}
  BY NewQueueWellFormed DEF NewQueue
<1>3. TypeOK'
  <2>1. phase' \in [Calls -> {"idle"} \union Live \union SettledPhases]
    BY <1>1 DEF TypeOK, SettledPhases
  <2>2. step' \in [Calls -> [Changesets -> StepNames]]
    BY <1>1 DEF TypeOK, StepNames
  <2>3. pool' \in [Calls -> Queues(Changesets)] /\ linked' \in [Calls -> [Changesets -> BOOLEAN]]
    BY <1>1, <1>2
  <2>4. UnwrittenTypes'
    BY <1>1 DEF UnwrittenTypes, NothingUnwritten
  <2> QED
    BY <1>1, <2>1, <2>2, <2>3, <2>4 DEF TypeOK, StepNames, UnwrittenTypes
<1>4. ASSUME NEW k \in Calls
      PROVE  OneCallInv(k)'
  <2>1. /\ OneCallInv(k) /\ pool'[k] = NewQueue
        /\ phase'[k] = IF phase[k] \in Live THEN "crashed" ELSE phase[k]
        /\ \A c \in Changesets :
              step'[k][c] = IF Running(k, c) \/ step[k][c] = "queued" THEN "none"
                                                                     ELSE step[k][c]
    BY <1>1 DEF CallInv
  <2>2. \A c \in Changesets : step'[k][c] \in {"none", "done", "failed"}
    BY <1>1, <2>1 DEF TypeOK, Running
  <2>3. phase'[k] \notin Live /\ (phase'[k] # phase[k] => phase'[k] = "crashed")
    BY <2>1 DEF Live, Scanning
  <2>4. AttemptsInv(k)'
    <3>1. phase'[k] = "idle" =>
             \A c \in Changesets : attempt[k][c] = 0 /\ position[k][c] = 0
      BY <2>1 DEF OneCallInv, AttemptsInv, PhaseInv
    <3> QED
      BY <1>1, <2>2, <2>3, <3>1 DEF AttemptsInv
  <2>5. QueueInv(k)'
    BY <1>2, <2>1, <2>2, <2>3 DEF QueueInv, Running, Waiting, Live
  <2>6. PhaseInv(k)'
    BY <1>1, <2>1, <2>2, <2>3 DEF OneCallInv, PhaseInv, Running, Waiting, Live, Scanning
  <2> QED
    BY <2>4, <2>5, <2>6 DEF OneCallInv
<1> QED
  BY <1>3, <1>4 DEF CallInv
-------------------------------------------------------------------------------
(* The ends of a download.                                                 *)

\* A running download settles, and the call with it if it has no queue.
LEMMA SettleOneCall ==
    ASSUME TypeOK, NEW k \in Calls, NEW c \in Changesets, OneCallInv(k),
           Running(k, c), phase[k] # "scan",
           NEW outcome \in {"fulfilled", "rejected"}, Settle(k, c, outcome)
    PROVE  /\ phase' \in [Calls -> {"idle"} \union Live \union SettledPhases]
           /\ step' \in [Calls -> [Changesets -> StepNames]]
           /\ pool' \in [Calls -> Queues(Changesets)]
           /\ \A d \in Changesets :
                 step'[k][d] = IF d # c THEN step[k][d]
                               ELSE IF outcome = "fulfilled" THEN "done" ELSE "failed"
           /\ \A j \in Calls : j # k => /\ phase'[j] = phase[j] /\ step'[j] = step[j]
                                        /\ pool'[j] = pool[j]
           /\ phase'[k] \in {"idle"} \union Live => phase[k] = phase'[k]
           /\ phase'[k] = phase[k] \/ phase'[k] \in SettledPhases
           /\ QueueInv(k)'
           /\ cursor' = cursor /\ result' = result /\ lastIndex' = lastIndex => PhaseInv(k)'
<1> DEFINE v == IF outcome = "fulfilled" THEN "done" ELSE "failed"
<1>1. step' = [step EXCEPT ![k][c] = v]
  BY DEF Settle
<1>2. /\ step' \in [Calls -> [Changesets -> StepNames]]
      /\ \A d \in Changesets : step'[k][d] = IF d = c THEN v ELSE step[k][d]
      /\ \A j \in Calls : j # k => step'[j] = step[j]
  BY <1>1, StepChange DEF StepNames
<1>3. v \in {"done", "failed"} /\ v # "none" /\ v # "queued" /\ v \notin Waiting
  BY DEF Waiting
<1>4. step[k][c] \in Waiting /\ step[k][c] # "none" /\ step[k][c] # "queued"
      /\ step[k][c] # "failed" /\ step[k][c] # "done"
  BY DEF Running, Waiting
<1>5. CASE Kind[k] = "single"
  <2>1. phase' = [phase EXCEPT ![k] = outcome] /\ pool' = pool
    BY <1>5 DEF Settle
  <2>2. phase[k] = "download" /\ phase'[k] = outcome /\ pool[k] = NewQueue
    BY <1>5, <2>1 DEF OneCallInv, PhaseInv, TypeOK
  <2>3. /\ c \in result[k]
        /\ \A d \in Changesets : d # c => step[k][d] = "none" /\ d \notin result[k]
    BY <1>4, <1>5, <2>2 DEF OneCallInv, PhaseInv
  <2>4. \A d \in Changesets : step'[k][d] = IF d = c THEN v ELSE "none"
    BY <1>2, <2>3
  <2>5. QueueInv(k)'
    <3>1. /\ WellFormed(pool'[k]) /\ pool'[k] = NewQueue
          /\ NewQueue.broken = {} /\ Queued(pool'[k]) = {}
      BY <2>1, <2>2, NewQueueWellFormed DEF NewQueue
    <3> QED
      BY <1>3, <1>5, <2>4, <3>1 DEF QueueInv
  <2>6. cursor' = cursor /\ result' = result /\ lastIndex' = lastIndex => PhaseInv(k)'
    BY <1>3, <1>5, <2>1, <2>2, <2>3, <2>4
       DEF OneCallInv, PhaseInv, Scanning, Running, Waiting
  <2>7. phase' \in [Calls -> {"idle"} \union Live \union SettledPhases]
        /\ phase'[k] \in SettledPhases /\ phase'[k] \notin {"idle"} \union Live
    BY <2>1, <2>2 DEF TypeOK, SettledPhases, Live, Scanning
  <2> QED
    BY <1>2, <2>1, <2>5, <2>6, <2>7 DEF TypeOK
<1>6. CASE Kind[k] = "list"
  <2> DEFINE q == pool[k]
             p == IF outcome = "fulfilled" THEN OnFulfilled(q, c) ELSE OnRejected(q, c)
  <2>1. phase' = phase /\ pool' = [pool EXCEPT ![k] = p]
    BY <1>6 DEF Settle, TypeOK
  <2>2. /\ q \in Queues(Changesets) /\ WellFormed(q) /\ c \in q.executing \ q.broken
        /\ Queued(q) = {d \in Changesets : step[k][d] = "queued"}
        /\ q.broken \subseteq {d \in Changesets : step[k][d] = "failed"}
        /\ q.executing \ q.broken = {d \in Changesets : Running(k, d)}
        /\ phase[k] = "download" =>
              {d \in Changesets : step[k][d] = "failed"} \subseteq q.broken
    BY <1>6 DEF TypeOK, OneCallInv, QueueInv
  <2>3. /\ p \in Queues(Changesets) /\ WellFormed(p) /\ p.queue = q.queue
        /\ outcome = "fulfilled" => p.executing = q.executing \ {c} /\ p.broken = q.broken
        /\ outcome = "rejected" => p.executing = q.executing /\ p.broken = q.broken \union {c}
    BY <2>2, OnFulfilledWellFormed, OnRejectedWellFormed
  <2> HIDE DEF p
  <2>4. pool'[k] = p /\ pool' \in [Calls -> Queues(Changesets)] /\ Queued(p) = Queued(q)
    BY <2>1, <2>3 DEF TypeOK, Queued
  <2>5. p.executing \ p.broken = (q.executing \ q.broken) \ {c}
    BY <2>2, <2>3
  <2>6. QueueInv(k)'
    <3>1. Queued(p) = {d \in Changesets : step'[k][d] = "queued"}
      BY <1>2, <1>3, <1>4, <2>2, <2>4
    <3>2. p.broken \subseteq {d \in Changesets : step'[k][d] = "failed"}
      BY <1>2, <1>4, <2>2, <2>3
    <3>3. p.executing \ p.broken = {d \in Changesets : step'[k][d] \in Waiting}
      BY <1>2, <1>3, <2>2, <2>5 DEF Running
    <3>4. phase[k] = "download" =>
             {d \in Changesets : step'[k][d] = "failed"} \subseteq p.broken
      BY <1>2, <2>2, <2>3
    <3> QED
      BY <2>1, <2>3, <2>4, <3>1, <3>2, <3>3, <3>4 DEF QueueInv, Running
  <2>7. phase[k] \in {"download", "rejected", "crashed"}
    BY <1>4 DEF OneCallInv, PhaseInv, TypeOK, Live, Scanning, SettledPhases
  <2>8. cursor' = cursor /\ result' = result /\ lastIndex' = lastIndex => PhaseInv(k)'
    BY <1>2, <1>3, <1>4, <1>6, <2>1, <2>7 DEF OneCallInv, PhaseInv, Scanning, Running
  <2> QED
    BY <1>2, <2>1, <2>4, <2>6, <2>8 DEF TypeOK
<1> QED
  BY <1>5, <1>6, Kinds
-------------------------------------------------------------------------------
(* The look at the file before a download, alone or ahead of the progress. *)

CallTypes == /\ phase \in [Calls -> {"idle"} \union Live \union SettledPhases]
             /\ cursor \in [Calls -> 0..MaxIndex]
             /\ pool \in [Calls -> Queues(Changesets)]
             /\ downloaded \in [Calls -> Nat]
             /\ total \in [Calls -> Nat]
             /\ report \in [Calls -> Nat \X Nat]
             /\ step \in [Calls -> [Changesets -> StepNames]]

\* What a step that ends or goes on with a look keeps, and what it must achieve.
LookFrame == UNCHANGED <<lastIndex, overlap, late, more, result, aborted, attempt, position>>

LookDone(k) == /\ CallTypes'
               /\ OneCallInv(k)'
               /\ \A j \in Calls : j # k => Untouched(j)

LookSteps == {"exists", "size", "delete"}

LEMMA SettleLook ==
    ASSUME CallInv, NEW k \in Calls, NEW c \in Changesets, step[k][c] \in LookSteps,
           phase[k] # "scan", NEW outcome \in {"fulfilled", "rejected"},
           Settle(k, c, outcome), UNCHANGED <<cursor, progressVars>>, LookFrame
    PROVE  LookDone(k)
<1>1. TypeOK /\ OneCallInv(k) /\ Running(k, c)
  BY DEF CallInv, Running, Waiting, LookSteps
<1>2. /\ phase' \in [Calls -> {"idle"} \union Live \union SettledPhases]
      /\ step' \in [Calls -> [Changesets -> StepNames]]
      /\ pool' \in [Calls -> Queues(Changesets)]
      /\ \A d \in Changesets :
            step'[k][d] = IF d # c THEN step[k][d]
                          ELSE IF outcome = "fulfilled" THEN "done" ELSE "failed"
      /\ \A j \in Calls : j # k => /\ phase'[j] = phase[j] /\ step'[j] = step[j]
                                   /\ pool'[j] = pool[j]
      /\ phase'[k] \in {"idle"} \union Live => phase[k] = phase'[k]
      /\ QueueInv(k)'
      /\ cursor' = cursor /\ result' = result /\ lastIndex' = lastIndex => PhaseInv(k)'
  BY <1>1, SettleOneCall
<1>3. UNCHANGED <<lastIndex, cursor, result, downloaded, total, report, attempt, position>>
  BY DEF progressVars, LookFrame
<1>4. AttemptsInv(k)'
  BY <1>1, <1>2, <1>3 DEF OneCallInv, AttemptsInv
<1>5. CallTypes'
  BY <1>1, <1>2, <1>3 DEF TypeOK, CallTypes
<1>6. \A j \in Calls : j # k => Untouched(j)
  BY <1>2, <1>3 DEF Untouched
<1> QED
  BY <1>2, <1>3, <1>4, <1>5, <1>6 DEF LookDone, OneCallInv

LEMMA ScannedLook ==
    ASSUME CallInv, NEW k \in Calls, NEW c \in Changesets, step[k][c] \in LookSteps,
           phase[k] = "scan", NEW bytes \in Nat, Scanned(k, c, bytes), LookFrame
    PROVE  LookDone(k)
<1>1. /\ TypeOK /\ OneCallInv(k) /\ Kind[k] = "list" /\ FileSize[c] \in Nat
      /\ result[k] = {} /\ pool[k] = NewQueue /\ attempt[k][c] = 0 /\ position[k][c] = 0
      /\ \A d \in Changesets :
            d # c => step[k][d] = "none" /\ attempt[k][d] = 0 /\ position[k][d] = 0
  <2>1. TypeOK /\ OneCallInv(k) /\ FileSize[c] \in Nat
    BY DownloadAssumption DEF CallInv
  <2>2. \A d \in Changesets : d # c => step[k][d] = "none"
    BY <2>1 DEF OneCallInv, PhaseInv, Running, Waiting, LookSteps
  <2> QED
    BY <2>1, <2>2 DEF OneCallInv, PhaseInv, AttemptsInv, Scanning, Live, LookSteps
<1>2. /\ total' \in [Calls -> Nat] /\ downloaded' \in [Calls -> Nat]
      /\ UNCHANGED <<lastIndex, result, attempt, position, pool, report>>
  <2>1. /\ total' = [total EXCEPT ![k] = @ + FileSize[c]]
        /\ downloaded' = [downloaded EXCEPT ![k] = @ + bytes]
        /\ UNCHANGED <<lastIndex, result, attempt, position, pool, report>>
    BY DEF Scanned, LookFrame
  <2> QED
    BY <1>1, <2>1 DEF TypeOK
<1>3. /\ WellFormed(pool'[k]) /\ Queued(pool'[k]) = {} /\ pool'[k].broken = {}
      /\ pool'[k].executing = {}
  BY <1>1, <1>2, NewQueueWellFormed DEF NewQueue
<1>4. CASE c < cursor[k]
  <2>1. /\ step' = [step EXCEPT ![k][c] = "none", ![k][c + 1] = "exists"]
        /\ phase' = phase /\ cursor' = cursor
    BY <1>4 DEF Scanned
  <2>2. /\ step' \in [Calls -> [Changesets -> StepNames]]
        /\ \A d \in Changesets : step'[k][d] = IF d = c + 1 THEN "exists" ELSE "none"
        /\ \A j \in Calls : j # k => step'[j] = step[j]
    <3>1. step \in [Calls -> [Changesets -> StepNames]]
      BY <1>1 DEF TypeOK, StepNames
    <3>2. step' = [step EXCEPT ![k] = [step[k] EXCEPT ![c] = "none", ![c + 1] = "exists"]]
      BY <2>1, <3>1
    <3>3. [step[k] EXCEPT ![c] = "none", ![c + 1] = "exists"] \in [Changesets -> StepNames]
      BY <3>1 DEF StepNames, Waiting
    <3> QED
      BY <1>1, <3>1, <3>2, <3>3
  <2>3. AttemptsInv(k)'
    BY <1>1, <1>2, <2>2 DEF AttemptsInv
  <2>4. QueueInv(k)'
    BY <1>3, <2>1, <2>2 DEF QueueInv
  <2>5. PhaseInv(k)'
    BY <1>1, <1>2, <2>1, <2>2 DEF OneCallInv, PhaseInv, Running, Waiting, Scanning
  <2>6. CallTypes'
    BY <1>1, <1>2, <2>1, <2>2 DEF TypeOK, CallTypes
  <2>7. \A j \in Calls : j # k => Untouched(j)
    BY <1>2, <2>1, <2>2 DEF Untouched
  <2> QED
    BY <2>3, <2>4, <2>5, <2>6, <2>7 DEF LookDone, OneCallInv
<1>5. CASE ~(c < cursor[k])
  <2>1. /\ step' = [step EXCEPT ![k][c] = "none"]
        /\ phase' = [phase EXCEPT ![k] = IF more[k] THEN "scanFetch" ELSE "fetch"]
        /\ cursor' = [cursor EXCEPT ![k] = IF more[k] THEN cursor[k] ELSE 0]
    BY <1>1, <1>5 DEF Scanned, TypeOK
  <2>2. /\ step' \in [Calls -> [Changesets -> StepNames]]
        /\ \A d \in Changesets : step'[k][d] = "none"
        /\ \A j \in Calls : j # k => step'[j] = step[j]
    BY <1>1, <2>1, StepChange DEF StepNames
  <2>3. /\ phase' \in [Calls -> {"idle"} \union Live \union SettledPhases]
        /\ phase'[k] \in {"scanFetch", "fetch"}
        /\ \A j \in Calls : j # k => phase'[j] = phase[j]
    BY <1>1, <2>1 DEF TypeOK, Live, Scanning
  <2>4. /\ cursor' \in [Calls -> 0..MaxIndex] /\ cursor'[k] <= lastIndex
        /\ \A j \in Calls : j # k => cursor'[j] = cursor[j]
    <3>1. 0 \in 0..MaxIndex /\ 0 <= lastIndex /\ cursor[k] <= lastIndex
      BY <1>1, DownloadAssumption DEF TypeOK, OneCallInv, PhaseInv
    <3> QED
      BY <1>1, <2>1, <3>1 DEF TypeOK
  <2>5. AttemptsInv(k)'
    BY <1>1, <1>2, <2>2 DEF AttemptsInv
  <2>6. QueueInv(k)'
    BY <1>3, <2>2, <2>3 DEF QueueInv, Running, Waiting
  <2>7. PhaseInv(k)'
    BY <1>1, <1>2, <2>2, <2>3, <2>4 DEF PhaseInv, Running, Waiting, Scanning
  <2>8. CallTypes'
    BY <1>1, <1>2, <2>2, <2>3, <2>4 DEF TypeOK, CallTypes
  <2>9. \A j \in Calls : j # k => Untouched(j)
    BY <1>2, <2>2, <2>3, <2>4 DEF Untouched
  <2> QED
    BY <2>5, <2>6, <2>7, <2>8, <2>9 DEF LookDone, OneCallInv
<1> QED
  BY <1>4, <1>5

LEMMA AlreadyLook ==
    ASSUME CallInv, NEW k \in Calls, NEW c \in Changesets, step[k][c] \in LookSteps,
           AlreadyDownloaded(k, c), LookFrame
    PROVE  LookDone(k)
<1>1. FileSize[c] \in Nat
  BY DownloadAssumption
<1> QED
  BY <1>1, ScannedLook, SettleLook DEF AlreadyDownloaded

\* A step from one await to the next, which changes nothing else of the call.
LEMMA MoveStep ==
    ASSUME CallInv, NEW k \in Calls, NEW c \in Changesets, Running(k, c),
           NEW v \in Waiting, step' = [step EXCEPT ![k][c] = v],
           v \in LookSteps \/ phase[k] # "scan",
           UNCHANGED <<lastIndex, phase, cursor, result, pool>>
    PROVE  /\ step' \in [Calls -> [Changesets -> StepNames]]
           /\ \A d \in Changesets : step'[k][d] = IF d = c THEN v ELSE step[k][d]
           /\ \A j \in Calls : j # k => step'[j] = step[j]
           /\ QueueInv(k)' /\ PhaseInv(k)'
<1>1. TypeOK /\ OneCallInv(k)
  BY DEF CallInv
<1>2. /\ step' \in [Calls -> [Changesets -> StepNames]]
      /\ \A d \in Changesets : step'[k][d] = IF d = c THEN v ELSE step[k][d]
      /\ \A j \in Calls : j # k => step'[j] = step[j]
  BY <1>1, StepChange DEF StepNames
<1>3. \A d \in Changesets : /\ step'[k][d] = "queued" <=> step[k][d] = "queued"
                            /\ step'[k][d] = "failed" <=> step[k][d] = "failed"
                            /\ step'[k][d] = "none" <=> step[k][d] = "none"
                            /\ step'[k][d] = "done" <=> step[k][d] = "done"
                            /\ step'[k][d] \in Waiting <=> step[k][d] \in Waiting
  BY <1>2 DEF Running, Waiting
<1>4. QueueInv(k)'
  BY <1>1, <1>3 DEF OneCallInv, QueueInv, Running
<1>5. phase[k] \in {"scan", "download", "rejected", "crashed"}
  BY <1>1 DEF OneCallInv, PhaseInv, TypeOK, Live, Scanning, SettledPhases, Running, Waiting
<1>6. PhaseInv(k)'
  BY <1>1, <1>2, <1>3, <1>5 DEF OneCallInv, PhaseInv, Scanning, Running, LookSteps
<1> QED
  BY <1>2, <1>4, <1>6

LEMMA NotDownloadedLook ==
    ASSUME CallInv, NEW k \in Calls, NEW c \in Changesets, step[k][c] \in LookSteps,
           NotDownloaded(k, c), LookFrame
    PROVE  LookDone(k)
<1>1. CASE phase[k] = "scan"
  BY <1>1, ScannedLook DEF NotDownloaded
<1>2. CASE phase[k] # "scan" /\ MaxRetries = 0
  BY <1>2, SettleLook DEF NotDownloaded
<1>3. CASE phase[k] # "scan" /\ MaxRetries # 0
  <2>1. /\ step' = [step EXCEPT ![k][c] = "link"] /\ TypeOK /\ OneCallInv(k)
        /\ UNCHANGED <<lastIndex, phase, cursor, result, pool, downloaded, total, report,
                       attempt, position>>
    BY <1>3 DEF NotDownloaded, LookFrame, CallInv, progressVars
  <2>2. /\ step' \in [Calls -> [Changesets -> StepNames]]
        /\ \A d \in Changesets : step'[k][d] = IF d = c THEN "link" ELSE step[k][d]
        /\ \A j \in Calls : j # k => step'[j] = step[j]
        /\ QueueInv(k)' /\ PhaseInv(k)'
    <3>1. "link" \in Waiting /\ Running(k, c)
      BY DEF Running, Waiting, LookSteps
    <3> QED
      BY <1>3, <2>1, <3>1, MoveStep
  <2>3. AttemptsInv(k)'
    <3>1. attempt[k][c] = 0 /\ position[k][c] = 0 /\ 0 < MaxRetries
      BY <1>3, <2>1, DownloadAssumption DEF OneCallInv, AttemptsInv, LookSteps
    <3> QED
      BY <2>1, <2>2, <3>1 DEF OneCallInv, AttemptsInv
  <2>4. CallTypes'
    BY <2>1, <2>2 DEF TypeOK, CallTypes
  <2>5. \A j \in Calls : j # k => Untouched(j)
    BY <2>1, <2>2 DEF Untouched
  <2> QED
    BY <2>2, <2>3, <2>4, <2>5 DEF LookDone, OneCallInv
<1> QED
  BY <1>1, <1>2, <1>3

LEMMA ThrownLook ==
    ASSUME CallInv, NEW k \in Calls, NEW c \in Changesets, step[k][c] \in LookSteps,
           CheckThrows(k, c), LookFrame
    PROVE  LookDone(k)
<1>1. CASE phase[k] # "scan"
  BY <1>1, SettleLook DEF CheckThrows
<1>2. CASE phase[k] = "scan"
  <2>1. /\ step' = [step EXCEPT ![k][c] = "none"]
        /\ phase' = [phase EXCEPT ![k] = "rejected"]
        /\ TypeOK /\ OneCallInv(k)
        /\ UNCHANGED <<lastIndex, cursor, result, pool, downloaded, total, report, attempt,
                       position>>
    BY <1>2 DEF CheckThrows, LookFrame, progressVars, CallInv
  <2>2. \A d \in Changesets : d # c => step[k][d] = "none"
    BY <1>2, <2>1 DEF OneCallInv, PhaseInv, Running, Waiting, LookSteps
  <2>3. /\ step' \in [Calls -> [Changesets -> StepNames]]
        /\ \A d \in Changesets : step'[k][d] = "none"
        /\ \A j \in Calls : j # k => step'[j] = step[j]
    BY <2>1, <2>2, StepChange DEF StepNames
  <2>4. phase' \in [Calls -> {"idle"} \union Live \union SettledPhases] /\ phase'[k] = "rejected"
    BY <2>1 DEF TypeOK, SettledPhases
  <2>5. /\ WellFormed(pool'[k]) /\ Queued(pool'[k]) = {} /\ pool'[k].broken = {}
        /\ pool'[k].executing = {}
    BY <1>2, <2>1, NewQueueWellFormed DEF NewQueue, OneCallInv, PhaseInv, Scanning
  <2>6. AttemptsInv(k)'
    BY <2>3, <2>4 DEF AttemptsInv, Live, Scanning
  <2>7. QueueInv(k)'
    BY <2>3, <2>4, <2>5 DEF QueueInv, Running, Waiting
  <2>8. PhaseInv(k)'
    BY <1>2, <2>1, <2>3, <2>4 DEF OneCallInv, PhaseInv, Running, Waiting, Scanning
  <2>9. CallTypes'
    BY <2>1, <2>3, <2>4 DEF TypeOK, CallTypes
  <2>10. \A j \in Calls : j # k => Untouched(j)
    BY <2>1, <2>3 DEF TypeOK, Untouched
  <2> QED
    BY <2>6, <2>7, <2>8, <2>9, <2>10 DEF LookDone, OneCallInv
<1> QED
  BY <1>1, <1>2

\* The files a look may leave behind are of the right type.
LEMMA LookCall ==
    ASSUME CallInv, NEW k \in Calls, LookDone(k), LookFrame,
           present' \in [Changesets -> BOOLEAN], chunks' \in [Changesets -> SUBSET Nat],
           \A c \in Changesets : chunks'[c] \subseteq chunks[c], UnwrittenTypes',
           linked' \in [Calls -> [Changesets -> BOOLEAN]]
    PROVE  CallInv'
<1>1. TypeOK'
  <2>1. TypeOK /\ CallTypes' /\ LookFrame
    BY DEF CallInv, LookDone
  <2>2. \A c \in Changesets : chunks'[c] \subseteq 1..FileSize[c]
    BY <2>1 DEF TypeOK
  <2> QED
    BY <2>1, <2>2 DEF TypeOK, CallTypes, LookFrame, StepNames, UnwrittenTypes
<1> QED
  BY <1>1, OneCallChanges DEF LookDone

\* The look goes on to its next await.
LEMMA MoveLook ==
    ASSUME CallInv, NEW k \in Calls, NEW c \in Changesets, step[k][c] \in LookSteps,
           NEW v \in LookSteps, step' = [step EXCEPT ![k][c] = v],
           UNCHANGED <<phase, cursor, pool, progressVars>>, LookFrame
    PROVE  LookDone(k)
<1>1. /\ TypeOK /\ OneCallInv(k) /\ Running(k, c) /\ v \in Waiting
      /\ UNCHANGED <<lastIndex, phase, cursor, result, pool, downloaded, total, report,
                     attempt, position>>
  BY DEF CallInv, Running, LookSteps, Waiting, progressVars, LookFrame
<1>2. /\ step' \in [Calls -> [Changesets -> StepNames]]
      /\ \A d \in Changesets : step'[k][d] = IF d = c THEN v ELSE step[k][d]
      /\ \A j \in Calls : j # k => step'[j] = step[j]
      /\ QueueInv(k)' /\ PhaseInv(k)'
  BY <1>1, MoveStep
<1>3. AttemptsInv(k)'
  BY <1>1, <1>2 DEF OneCallInv, AttemptsInv, LookSteps
<1>4. CallTypes'
  BY <1>1, <1>2 DEF TypeOK, CallTypes
<1>5. \A j \in Calls : j # k => Untouched(j)
  BY <1>1, <1>2 DEF Untouched
<1> QED
  BY <1>2, <1>3, <1>4, <1>5 DEF LookDone, OneCallInv

LEMMA FileExistsCall ==
    ASSUME CallInv, NEW k \in Calls, NEW c \in Changesets, FileExists(k, c) PROVE CallInv'
<1>1. /\ step[k][c] \in LookSteps /\ LookFrame
      /\ UNCHANGED <<present, chunks, unwritten, linked>> /\ TypeOK
  BY DEF FileExists, LookSteps, LookFrame, worldVars, fileVars, streamVars, CallInv
<1>2. LookDone(k)
  <2>1. CASE present[c]
    <3>1. /\ step' = [step EXCEPT ![k][c] = "size"] /\ "size" \in LookSteps
          /\ UNCHANGED <<phase, cursor, pool, progressVars>>
      BY <2>1 DEF FileExists, LookSteps
    <3> QED
      BY <1>1, <3>1, MoveLook
  <2>2. CASE ~present[c]
    BY <1>1, <2>2, NotDownloadedLook DEF FileExists
  <2> QED
    BY <2>1, <2>2
<1>3. UnwrittenTypes'
  BY <1>1 DEF TypeOK, UnwrittenTypes
<1> QED
  BY <1>1, <1>2, <1>3, LookCall DEF TypeOK

LEMMA GetFileSizeCall ==
    ASSUME CallInv, NEW k \in Calls, NEW c \in Changesets, GetFileSize(k, c) PROVE CallInv'
<1>1. /\ step[k][c] \in LookSteps /\ LookFrame
      /\ UNCHANGED <<present, chunks, unwritten, linked>> /\ TypeOK
  BY DEF GetFileSize, LookSteps, LookFrame, worldVars, fileVars, streamVars, CallInv
<1>2. LookDone(k)
  <2>1. \/ CheckThrows(k, c)
        \/ AlreadyDownloaded(k, c)
        \/ /\ step' = [step EXCEPT ![k][c] = "delete"] /\ "delete" \in LookSteps
           /\ UNCHANGED <<phase, cursor, pool, progressVars>>
    BY DEF GetFileSize, LookSteps
  <2> QED
    BY <1>1, <2>1, ThrownLook, AlreadyLook, MoveLook
<1>3. UnwrittenTypes'
  BY <1>1 DEF TypeOK, UnwrittenTypes
<1> QED
  BY <1>1, <1>2, <1>3, LookCall DEF TypeOK

\* A file that is deleted takes with it what its streams still hold.
LEMMA DeletedStreams ==
    ASSUME UnwrittenTypes, NEW c \in Changesets,
           unwritten' = [j \in Calls |-> [unwritten[j] EXCEPT ![c] = NothingUnwritten[c]]]
    PROVE  /\ UnwrittenTypes'
           /\ \A j \in Calls, d \in Changesets, i \in Attempts :
                 unwritten'[j][d][i] = IF d = c THEN {} ELSE unwritten[j][d][i]
<1>1. NothingUnwritten[c] \in [Attempts -> SUBSET Nat] /\ \A i \in Attempts : NothingUnwritten[c][i] = {}
  BY DEF NothingUnwritten
<1>2. ASSUME NEW j \in Calls
      PROVE  /\ unwritten'[j] \in [Changesets -> [Attempts -> SUBSET Nat]]
             /\ \A d \in Changesets :
                   unwritten'[j][d] = IF d = c THEN NothingUnwritten[c] ELSE unwritten[j][d]
  <2>1. unwritten[j] \in [Changesets -> [Attempts -> SUBSET Nat]]
    BY DEF UnwrittenTypes
  <2>2. unwritten'[j] = [unwritten[j] EXCEPT ![c] = NothingUnwritten[c]]
    OBVIOUS
  <2> QED
    BY <1>1, <2>1, <2>2
<1>3. \A j \in Calls, d \in Changesets, i \in Attempts :
         unwritten'[j][d][i] = IF d = c THEN {} ELSE unwritten[j][d][i]
  BY <1>1, <1>2
<1>4. unwritten' \in [Calls -> [Changesets -> [Attempts -> SUBSET Nat]]]
  BY <1>2
<1> QED
  BY <1>3, <1>4 DEF UnwrittenTypes

\* One stream gets a chunk or writes one.
LEMMA OneStream ==
    ASSUME UnwrittenTypes, NEW k \in Calls, NEW c \in Changesets, NEW i \in Attempts,
           NEW S \in SUBSET (1..FileSize[c]), unwritten' = [unwritten EXCEPT ![k][c][i] = S]
    PROVE  /\ UnwrittenTypes'
           /\ \A j \in Calls, d \in Changesets, h \in Attempts :
                 unwritten'[j][d][h] = IF j = k /\ d = c /\ h = i THEN S
                                                              ELSE unwritten[j][d][h]
<1>1. S \in SUBSET Nat
  OBVIOUS
<1>2. /\ unwritten \in [Calls -> [Changesets -> [Attempts -> SUBSET Nat]]]
      /\ unwritten[k] \in [Changesets -> [Attempts -> SUBSET Nat]]
      /\ unwritten[k][c] \in [Attempts -> SUBSET Nat]
  BY DEF UnwrittenTypes
<1>3. [unwritten[k][c] EXCEPT ![i] = S] \in [Attempts -> SUBSET Nat]
  BY <1>1, <1>2
<1>4. [unwritten[k] EXCEPT ![c] = [unwritten[k][c] EXCEPT ![i] = S]]
        \in [Changesets -> [Attempts -> SUBSET Nat]]
  BY <1>2, <1>3
<1>5. unwritten' = [unwritten EXCEPT ![k] =
                      [unwritten[k] EXCEPT ![c] = [unwritten[k][c] EXCEPT ![i] = S]]]
  BY <1>2
<1>6. unwritten' \in [Calls -> [Changesets -> [Attempts -> SUBSET Nat]]]
  BY <1>2, <1>4, <1>5
<1>7. \A j \in Calls, d \in Changesets, h \in Attempts :
         unwritten'[j][d][h] = IF j = k /\ d = c /\ h = i THEN S ELSE unwritten[j][d][h]
  BY <1>2, <1>5
<1>8. ASSUME NEW j \in Calls, NEW d \in Changesets, NEW h \in Attempts
      PROVE  unwritten'[j][d][h] \subseteq 1..FileSize[d]
  <2>1. CASE j = k /\ d = c /\ h = i
    BY <1>7, <2>1
  <2>2. CASE ~(j = k /\ d = c /\ h = i)
    BY <1>7, <2>2 DEF UnwrittenTypes
  <2> QED
    BY <2>1, <2>2
<1> QED
  BY <1>6, <1>7, <1>8 DEF UnwrittenTypes

LEMMA DeleteFileCall ==
    ASSUME CallInv, NEW k \in Calls, NEW c \in Changesets, DeleteFile(k, c) PROVE CallInv'
<1>1. /\ step[k][c] \in LookSteps /\ LookFrame /\ TypeOK
      /\ \/ /\ present' = [present EXCEPT ![c] = FALSE]
            /\ chunks' = [chunks EXCEPT ![c] = {}]
            /\ unwritten' = [j \in Calls |->
                               [unwritten[j] EXCEPT ![c] = NothingUnwritten[c]]]
            /\ linked' = [j \in Calls |-> [linked[j] EXCEPT ![c] = FALSE]]
            /\ NotDownloaded(k, c)
         \/ CheckThrows(k, c) /\ UNCHANGED <<present, chunks, unwritten, linked>>
  BY DEF DeleteFile, LookSteps, LookFrame, worldVars, fileVars, CallInv
<1>2. LookDone(k)
  BY <1>1, ThrownLook, NotDownloadedLook
<1>3. /\ present' \in [Changesets -> BOOLEAN] /\ chunks' \in [Changesets -> SUBSET Nat]
      /\ \A d \in Changesets : chunks'[d] \subseteq chunks[d]
      /\ UnwrittenTypes' /\ linked' \in [Calls -> [Changesets -> BOOLEAN]]
  <2>1. /\ present \in [Changesets -> BOOLEAN] /\ chunks \in [Changesets -> SUBSET Nat]
        /\ linked \in [Calls -> [Changesets -> BOOLEAN]]
    BY <1>1 DEF TypeOK
  <2>2. CASE UNCHANGED <<present, chunks, unwritten, linked>>
    BY <1>1, <2>1, <2>2 DEF TypeOK, UnwrittenTypes
  <2>3. CASE /\ present' = [present EXCEPT ![c] = FALSE]
             /\ chunks' = [chunks EXCEPT ![c] = {}]
             /\ unwritten' = [j \in Calls |->
                                [unwritten[j] EXCEPT ![c] = NothingUnwritten[c]]]
             /\ linked' = [j \in Calls |-> [linked[j] EXCEPT ![c] = FALSE]]
    <3>1. linked' \in [Calls -> [Changesets -> BOOLEAN]]
      <4>1. ASSUME NEW j \in Calls
            PROVE  [linked[j] EXCEPT ![c] = FALSE] \in [Changesets -> BOOLEAN]
        BY <2>1
      <4> QED
        BY <2>3, <4>1
    <3>2. \A d \in Changesets : chunks'[d] = IF d = c THEN {} ELSE chunks[d]
      BY <2>1, <2>3
    <3>3. {} \in SUBSET Nat
      OBVIOUS
    <3>4. UnwrittenTypes'
      <4>1. UnwrittenTypes
        BY <1>1 DEF TypeOK, UnwrittenTypes
      <4> QED
        BY <2>3, <4>1, DeletedStreams
    <3> QED
      BY <2>1, <2>3, <3>1, <3>2, <3>3, <3>4
  <2> QED
    BY <1>1, <2>2, <2>3
<1> QED
  BY <1>1, <1>2, <1>3, LookCall
-------------------------------------------------------------------------------
(* The attempts of a download.                                             *)

TransferSteps == {"link", "request", "stream"}

LEMMA TransferFacts ==
    ASSUME CallInv, NEW k \in Calls, NEW c \in Changesets, step[k][c] \in TransferSteps
    PROVE  /\ TypeOK /\ OneCallInv(k) /\ Running(k, c) /\ phase[k] # "scan"
           /\ attempt[k][c] \in Nat /\ attempt[k][c] < MaxRetries
           /\ position[k][c] \in Nat /\ FileSize[c] \in Nat
<1>1. TypeOK /\ OneCallInv(k)
  BY DEF CallInv
<1>2. Running(k, c) /\ phase[k] # "scan"
  BY <1>1 DEF OneCallInv, PhaseInv, Running, Waiting, TransferSteps
<1>3. attempt[k][c] < MaxRetries
  BY <1>1 DEF OneCallInv, AttemptsInv, TransferSteps
<1>4. attempt[k][c] \in Nat /\ position[k][c] \in Nat /\ FileSize[c] \in Nat
  BY <1>1, DownloadAssumption DEF TypeOK
<1> QED
  BY <1>1, <1>2, <1>3, <1>4

\* One that settles, in whatever state it leaves its counters.
LEMMA SettleTransfer ==
    ASSUME CallInv, NEW k \in Calls, NEW c \in Changesets, step[k][c] \in TransferSteps,
           NEW outcome \in {"fulfilled", "rejected"}, Settle(k, c, outcome),
           UNCHANGED <<lastIndex, cursor, result>>,
           \A j \in Calls : j # k => attempt'[j] = attempt[j] /\ position'[j] = position[j],
           \A d \in Changesets :
              d # c => attempt'[k][d] = attempt[k][d] /\ position'[k][d] = position[k][d]
    PROVE  /\ phase' \in [Calls -> {"idle"} \union Live \union SettledPhases]
           /\ step' \in [Calls -> [Changesets -> StepNames]]
           /\ pool' \in [Calls -> Queues(Changesets)]
           /\ OneCallInv(k)'
           /\ \A j \in Calls : j # k => Untouched(j)
<1>1. TypeOK /\ OneCallInv(k) /\ Running(k, c) /\ phase[k] # "scan"
  BY TransferFacts
<1>2. /\ phase' \in [Calls -> {"idle"} \union Live \union SettledPhases]
      /\ step' \in [Calls -> [Changesets -> StepNames]]
      /\ pool' \in [Calls -> Queues(Changesets)]
      /\ \A d \in Changesets :
            step'[k][d] = IF d # c THEN step[k][d]
                          ELSE IF outcome = "fulfilled" THEN "done" ELSE "failed"
      /\ \A j \in Calls : j # k => /\ phase'[j] = phase[j] /\ step'[j] = step[j]
                                   /\ pool'[j] = pool[j]
      /\ phase'[k] \in {"idle"} \union Live => phase[k] = phase'[k]
      /\ QueueInv(k)'
      /\ cursor' = cursor /\ result' = result /\ lastIndex' = lastIndex => PhaseInv(k)'
  BY <1>1, SettleOneCall
<1>3. AttemptsInv(k)'
  BY <1>1, <1>2 DEF OneCallInv, AttemptsInv
<1>4. \A j \in Calls : j # k => Untouched(j)
  BY <1>2 DEF Untouched
<1> QED
  BY <1>2, <1>3, <1>4 DEF OneCallInv

\* One that goes on, with its counters as the new step demands.
LEMMA MoveTransfer ==
    ASSUME CallInv, NEW k \in Calls, NEW c \in Changesets, step[k][c] \in TransferSteps,
           NEW v \in TransferSteps, step' = [step EXCEPT ![k][c] = v],
           UNCHANGED <<lastIndex, phase, cursor, result, pool>>,
           \A j \in Calls : j # k => attempt'[j] = attempt[j] /\ position'[j] = position[j],
           \A d \in Changesets :
              d # c => attempt'[k][d] = attempt[k][d] /\ position'[k][d] = position[k][d],
           attempt'[k][c] < MaxRetries, v # "stream" => position'[k][c] = 0
    PROVE  /\ phase' \in [Calls -> {"idle"} \union Live \union SettledPhases]
           /\ step' \in [Calls -> [Changesets -> StepNames]]
           /\ pool' \in [Calls -> Queues(Changesets)]
           /\ OneCallInv(k)'
           /\ \A j \in Calls : j # k => Untouched(j)
<1>1. /\ TypeOK /\ OneCallInv(k) /\ Running(k, c) /\ phase[k] # "scan"
      /\ v \in Waiting
  BY TransferFacts DEF Waiting, TransferSteps
<1>2. /\ step' \in [Calls -> [Changesets -> StepNames]]
      /\ \A d \in Changesets : step'[k][d] = IF d = c THEN v ELSE step[k][d]
      /\ \A j \in Calls : j # k => step'[j] = step[j]
      /\ QueueInv(k)' /\ PhaseInv(k)'
  BY <1>1, MoveStep
<1>3. AttemptsInv(k)'
  <2>1. v \in {"link", "request", "stream"} /\ phase' = phase
    BY DEF TransferSteps
  <2> QED
    BY <1>1, <1>2, <2>1 DEF OneCallInv, AttemptsInv
<1>4. \A j \in Calls : j # k => Untouched(j)
  BY <1>2 DEF Untouched
<1> QED
  BY <1>1, <1>2, <1>3, <1>4 DEF OneCallInv, TypeOK

LEMMA AttemptFailsCall ==
    ASSUME CallInv, NEW k \in Calls, NEW c \in Changesets, step[k][c] \in TransferSteps,
           AttemptFails(k, c),
           UNCHANGED <<lastIndex, overlap, late, present, chunks, unwritten, cursor, more,
                       result, aborted>>
    PROVE  CallInv'
<1>1. /\ TypeOK /\ OneCallInv(k) /\ Running(k, c) /\ phase[k] # "scan"
      /\ attempt[k][c] \in Nat /\ attempt[k][c] < MaxRetries
      /\ position[k][c] \in Nat /\ FileSize[c] \in Nat
  BY TransferFacts
<1>2. /\ total' = [total EXCEPT ![k] = @ + FailedBytes(k, c)]
      /\ attempt' = [attempt EXCEPT ![k][c] = @ + 1]
      /\ position' = [position EXCEPT ![k][c] = 0]
      /\ linked' = [linked EXCEPT ![k][c] = FALSE]
      /\ downloaded' = downloaded /\ report' = report
      /\ \/ /\ attempt[k][c] + 1 < MaxRetries
            /\ step' = [step EXCEPT ![k][c] = "link"]
            /\ phase' = phase /\ pool' = pool
         \/ Settle(k, c, "rejected")
  BY DEF AttemptFails, StreamClosed, AttemptsLeft
<1>3. /\ total' \in [Calls -> Nat]
      /\ position' \in [Calls -> [Changesets -> Nat]]
      /\ linked' \in [Calls -> [Changesets -> BOOLEAN]]
  <2>1. FailedBytes(k, c) \in Nat
    BY <1>1 DEF FailedBytes
  <2> QED
    BY <1>1, <1>2, <2>1 DEF TypeOK
<1>4. /\ attempt' \in [Calls -> [Changesets -> 0..MaxRetries]]
      /\ attempt'[k][c] = attempt[k][c] + 1 /\ position'[k][c] = 0
      /\ \A d \in Changesets : d # c => /\ attempt'[k][d] = attempt[k][d]
                                        /\ position'[k][d] = position[k][d]
      /\ \A j \in Calls : j # k => attempt'[j] = attempt[j] /\ position'[j] = position[j]
  <2>1. attempt[k][c] + 1 \in 0..MaxRetries
    BY <1>1, DownloadAssumption
  <2> QED
    BY <1>1, <1>2, <2>1 DEF TypeOK
<1>5. /\ phase' \in [Calls -> {"idle"} \union Live \union SettledPhases]
      /\ step' \in [Calls -> [Changesets -> StepNames]]
      /\ pool' \in [Calls -> Queues(Changesets)]
      /\ OneCallInv(k)'
      /\ \A j \in Calls : j # k => Untouched(j)
  <2>1. CASE Settle(k, c, "rejected")
    BY <1>4, <2>1, SettleTransfer
  <2>2. CASE /\ attempt[k][c] + 1 < MaxRetries
             /\ step' = [step EXCEPT ![k][c] = "link"]
             /\ phase' = phase /\ pool' = pool
    <3>1. "link" \in TransferSteps
      BY DEF TransferSteps
    <3>2. attempt'[k][c] < MaxRetries
      BY <1>4, <2>2
    <3>3. UNCHANGED <<lastIndex, phase, cursor, result, pool>>
      BY <2>2
    <3>4. step' = [step EXCEPT ![k][c] = "link"]
      BY <2>2
    <3> HIDE <2>2
    <3> QED
      BY <1>4, <3>1, <3>2, <3>3, <3>4, MoveTransfer
  <2> QED
    BY <1>2, <2>1, <2>2
<1>6. TypeOK'
  BY <1>1, <1>2, <1>3, <1>4, <1>5 DEF TypeOK, StepNames
<1> QED
  BY <1>5, <1>6, OneCallChanges
LEMMA OpenTargetCall ==
    ASSUME CallInv, NEW k \in Calls, NEW c \in Changesets, OpenTarget(k, c) PROVE CallInv'
<1>1. /\ step[k][c] \in TransferSteps /\ step[k][c] = "link"
      /\ present' = [present EXCEPT ![c] = TRUE]
      /\ chunks' = [chunks EXCEPT ![c] = {}]
      /\ linked' = [linked EXCEPT ![k][c] = TRUE]
      /\ step' = [step EXCEPT ![k][c] = "request"]
      /\ overlap' = overlap /\ (late \in BOOLEAN => late' \in BOOLEAN)
      /\ UNCHANGED <<lastIndex, unwritten, phase, cursor, more, result, pool, aborted,
                     downloaded, total, report, attempt, position>>
  BY DEF OpenTarget, Opened, TransferSteps, listVars, progressVars
<1>2. TypeOK /\ OneCallInv(k) /\ attempt[k][c] < MaxRetries /\ position[k][c] = 0
  BY <1>1, TransferFacts DEF OneCallInv, AttemptsInv
<1>3. "request" \in TransferSteps
  BY DEF TransferSteps
<1>4. /\ step' \in [Calls -> [Changesets -> StepNames]]
      /\ OneCallInv(k)'
      /\ \A j \in Calls : j # k => Untouched(j)
  BY <1>1, <1>2, <1>3, MoveTransfer
<1>5. /\ present' \in [Changesets -> BOOLEAN] /\ chunks' \in [Changesets -> SUBSET Nat]
      /\ \A d \in Changesets : chunks'[d] \subseteq 1..FileSize[d]
      /\ linked' \in [Calls -> [Changesets -> BOOLEAN]]
  <2>1. {} \in SUBSET Nat
    OBVIOUS
  <2> QED
    BY <1>1, <1>2, <2>1 DEF TypeOK
<1>6. TypeOK'
  BY <1>1, <1>2, <1>4, <1>5 DEF TypeOK, StepNames
<1> QED
  BY <1>4, <1>6, OneCallChanges

LEMMA RefreshFailsCall ==
    ASSUME CallInv, NEW k \in Calls, NEW c \in Changesets, RefreshFails(k, c) PROVE CallInv'
<1>1. /\ step[k][c] \in TransferSteps /\ AttemptFails(k, c)
      /\ UNCHANGED <<lastIndex, overlap, late, present, chunks, unwritten, cursor, more,
                     result, aborted>>
  BY DEF RefreshFails, TransferSteps, worldVars, fileVars, listVars
<1> QED
  BY <1>1, AttemptFailsCall

LEMMA TransferFailsCall ==
    ASSUME CallInv, NEW k \in Calls, NEW c \in Changesets, TransferFails(k, c) PROVE CallInv'
<1>1. /\ step[k][c] \in TransferSteps /\ AttemptFails(k, c)
      /\ UNCHANGED <<lastIndex, overlap, late, present, chunks, unwritten, cursor, more,
                     result, aborted>>
  BY DEF TransferFails, TransferSteps, worldVars, fileVars, listVars
<1> QED
  BY <1>1, AttemptFailsCall

LEMMA StorageAnswersCall ==
    ASSUME CallInv, NEW k \in Calls, NEW c \in Changesets, StorageAnswers(k, c) PROVE CallInv'
<1>1. /\ step[k][c] \in TransferSteps /\ "stream" \in TransferSteps
      /\ step' = [step EXCEPT ![k][c] = "stream"]
      /\ UNCHANGED <<lastIndex, overlap, late, present, chunks, unwritten, phase, cursor, more,
                     result, pool,
                     aborted, downloaded, total, report, attempt, position, linked>>
  BY DEF StorageAnswers, TransferSteps, worldVars, fileVars, listVars, progressVars, streamVars
<1>2. TypeOK /\ OneCallInv(k) /\ attempt[k][c] < MaxRetries
  BY <1>1, TransferFacts
<1>3. /\ step' \in [Calls -> [Changesets -> StepNames]]
      /\ OneCallInv(k)'
      /\ \A j \in Calls : j # k => Untouched(j)
  BY <1>1, <1>2, MoveTransfer
<1>4. TypeOK'
  BY <1>1, <1>2, <1>3 DEF TypeOK, StepNames
<1> QED
  BY <1>3, <1>4, OneCallChanges

LEMMA ReceiveChunkCall ==
    ASSUME CallInv, NEW k \in Calls, NEW c \in Changesets, ReceiveChunk(k, c) PROVE CallInv'
<1>1. /\ step[k][c] = "stream" /\ step[k][c] \in TransferSteps
      /\ position[k][c] < FileSize[c]
      /\ position' = [position EXCEPT ![k][c] = @ + 1]
      /\ \/ unwritten' = [unwritten EXCEPT ![k][c][attempt[k][c]] =
                              @ \union {position[k][c] + 1}]
         \/ unwritten' = unwritten
      /\ UNCHANGED <<lastIndex, overlap, late, present, chunks, phase, cursor, more, result,
                     pool,
                     aborted, step, attempt, linked>>
  BY DEF ReceiveChunk, TransferSteps, worldVars, listVars
<1>2. \/ UNCHANGED <<downloaded, total, report>>
      \/ report' = [report EXCEPT ![k] = <<1, FileSize[c]>>] /\ UNCHANGED <<downloaded, total>>
      \/ /\ downloaded' = [downloaded EXCEPT ![k] = @ + 1]
         /\ report' = [report EXCEPT ![k] = <<downloaded[k] + 1, total[k]>>]
         /\ total' = total
  BY DEF ReceiveChunk, progressVars
<1>3. TypeOK /\ OneCallInv(k) /\ position[k][c] \in Nat /\ FileSize[c] \in Nat
  BY <1>1, TransferFacts
<1>4. /\ position' \in [Calls -> [Changesets -> Nat]]
      /\ \A j \in Calls : j # k => position'[j] = position[j]
      /\ \A d \in Changesets : d # c => position'[k][d] = position[k][d]
  <2>1. position[k][c] + 1 \in Nat
    BY <1>3
  <2> QED
    BY <1>1, <1>3, <2>1 DEF TypeOK
<1>5. UnwrittenTypes'
  <2>1. UnwrittenTypes /\ attempt[k][c] \in Attempts
    BY <1>3 DEF TypeOK, UnwrittenTypes, Attempts
  <2>2. unwritten[k][c][attempt[k][c]] \union {position[k][c] + 1} \subseteq 1..FileSize[c]
    <3>1. position[k][c] + 1 \in 1..FileSize[c]
      BY <1>1, <1>3
    <3>2. unwritten[k][c][attempt[k][c]] \subseteq 1..FileSize[c]
      BY <2>1 DEF UnwrittenTypes
    <3> QED
      BY <3>1, <3>2
  <2>3. CASE unwritten' = [unwritten EXCEPT ![k][c][attempt[k][c]] =
                             @ \union {position[k][c] + 1}]
    <3> DEFINE S == unwritten[k][c][attempt[k][c]] \union {position[k][c] + 1}
    <3>1. S \in SUBSET (1..FileSize[c])
      BY <2>2
    <3>2. unwritten' = [unwritten EXCEPT ![k][c][attempt[k][c]] = S]
      BY <2>1, <2>3 DEF UnwrittenTypes
    <3> HIDE DEF S
    <3> QED
      BY <2>1, <3>1, <3>2, OneStream
  <2>4. CASE unwritten' = unwritten
    BY <2>1, <2>4 DEF UnwrittenTypes
  <2> QED
    BY <1>1, <2>3, <2>4
<1>6. downloaded' \in [Calls -> Nat] /\ total' \in [Calls -> Nat]
  <2>1. downloaded \in [Calls -> Nat] /\ total \in [Calls -> Nat]
    BY <1>3 DEF TypeOK
  <2>2. downloaded[k] + 1 \in Nat
    BY <2>1
  <2> QED
    BY <1>2, <2>1, <2>2
<1>7. report' \in [Calls -> Nat \X Nat]
  <2>1. <<1, FileSize[c]>> \in Nat \X Nat /\ <<downloaded[k] + 1, total[k]>> \in Nat \X Nat
    BY <1>3 DEF TypeOK
  <2>2. report \in [Calls -> Nat \X Nat]
    BY <1>3 DEF TypeOK
  <2>3. \E r \in Nat \X Nat : report' = report \/ report' = [report EXCEPT ![k] = r]
    BY <1>2, <2>1
  <2> QED
    BY <2>2, <2>3
<1>8. TypeOK'
  BY <1>1, <1>3, <1>4, <1>5, <1>6, <1>7 DEF TypeOK, UnwrittenTypes
<1>9. AttemptsInv(k)'
  BY <1>1, <1>3, <1>4 DEF OneCallInv, AttemptsInv
<1>10. QueueInv(k)' /\ PhaseInv(k)'
  BY <1>1, <1>3 DEF OneCallInv, QueueInv, PhaseInv, Running
<1>11. \A j \in Calls : j # k => Untouched(j)
  BY <1>1, <1>4 DEF Untouched
<1> QED
  BY <1>8, <1>9, <1>10, <1>11, OneCallChanges DEF OneCallInv

\* What WriteChunk does to the file and to the stream.
LEMMA WriteChunkWrites ==
    ASSUME TypeOK, NEW k \in Calls, NEW c \in Changesets, NEW i \in Attempts,
           WriteChunk(k, c, i)
    PROVE  \E n \in unwritten[k][c][i] :
              /\ n \in 1..FileSize[c] /\ \A m \in unwritten[k][c][i] : n <= m
              /\ chunks' \in [Changesets -> SUBSET Nat]
              /\ \A d \in Changesets :
                    chunks'[d] = IF d = c THEN chunks[c] \union {n} ELSE chunks[d]
              /\ UnwrittenTypes'
              /\ \A j \in Calls, d \in Changesets, h \in Attempts :
                    unwritten'[j][d][h] = IF j = k /\ d = c /\ h = i
                                          THEN unwritten[k][c][i] \ {n}
                                          ELSE unwritten[j][d][h]
<1>1. PICK n \in unwritten[k][c][i] :
          /\ \A m \in unwritten[k][c][i] : n <= m
          /\ chunks' = [chunks EXCEPT ![c] = @ \union {n}]
          /\ unwritten' = [unwritten EXCEPT ![k][c][i] = @ \ {n}]
  BY DEF WriteChunk
<1>2. UnwrittenTypes
  BY DEF TypeOK, UnwrittenTypes
<1>2a. unwritten[k][c][i] \subseteq 1..FileSize[c]
  BY DEF TypeOK
<1>3. n \in 1..FileSize[c] /\ n \in Nat
  BY <1>1, <1>2a
<1>4. /\ chunks' \in [Changesets -> SUBSET Nat]
      /\ \A d \in Changesets : chunks'[d] = IF d = c THEN chunks[c] \union {n} ELSE chunks[d]
  <2>1. chunks \in [Changesets -> SUBSET Nat] /\ chunks[c] \union {n} \in SUBSET Nat
    BY <1>3 DEF TypeOK
  <2> QED
    BY <1>1, <2>1
<1> DEFINE S == unwritten[k][c][i] \ {n}
<1>5. S \in SUBSET (1..FileSize[c])
  BY <1>2a
<1>5a. unwritten' = [unwritten EXCEPT ![k][c][i] = S]
  <2>1. unwritten' = [unwritten EXCEPT ![k][c][i] = @ \ {n}]
    BY <1>1
  <2> QED
    BY <1>2, <2>1 DEF UnwrittenTypes
<1> HIDE DEF S
<1>6. UnwrittenTypes'
  BY <1>2, <1>5, <1>5a, OneStream
<1>7. \A j \in Calls, d \in Changesets, h \in Attempts :
         unwritten'[j][d][h] = IF j = k /\ d = c /\ h = i THEN S ELSE unwritten[j][d][h]
  <2>1. /\ unwritten \in [Calls -> [Changesets -> [Attempts -> SUBSET Nat]]]
        /\ unwritten[k] \in [Changesets -> [Attempts -> SUBSET Nat]]
        /\ unwritten[k][c] \in [Attempts -> SUBSET Nat]
    BY <1>2 DEF UnwrittenTypes
  <2> QED
    BY <1>5a, <2>1
<1>8. \A j \in Calls, d \in Changesets, h \in Attempts :
         unwritten'[j][d][h] = IF j = k /\ d = c /\ h = i THEN unwritten[k][c][i] \ {n}
                                                         ELSE unwritten[j][d][h]
  BY <1>7 DEF S
<1> QED
  BY <1>1, <1>3, <1>4, <1>6, <1>8

LEMMA WriteChunkCall ==
    ASSUME CallInv, NEW k \in Calls, NEW c \in Changesets, NEW i \in Attempts,
           WriteChunk(k, c, i)
    PROVE  CallInv'
<1>0. TypeOK
  BY DEF CallInv
<1>1. UNCHANGED <<lastIndex, overlap, late, present, phase, cursor, more, result, pool, aborted,
                  downloaded, total, report, step, attempt, position, linked>>
  BY DEF WriteChunk, worldVars, listVars, progressVars, streamVars
<1>2. /\ chunks' \in [Changesets -> SUBSET Nat]
      /\ \A d \in Changesets : chunks'[d] \subseteq 1..FileSize[d]
      /\ UnwrittenTypes'
  <2>1. PICK n \in unwritten[k][c][i] :
            /\ n \in 1..FileSize[c] /\ \A m \in unwritten[k][c][i] : n <= m
            /\ chunks' \in [Changesets -> SUBSET Nat]
            /\ \A d \in Changesets :
                  chunks'[d] = IF d = c THEN chunks[c] \union {n} ELSE chunks[d]
            /\ UnwrittenTypes'
            /\ \A j \in Calls, d \in Changesets, h \in Attempts :
                  unwritten'[j][d][h] = IF j = k /\ d = c /\ h = i
                                        THEN unwritten[k][c][i] \ {n}
                                        ELSE unwritten[j][d][h]
    BY <1>0, WriteChunkWrites
  <2>2. \A d \in Changesets : chunks[d] \subseteq 1..FileSize[d]
    BY <1>0 DEF TypeOK
  <2> QED
    BY <2>1, <2>2
<1>3. TypeOK'
  BY <1>0, <1>1, <1>2 DEF TypeOK, UnwrittenTypes
<1>4. \A j \in Calls : Untouched(j)
  BY <1>1 DEF Untouched
<1> QED
  BY <1>3, <1>4, UntouchedCall DEF CallInv

\* A transfer that ends, with its file or with an abort.
LEMMA SettleTransferCall ==
    ASSUME CallInv, NEW k \in Calls, NEW c \in Changesets, step[k][c] \in TransferSteps,
           NEW outcome \in {"fulfilled", "rejected"}, Settle(k, c, outcome),
           linked' = StreamClosed(k, c),
           UNCHANGED <<worldVars, fileVars, listVars, aborted, progressVars, attempt, position>>
    PROVE  CallInv'
<1>1. /\ TypeOK /\ linked' = [linked EXCEPT ![k][c] = FALSE]
      /\ UNCHANGED <<lastIndex, overlap, late, present, chunks, unwritten, cursor, more,
                     result, aborted,
                     downloaded, total, report, attempt, position>>
  BY DEF CallInv, StreamClosed, worldVars, fileVars, listVars, progressVars
<1>2. /\ phase' \in [Calls -> {"idle"} \union Live \union SettledPhases]
      /\ step' \in [Calls -> [Changesets -> StepNames]]
      /\ pool' \in [Calls -> Queues(Changesets)]
      /\ OneCallInv(k)'
      /\ \A j \in Calls : j # k => Untouched(j)
  BY <1>1, SettleTransfer
<1>3. linked' \in [Calls -> [Changesets -> BOOLEAN]]
  BY <1>1 DEF TypeOK
<1>4. TypeOK'
  BY <1>1, <1>2, <1>3 DEF TypeOK, StepNames
<1> QED
  BY <1>2, <1>4, OneCallChanges
-------------------------------------------------------------------------------
(* Every step keeps CallInv.                                               *)

LEMMA NextCallInv == CallInv /\ [Next]_vars => CallInv'
<1> SUFFICES ASSUME CallInv, [Next]_vars PROVE CallInv'
  OBVIOUS
<1>1. ASSUME NEW k \in Calls, Begin(k) \/ CallStep(k) \/ FetchFails(k) \/ Abort(k)
      PROVE  CallInv'
  BY <1>1, BeginCall, FetchMinimalPageCall, FetchPageCall, QuerySingleCall, ResumeCall,
     WaitAllThrowsCall, PageDoneCall, FetchFailsCall, AbortCall DEF CallStep
<1>2. ASSUME NEW k \in Calls, NEW c \in Changesets, DownloadStep(k, c)
      PROVE  CallInv'
  <2>1. CASE FileExists(k, c) \/ GetFileSize(k, c) \/ DeleteFile(k, c)
    BY <2>1, FileExistsCall, GetFileSizeCall, DeleteFileCall
  <2>2. CASE OpenTarget(k, c) \/ RefreshFails(k, c) \/ StorageAnswers(k, c)
    BY <2>2, OpenTargetCall, RefreshFailsCall, StorageAnswersCall
  <2>3. CASE ReceiveChunk(k, c) \/ TransferFails(k, c)
    BY <2>3, ReceiveChunkCall, TransferFailsCall
  <2>4. CASE TransferAborted(k, c)
    BY <2>4, SettleTransferCall DEF TransferAborted, TransferSteps
  <2>5. CASE TargetCloses(k, c)
    BY <2>5, SettleTransferCall DEF TargetCloses, TransferSteps
  <2>6. CASE \E i \in Attempts : WriteChunk(k, c, i)
    BY <2>6, WriteChunkCall
  <2> QED
    BY <1>2, <2>1, <2>2, <2>3, <2>4, <2>5, <2>6 DEF DownloadStep
<1>3. CASE UNCHANGED vars
  <2>1. \A j \in Calls : Untouched(j)
    BY <1>3 DEF vars, Untouched
  <2>2. TypeOK'
    BY <1>3 DEF CallInv, TypeOK, vars
  <2> QED
    BY <2>1, <2>2, UntouchedCall DEF CallInv
<1> QED
  BY <1>1, <1>2, <1>3, PushCall, CrashCall DEF Next, AllSettled

LEMMA AlwaysCallInv == Spec => []CallInv
<1>1. Init => CallInv
  BY InitCallInv
<1>2. CallInv /\ [Next]_vars => CallInv'
  BY NextCallInv
<1> QED
  BY <1>1, <1>2, PTL DEF Spec

\* The variables always have their types, and no chunk lies beyond its file.
THEOREM TypeCorrect == Spec => []TypeOK
<1>1. CallInv => TypeOK
  BY DEF CallInv
<1> QED
  BY <1>1, AlwaysCallInv, PTL

\* A call that returns has accepted each of its downloads and runs none any more.
THEOREM ReturnsWhenAccepted == Spec => []ReturnedMeansAccepted
<1>1. CallInv => ReturnedMeansAccepted
  BY DEF CallInv, OneCallInv, PhaseInv, ReturnedMeansAccepted
<1> QED
  BY <1>1, AlwaysCallInv, PTL
-------------------------------------------------------------------------------
(***************************************************************************)
(* The files.                                                              *)
(***************************************************************************)

\* Calls are made one after the other.
OrderInv == \A j, k \in Calls : j < k /\ phase[j] \notin SettledPhases => phase[k] = "idle"

Active(k) == phase[k] \in Live \/ \E c \in Changesets : Running(k, c)

Busy(k) == Active(k) \/ \E c \in Changesets : Writing(k, c)

\* At most one call is in progress or has downloads running or something to write.
AloneInv == \A j, k \in Calls : Busy(j) /\ Busy(k) => j = k

\* A file is written from its beginning.
PrefixInv(c) == /\ \E m \in 0..FileSize[c] : chunks[c] = 1..m
                /\ ~present[c] => chunks[c] = {}

\* Of the attempts only i has something to write, the rest of the first m chunks.
OneWriter(k, c, i, m) ==
    \E w \in 0..m : /\ chunks[c] = 1..w
                    /\ unwritten[k][c][i] = (w + 1)..m
                    /\ \A h \in Attempts : h # i => unwritten[k][c][h] = {}

\* What is still to be written continues the file, and the download did not begin anew.
WritingInv(k, c) ==
    Writing(k, c) => /\ present[c]
                     /\ step[k][c] \in TransferSteps \union {"failed"}
                     /\ step[k][c] = "link" => attempt[k][c] # 0
                     /\ \E i \in Attempts, m \in 0..FileSize[c] : OneWriter(k, c, i, m)

\* What a download in transfer received is in its file or about to be.
StreamInv(k, c) ==
    /\ WritingInv(k, c)
    /\ IF step[k][c] \in {"request", "stream"}
       THEN /\ linked[k][c] /\ present[c]
            /\ OneWriter(k, c, attempt[k][c], position[k][c])
            /\ position[k][c] <= FileSize[c]
       ELSE ~linked[k][c]

\* An accepted file is whole, and no download that is to write it is under way.
AcceptedInv(k, c) ==
    /\ step[k][c] = "done" => Complete(c)
    /\ step[k][c] = "delete" => ~Complete(c)
    /\ step[k][c] \in TransferSteps => \A j \in Calls : step[j][c] # "done"
    /\ step[k][c] = "link" /\ attempt[k][c] = 0 => ~SizeMatches(c)

DownloadsInv == /\ AloneInv
                /\ \A c \in Changesets : PrefixInv(c)
                /\ \A k \in Calls, c \in Changesets : StreamInv(k, c) /\ AcceptedInv(k, c)

\* Downloads that still look at their file, or wait to.
Undecided == {"none", "queued", "exists", "size", "delete"}

\* Nothing was received by a download that made no attempt yet, and the file it is to
\* replace or make has not the expected size.
ApartInv(k, c) ==
    /\ \/ step[k][c] \in Undecided
       \/ step[k][c] = "link" /\ attempt[k][c] = 0
       => ~Writing(k, c)
    /\ \/ step[k][c] = "delete"
       \/ step[k][c] = "link" /\ attempt[k][c] = 0
       => ~SizeMatches(c)
    /\ step[k][c] \in {"request", "stream"} => position[k][c] <= FileSize[c]

CallsApart == AloneInv /\ \A k \in Calls, c \in Changesets : ApartInv(k, c)

FileInv == /\ OrderInv
           /\ ~overlap => CallsApart
           /\ ~overlap /\ ~late => DownloadsInv
-------------------------------------------------------------------------------
(* What steps do to the calls.                                             *)

\* Calls but for the one that begins stay idle and settled.
PhaseMove(k) == phase'[k] = phase[k] \/ (phase[k] \in Live /\ phase'[k] # "idle")

LEMMA OrderKept ==
    ASSUME OrderInv, \A k \in Calls : PhaseMove(k)
    PROVE  OrderInv'
BY DEF OrderInv, PhaseMove, SettledPhases, Live, Scanning

LEMMA InitFileInv == Init => FileInv
<1> SUFFICES ASSUME Init PROVE FileInv
  OBVIOUS
<1>1. /\ \A k \in Calls : phase[k] = "idle" /\ ~Busy(k)
      /\ \A k \in Calls, c \in Changesets :
            step[k][c] = "none" /\ ~linked[k][c] /\ ~Writing(k, c)
  BY DEF Init, Busy, Active, Running, Waiting, Live, Scanning, Writing, NothingUnwritten
<1>2. OrderInv /\ AloneInv
  BY <1>1 DEF OrderInv, AloneInv
<1>3. ASSUME NEW c \in Changesets
      PROVE  PrefixInv(c)
  <2>1. PICK left \in [Changesets -> UNION {0..FileSize[d] : d \in Changesets}] :
            /\ chunks = [d \in Changesets |-> 1..left[d]]
            /\ \A d \in Changesets : left[d] <= IF present[d] THEN FileSize[d] ELSE 0
    BY DEF Init
  <2>2. left[c] \in Nat /\ FileSize[c] \in Nat /\ left[c] <= FileSize[c]
    BY <2>1, DownloadAssumption
  <2>3. left[c] \in 0..FileSize[c] /\ chunks[c] = 1..left[c]
    BY <2>1, <2>2
  <2>4. ~present[c] => left[c] = 0
    BY <2>1, <2>2
  <2>5. ~present[c] => chunks[c] = {}
    BY <2>2, <2>3, <2>4
  <2> QED
    BY <2>3, <2>5 DEF PrefixInv
<1>4. \A k \in Calls, c \in Changesets : StreamInv(k, c) /\ AcceptedInv(k, c)
  BY <1>1 DEF StreamInv, WritingInv, AcceptedInv, TransferSteps
<1>5. \A k \in Calls, c \in Changesets : ApartInv(k, c)
  BY <1>1 DEF ApartInv
<1> QED
  BY <1>2, <1>3, <1>4, <1>5 DEF FileInv, DownloadsInv, CallsApart

\* A step that does nothing to a download but take it away from its file or set
\* it to wait for its turn or to look at the file.
QuietMove(k, c) ==
    /\ \/ /\ step'[k][c] = step[k][c] /\ attempt'[k][c] = attempt[k][c]
          /\ position'[k][c] = position[k][c]
       \/ step'[k][c] \in {"none", "queued", "exists", "size", "failed"}
    /\ \/ /\ linked'[k][c] = linked[k][c]
          /\ step[k][c] \in {"request", "stream"} =>
                step'[k][c] = step[k][c] /\ unwritten'[k][c] = unwritten[k][c]
       \/ linked'[k][c] = FALSE /\ step'[k][c] \notin {"request", "stream"}
    /\ Writing(k, c)' =>
          /\ unwritten'[k][c] = unwritten[k][c]
          /\ \/ step'[k][c] = step[k][c] /\ attempt'[k][c] = attempt[k][c]
             \/ step[k][c] \in Undecided

LEMMA QuietStreams ==
    ASSUME NEW k \in Calls, NEW c \in Changesets, StreamInv(k, c), QuietMove(k, c),
           present'[c] = present[c], chunks'[c] = chunks[c]
    PROVE  StreamInv(k, c)'
<1>1. WritingInv(k, c)'
  <2> SUFFICES ASSUME Writing(k, c)'
               PROVE  /\ present'[c]
                      /\ step'[k][c] \in TransferSteps \union {"failed"}
                      /\ step'[k][c] = "link" => attempt'[k][c] # 0
                      /\ \E i \in Attempts, m \in 0..FileSize[c] : OneWriter(k, c, i, m)'
    BY DEF WritingInv
  <2>1. unwritten'[k][c] = unwritten[k][c]
    BY DEF QuietMove
  <2>2. Writing(k, c)
    BY <2>1 DEF Writing
  <2>3. /\ present[c] /\ step[k][c] \in TransferSteps \union {"failed"}
        /\ step[k][c] = "link" => attempt[k][c] # 0
        /\ \E i \in Attempts, m \in 0..FileSize[c] : OneWriter(k, c, i, m)
    BY <2>2 DEF StreamInv, WritingInv
  <2>4. step'[k][c] = step[k][c] /\ attempt'[k][c] = attempt[k][c]
    BY <2>3 DEF QuietMove, TransferSteps, Undecided
  <2>5. \E i \in Attempts, m \in 0..FileSize[c] : OneWriter(k, c, i, m)'
    BY <2>1, <2>3 DEF OneWriter
  <2> QED
    BY <2>3, <2>4, <2>5
<1>2. CASE step'[k][c] \in {"request", "stream"}
  <2>1. /\ step'[k][c] = step[k][c] /\ attempt'[k][c] = attempt[k][c]
        /\ position'[k][c] = position[k][c] /\ linked'[k][c] = linked[k][c]
        /\ unwritten'[k][c] = unwritten[k][c]
    BY <1>2 DEF QuietMove
  <2>2. OneWriter(k, c, attempt[k][c], position[k][c])'
    BY <1>2, <2>1 DEF StreamInv, OneWriter
  <2> QED
    BY <1>1, <1>2, <2>1, <2>2 DEF StreamInv
<1>3. CASE step'[k][c] \notin {"request", "stream"}
  BY <1>1, <1>3 DEF StreamInv, QuietMove
<1> QED
  BY <1>2, <1>3

LEMMA QuietBusy ==
    ASSUME NEW k \in Calls, Active(k)' => Active(k),
           \A c \in Changesets : Writing(k, c)' => Writing(k, c)
    PROVE  Busy(k)' => Busy(k)
BY DEF Busy

LEMMA QuietFiles ==
    ASSUME DownloadsInv, UNCHANGED <<present, chunks>>,
           \A k \in Calls : Active(k)' => Active(k),
           \A k \in Calls, c \in Changesets : QuietMove(k, c)
    PROVE  DownloadsInv'
<1>1. AloneInv'
  <2>1. \A k \in Calls, c \in Changesets : Writing(k, c)' => Writing(k, c)
    BY DEF QuietMove, Writing
  <2>2. \A k \in Calls : Busy(k)' => Busy(k)
    BY <2>1, QuietBusy
  <2> QED
    BY <2>2 DEF DownloadsInv, AloneInv
<1>2. \A c \in Changesets : PrefixInv(c)'
  BY DEF DownloadsInv, PrefixInv
<1>3. ASSUME NEW k \in Calls, NEW c \in Changesets
      PROVE  StreamInv(k, c)' /\ AcceptedInv(k, c)'
  <2>1. StreamInv(k, c) /\ AcceptedInv(k, c) /\ QuietMove(k, c)
    BY DEF DownloadsInv
  <2>2. \A j \in Calls : step'[j][c] = "done" => step[j][c] = "done"
    BY DEF QuietMove
  <2>3. StreamInv(k, c)'
    BY <2>1, QuietStreams
  <2>4. AcceptedInv(k, c)'
    BY <2>1, <2>2 DEF AcceptedInv, QuietMove, TransferSteps, Complete, SizeMatches
  <2> QED
    BY <2>3, <2>4
<1> QED
  BY <1>1, <1>2, <1>3 DEF DownloadsInv

LEMMA QuietApart ==
    ASSUME NEW k \in Calls, NEW c \in Changesets, ApartInv(k, c), QuietMove(k, c),
           present'[c] = present[c], chunks'[c] = chunks[c]
    PROVE  ApartInv(k, c)'
<1>1. Writing(k, c)' => Writing(k, c)
  BY DEF QuietMove, Writing
<1>2. CASE step'[k][c] = step[k][c] /\ attempt'[k][c] = attempt[k][c]
  <2>1. step'[k][c] \in {"request", "stream"} => position'[k][c] = position[k][c]
    BY DEF QuietMove
  <2> QED
    BY <1>1, <1>2, <2>1 DEF ApartInv, SizeMatches
<1>3. CASE ~(step'[k][c] = step[k][c] /\ attempt'[k][c] = attempt[k][c])
  <2>1. step'[k][c] \in {"none", "queued", "exists", "size", "failed"}
    BY <1>3 DEF QuietMove
  <2>2. ~Writing(k, c)'
    BY <1>1, <1>3 DEF QuietMove, ApartInv
  <2> QED
    BY <2>1, <2>2 DEF ApartInv
<1> QED
  BY <1>2, <1>3

LEMMA QuietCallsApart ==
    ASSUME CallsApart, UNCHANGED <<present, chunks>>,
           \A k \in Calls : Active(k)' => Active(k),
           \A k \in Calls, c \in Changesets : QuietMove(k, c)
    PROVE  CallsApart'
<1>1. \A k \in Calls, c \in Changesets : Writing(k, c)' => Writing(k, c)
  BY DEF QuietMove, Writing
<1>2. \A k \in Calls : Busy(k)' => Busy(k)
  BY <1>1, QuietBusy
<1>3. \A k \in Calls, c \in Changesets : ApartInv(k, c)'
  BY QuietApart DEF CallsApart
<1> QED
  BY <1>2, <1>3 DEF CallsApart, AloneInv

\* A step of one download leaves the others apart.
LEMMA WorkApart ==
    ASSUME CallsApart, NEW k \in Calls, NEW c \in Changesets, Running(k, c) \/ Writing(k, c),
           \A j \in Calls : Active(j)' => Active(j),
           \A d \in Changesets : d # c => present'[d] = present[d] /\ chunks'[d] = chunks[d],
           \A j \in Calls, d \in Changesets : d # c => QuietMove(j, d),
           \A j \in Calls : j # k =>
              step'[j][c] = step[j][c] /\ (Writing(j, c)' => Writing(j, c)),
           ApartInv(k, c)'
    PROVE  CallsApart'
<1>1. \A j \in Calls, d \in Changesets : d # c => (Writing(j, d)' => Writing(j, d))
  BY DEF QuietMove, Writing
<1>2. \A j \in Calls : j # k => (Busy(j)' => Busy(j))
  BY <1>1, QuietBusy
<1>3. Busy(k)
  BY DEF Busy, Active
<1>4. AloneInv'
  BY <1>2, <1>3 DEF CallsApart, AloneInv
<1>5. ASSUME NEW j \in Calls, NEW d \in Changesets
      PROVE  ApartInv(j, d)'
  <2>1. CASE d # c
    BY <2>1, QuietApart DEF CallsApart
  <2>2. CASE d = c /\ j # k
    <3>1. ~Running(j, c) /\ ~Writing(j, c)
      BY <1>3, <2>2 DEF CallsApart, AloneInv, Busy, Active
    <3>2. step'[j][c] \notin Waiting /\ ~Writing(j, c)'
      BY <2>2, <3>1 DEF Running
    <3> QED
      BY <2>2, <3>2 DEF ApartInv, Waiting
  <2> QED
    BY <2>1, <2>2
<1> QED
  BY <1>4, <1>5 DEF CallsApart

\* A step of one download that runs alone leaves the others as they are, and what
\* it does to its own file agrees with what it does to itself.
LEMMA WorkFiles ==
    ASSUME DownloadsInv, NEW k \in Calls, NEW c \in Changesets, Running(k, c),
           \A j \in Calls : Active(j)' => Active(j),
           \A d \in Changesets : d # c => present'[d] = present[d] /\ chunks'[d] = chunks[d],
           \A j \in Calls, d \in Changesets : d # c => QuietMove(j, d),
           \A j \in Calls : j # k =>
              /\ step'[j][c] = step[j][c] /\ attempt'[j][c] = attempt[j][c]
              /\ linked'[j][c] => linked[j][c]
              /\ Writing(j, c)' => Writing(j, c),
           \A j \in Calls : step'[j][c] = "done" => Complete(c)',
           PrefixInv(c)', StreamInv(k, c)', AcceptedInv(k, c)'
    PROVE  DownloadsInv'
<1>1. AloneInv'
  <2>1. \A j \in Calls, d \in Changesets : d # c => (Writing(j, d)' => Writing(j, d))
    BY DEF QuietMove, Writing
  <2>2. \A j \in Calls : j # k => (Busy(j)' => Busy(j))
    BY <2>1, QuietBusy
  <2>3. Busy(k)
    BY DEF Busy, Active
  <2> QED
    BY <2>2, <2>3 DEF DownloadsInv, AloneInv
<1>2. \A d \in Changesets : PrefixInv(d)'
  BY DEF DownloadsInv, PrefixInv
<1>3. ASSUME NEW j \in Calls, NEW d \in Changesets
      PROVE  StreamInv(j, d)' /\ AcceptedInv(j, d)'
  <2>1. CASE d # c
    <3>1. StreamInv(j, d) /\ AcceptedInv(j, d) /\ QuietMove(j, d)
      BY <2>1 DEF DownloadsInv
    <3>2. \A i \in Calls : step'[i][d] = "done" => step[i][d] = "done"
      BY <2>1 DEF QuietMove
    <3>3. StreamInv(j, d)'
      BY <2>1, <3>1, QuietStreams
    <3>4. AcceptedInv(j, d)'
      BY <2>1, <3>1, <3>2 DEF AcceptedInv, QuietMove, TransferSteps, Complete, SizeMatches
    <3> QED
      BY <3>3, <3>4
  <2>2. CASE d = c /\ j # k
    <3>1. ~Running(j, c) /\ ~Writing(j, c)
      BY <2>2 DEF DownloadsInv, AloneInv, Busy, Active
    <3>2. step'[j][c] \notin Waiting /\ ~Writing(j, c)'
      BY <2>2, <3>1 DEF Running
    <3>3. ~linked[j][c]
      BY <3>1 DEF DownloadsInv, StreamInv, Running, Waiting
    <3> QED
      BY <2>2, <3>2, <3>3 DEF StreamInv, WritingInv, AcceptedInv, Waiting, TransferSteps
  <2> QED
    BY <2>1, <2>2
<1> QED
  BY <1>1, <1>2, <1>3 DEF DownloadsInv
-------------------------------------------------------------------------------
(* Steps of the call, which touch no file.                                 *)

CallMoves == \A j \in Calls : PhaseMove(j) /\ (Active(j)' => Active(j))

LEMMA OneCallMoves ==
    ASSUME NEW k \in Calls, Active(k), PhaseMove(k),
           \A j \in Calls : j # k => phase'[j] = phase[j] /\ step'[j] = step[j]
    PROVE  CallMoves
BY DEF CallMoves, PhaseMove, Active, Running

FilesUntouched == /\ UNCHANGED <<overlap, late, present, chunks>>
         /\ CallMoves
         /\ \A k \in Calls, c \in Changesets : QuietMove(k, c)

LEMMA QuietStep == ASSUME FileInv, FilesUntouched PROVE FileInv'
<1>1. OrderInv'
  BY OrderKept DEF FileInv, FilesUntouched, CallMoves
<1>2. ASSUME ~overlap'
      PROVE  CallsApart'
  BY <1>2, QuietCallsApart DEF FileInv, FilesUntouched, CallMoves
<1>3. ASSUME ~overlap', ~late'
      PROVE  DownloadsInv'
  BY <1>3, QuietFiles DEF FileInv, FilesUntouched, CallMoves
<1> QED
  BY <1>1, <1>2, <1>3 DEF FileInv

\* A call that is in progress puts downloads in its queue or starts them.
LEMMA QuietCall ==
    ASSUME NEW k \in Calls, phase[k] \in Live, phase'[k] # "idle",
           UNCHANGED <<overlap, late, present, chunks, unwritten, attempt, position, linked>>,
           \A j \in Calls : j # k => phase'[j] = phase[j] /\ step'[j] = step[j],
           \A c \in Changesets :
              \/ step'[k][c] = step[k][c]
              \/ /\ step'[k][c] \in {"queued", "exists"}
                 /\ step[k][c] \in Undecided
    PROVE  FilesUntouched
<1>1. CallMoves
  BY OneCallMoves DEF Active, PhaseMove
<1>2. \A j \in Calls, c \in Changesets : QuietMove(j, c)
  BY DEF QuietMove, Undecided
<1> QED
  BY <1>1, <1>2 DEF FilesUntouched

LEMMA FetchMinimalPageQuiet ==
    ASSUME CallInv, NEW k \in Calls, FetchMinimalPage(k) PROVE FilesUntouched
<1>1. /\ TypeOK /\ OneCallInv(k) /\ phase[k] = "scanFetch"
      /\ \/ phase' = [phase EXCEPT ![k] = "fetch"] /\ step' = step
         \/ /\ phase' = [phase EXCEPT ![k] = "scan"]
            /\ step' = [step EXCEPT ![k][cursor[k] + 1] = "exists"]
      /\ UNCHANGED <<overlap, late, present, chunks, unwritten, attempt, position, linked>>
  BY DEF CallInv, FetchMinimalPage, worldVars, fileVars, streamVars
<1>2. /\ phase[k] \in Live /\ phase'[k] # "idle"
      /\ \A j \in Calls : j # k => phase'[j] = phase[j]
      /\ \A c \in Changesets : step[k][c] = "none"
  BY <1>1 DEF TypeOK, Live, Scanning, OneCallInv, PhaseInv
<1>3. "exists" \in StepNames
  BY DEF StepNames, Waiting
<1>4. /\ \A j \in Calls : j # k => step'[j] = step[j]
      /\ \A c \in Changesets : step'[k][c] \in {step[k][c], "exists"}
  <2>1. CASE step' = step
    BY <2>1
  <2>2. CASE step' = [step EXCEPT ![k][cursor[k] + 1] = "exists"]
    BY <1>1, <1>3, <2>2, StepChange
  <2> QED
    BY <1>1, <2>1, <2>2
<1> QED
  BY <1>1, <1>2, <1>4, QuietCall DEF Undecided

LEMMA FetchPageQuiet == ASSUME CallInv, NEW k \in Calls, FetchPage(k) PROVE FilesUntouched
<1> DEFINE page == (cursor[k] + 1)..PageEnd(k)
           steps == [c \in Changesets |-> IF c \in page THEN "queued" ELSE step[k][c]]
<1>1. /\ TypeOK /\ OneCallInv(k) /\ phase[k] = "fetch"
      /\ phase' = [phase EXCEPT ![k] = "download"]
      /\ \E q \in BySize(page) : TurnQueue(k, [NewQueue EXCEPT !.queue = q], steps)
      /\ UNCHANGED <<overlap, late, present, chunks, unwritten, attempt, position, linked>>
  BY DEF CallInv, FetchPage, worldVars, fileVars, streamVars
<1>2. PICK q \in BySize(page) :
          step' = [step EXCEPT ![k] =
                     [c \in Changesets |->
                        IF c \in Started([NewQueue EXCEPT !.queue = q])
                        THEN "exists" ELSE steps[c]]]
  BY <1>1 DEF TurnQueue
<1> DEFINE p == [NewQueue EXCEPT !.queue = q]
<1>2a. \A c \in Changesets : c \in Started(p) => c \in page
  <2>1. page \in SUBSET Changesets
    <3>1. \A c \in page : c \in 1..MaxIndex
      <4>1. PageEnd(k) \in 0..MaxIndex /\ cursor[k] \in 0..MaxIndex
        BY <1>1, PageEnds DEF TypeOK
      <4> QED
        BY <4>1, DownloadAssumption
    <3> QED
      BY <3>1 DEF Changesets
  <2> HIDE DEF page
  <2>2. p \in Queues(Changesets) /\ WellFormed(p) /\ Queued(p) = page
    BY <1>2, <2>1, PageQueue
  <2> HIDE DEF p
  <2> QED
    BY <2>2, LoopMovesItems
<1>2b. \A c \in Changesets : c \in page => step[k][c] = "none"
  BY <1>1 DEF OneCallInv, PhaseInv, TypeOK
<1>3. /\ \A j \in Calls : j # k => step'[j] = step[j]
      /\ \A c \in Changesets :
            step'[k][c] = IF c \in Started(p) THEN "exists"
                          ELSE IF c \in page THEN "queued" ELSE step[k][c]
  BY <1>1, <1>2 DEF TypeOK
<1>4. /\ phase[k] \in Live /\ phase'[k] # "idle"
      /\ \A j \in Calls : j # k => phase'[j] = phase[j]
  BY <1>1 DEF TypeOK, Live
<1>5. \A c \in Changesets : \/ step'[k][c] = step[k][c]
                            \/ /\ step'[k][c] \in {"queued", "exists"}
                               /\ step[k][c] \in Undecided
  BY <1>2a, <1>2b, <1>3 DEF Undecided
<1> QED
  BY <1>1, <1>3, <1>4, <1>5, QuietCall

LEMMA QuerySingleQuiet == ASSUME CallInv, NEW k \in Calls, QuerySingle(k) PROVE FilesUntouched
<1>1. /\ TypeOK /\ OneCallInv(k) /\ phase[k] = "fetch" /\ Kind[k] # "list"
      /\ phase' = [phase EXCEPT ![k] = "download"]
      /\ \E c : step' = [step EXCEPT ![k][c] = "exists"]
      /\ UNCHANGED <<overlap, late, present, chunks, unwritten, attempt, position, linked>>
  BY DEF CallInv, QuerySingle, worldVars, fileVars, streamVars
<1>2. "exists" \in StepNames
  BY DEF StepNames, Waiting
<1>3. /\ \A j \in Calls : j # k => step'[j] = step[j]
      /\ \A c \in Changesets : step'[k][c] \in {step[k][c], "exists"}
  BY <1>1, <1>2, StepChange
<1>4. /\ phase[k] \in Live /\ phase'[k] # "idle"
      /\ \A j \in Calls : j # k => phase'[j] = phase[j]
      /\ \A c \in Changesets : step[k][c] = "none"
  BY <1>1 DEF TypeOK, Live, OneCallInv, PhaseInv
<1> QED
  BY <1>1, <1>3, <1>4, QuietCall DEF Undecided

LEMMA ResumeQuiet == ASSUME CallInv, NEW k \in Calls, ResumeWaitAll(k) PROVE FilesUntouched
<1>1. /\ TypeOK /\ OneCallInv(k) /\ phase[k] = "download" /\ pool[k].waitAll = "waiting"
      /\ step' = [step EXCEPT ![k] = [c \in Changesets |->
                     IF c \in Started(pool[k]) THEN "exists" ELSE step[k][c]]]
      /\ UNCHANGED <<overlap, late, present, chunks, unwritten, phase, attempt, position,
                     linked>>
  BY DEF CallInv, ResumeWaitAll, TurnQueue, worldVars, fileVars, streamVars
<1>2. /\ pool[k] \in Queues(Changesets) /\ WellFormed(pool[k])
      /\ Queued(pool[k]) = {c \in Changesets : step[k][c] = "queued"}
  BY <1>1 DEF TypeOK, OneCallInv, QueueInv
<1>3. \A c \in Changesets : c \in Started(pool[k]) => step[k][c] = "queued"
  BY <1>2, LoopMovesItems
<1>4. /\ \A j \in Calls : j # k => step'[j] = step[j]
      /\ \A c \in Changesets : \/ step'[k][c] = step[k][c]
                               \/ step'[k][c] = "exists" /\ step[k][c] = "queued"
  BY <1>1, <1>3 DEF TypeOK
<1> QED
  BY <1>1, <1>4, QuietCall DEF Live, Undecided

LEMMA PhaseStepQuiet ==
    ASSUME CallInv, NEW k \in Calls,
           FetchFails(k) \/ WaitAllThrows(k) \/ PageDone(k) \/ Abort(k)
    PROVE  FilesUntouched
<1>1. CASE Abort(k)
  <2>1. UNCHANGED <<overlap, late, present, chunks, unwritten, phase, step, attempt, position,
                    linked>>
    BY <1>1 DEF Abort, worldVars, fileVars, streamVars
  <2> QED
    BY <2>1 DEF FilesUntouched, CallMoves, PhaseMove, Active, Running, QuietMove
<1>2. CASE FetchFails(k) \/ WaitAllThrows(k) \/ PageDone(k)
  <2>1. /\ TypeOK /\ phase[k] \in Live
        /\ \E v \in {"fetch", "fulfilled", "rejected"} : phase' = [phase EXCEPT ![k] = v]
        /\ UNCHANGED <<overlap, late, present, chunks, unwritten, step, attempt, position,
                       linked>>
    BY <1>2 DEF CallInv, FetchFails, WaitAllThrows, PageDone, worldVars, fileVars, streamVars,
                Live, Scanning
  <2>2. phase'[k] # "idle" /\ \A j \in Calls : j # k => phase'[j] = phase[j]
    BY <2>1 DEF TypeOK
  <2> QED
    BY <2>1, <2>2, QuietCall
<1> QED
  BY <1>1, <1>2

LEMMA PushQuiet == ASSUME PushChangeset PROVE FilesUntouched
<1>1. UNCHANGED <<overlap, late, present, chunks, unwritten, phase, step, attempt, position,
                  linked>>
  BY DEF PushChangeset, fileVars, streamVars
<1> QED
  BY <1>1 DEF FilesUntouched, CallMoves, PhaseMove, Active, Running, QuietMove

LEMMA CrashQuiet == ASSUME CallInv, Crash PROVE FilesUntouched
<1>1. /\ TypeOK
      /\ \A k \in Calls : phase'[k] = IF phase[k] \in Live THEN "crashed" ELSE phase[k]
      /\ \A k \in Calls, c \in Changesets :
            /\ step'[k][c] = IF Running(k, c) \/ step[k][c] = "queued" THEN "none"
                                                                       ELSE step[k][c]
            /\ linked'[k][c] = FALSE
            /\ ~Writing(k, c)'
      /\ UNCHANGED <<overlap, late, present, chunks, attempt, position>>
  BY DEF CallInv, Crash, worldVars, Writing, NothingUnwritten
<1>2. \A k \in Calls : PhaseMove(k) /\ ~Active(k)'
  BY <1>1 DEF PhaseMove, Active, Running, Waiting, Live, Scanning
<1> QED
  BY <1>1, <1>2 DEF FilesUntouched, CallMoves, QuietMove, Running, Waiting
\* A call begins when all before it are settled: without downloads left running,
\* it is alone.
LEMMA BeginFiles == ASSUME CallInv, FileInv, NEW k \in Calls, Begin(k) PROVE FileInv'
<1>1. /\ TypeOK /\ phase[k] = "idle"
      /\ \A j \in 1..(k - 1) : phase[j] \in SettledPhases
      /\ overlap' = (overlap \/ \E j \in Calls, c \in Changesets :
                                  Running(j, c) \/ Writing(j, c))
      /\ phase' = [phase EXCEPT ![k] = IF Kind[k] = "list" /\ WithProgress[k]
                                       THEN "scanFetch" ELSE "fetch"]
      /\ UNCHANGED <<late, present, chunks, unwritten, step, attempt, position, linked>>
  BY DEF CallInv, Begin, fileVars, streamVars
<1>2. /\ phase'[k] \in {"scanFetch", "fetch"}
      /\ \A j \in Calls : j # k => phase'[j] = phase[j]
  BY <1>1 DEF TypeOK
<1>3. \A j \in Calls : IF j < k THEN phase[j] \in SettledPhases ELSE phase[j] = "idle"
  BY <1>1 DEF FileInv, OrderInv, Calls, SettledPhases
<1>4. \A j \in Calls : phase'[j] \in Live => j = k
  BY <1>2, <1>3 DEF Live, Scanning, SettledPhases
<1>5. OrderInv'
  BY <1>2, <1>3 DEF OrderInv, Calls, SettledPhases
<1>6. \A j \in Calls, c \in Changesets : QuietMove(j, c)
  BY <1>1 DEF QuietMove
<1>7. ASSUME ~overlap'
      PROVE  CallsApart'
  <2>1. CallsApart /\ \A j \in Calls, c \in Changesets : ~Running(j, c) /\ ~Writing(j, c)
    BY <1>1, <1>7 DEF FileInv
  <2>2. AloneInv'
    BY <1>1, <1>4, <2>1 DEF AloneInv, Busy, Active, Running, Writing
  <2>3. \A j \in Calls, c \in Changesets : ApartInv(j, c)'
    BY <1>1, <1>6, <2>1, QuietApart DEF CallsApart
  <2> QED
    BY <2>2, <2>3 DEF CallsApart
<1>8. ASSUME ~overlap', ~late'
      PROVE  DownloadsInv'
  <2>1. DownloadsInv
    BY <1>1, <1>8 DEF FileInv
  <2>2. AloneInv'
    BY <1>7, <1>8 DEF CallsApart
  <2>3. \A c \in Changesets : PrefixInv(c)'
    BY <1>1, <2>1 DEF DownloadsInv, PrefixInv
  <2>5. \A j \in Calls, c \in Changesets : StreamInv(j, c)'
    BY <1>1, <1>6, <2>1, QuietStreams DEF DownloadsInv
  <2>6. \A j \in Calls, c \in Changesets : AcceptedInv(j, c)'
    BY <1>1, <2>1 DEF DownloadsInv, AcceptedInv, Complete, SizeMatches
  <2> QED
    BY <2>2, <2>3, <2>5, <2>6 DEF DownloadsInv
<1> QED
  BY <1>5, <1>7, <1>8 DEF FileInv
-------------------------------------------------------------------------------
(* The look at the file.                                                   *)

\* A download that looks at its file gets to v; a scan may go on to the next one.
LookEnds(k, c, v) ==
    /\ CallMoves
    /\ \A j \in Calls : j # k => step'[j] = step[j]
    /\ \A d \in Changesets :
          d # c => \/ step'[k][d] = step[k][d]
                   \/ step'[k][d] = "exists" /\ step[k][d] = "none"
    /\ step'[k][c] = v

LEMMA SettleMoves ==
    ASSUME CallInv, NEW k \in Calls, NEW c \in Changesets, Running(k, c),
           phase[k] # "scan", NEW outcome \in {"fulfilled", "rejected"},
           Settle(k, c, outcome)
    PROVE  /\ CallMoves
           /\ \A j \in Calls : j # k => step'[j] = step[j]
           /\ \A d \in Changesets : d # c => step'[k][d] = step[k][d]
           /\ step'[k][c] = IF outcome = "fulfilled" THEN "done" ELSE "failed"
<1>1. TypeOK /\ OneCallInv(k)
  BY DEF CallInv
<1>2. /\ \A d \in Changesets :
            step'[k][d] = IF d # c THEN step[k][d]
                          ELSE IF outcome = "fulfilled" THEN "done" ELSE "failed"
      /\ \A j \in Calls : j # k => phase'[j] = phase[j] /\ step'[j] = step[j]
  BY <1>1, SettleOneCall
<1>3. PhaseMove(k)
  <2>1. CASE Kind[k] = "single"
    <3>1. phase[k] = "download" /\ phase' = [phase EXCEPT ![k] = outcome]
      BY <1>1, <2>1 DEF OneCallInv, PhaseInv, Settle
    <3> QED
      BY <1>1, <3>1 DEF TypeOK, PhaseMove, Live
  <2>2. CASE Kind[k] # "single"
    BY <2>2 DEF Settle, PhaseMove
  <2> QED
    BY <2>1, <2>2
<1>4. CallMoves
  BY <1>2, <1>3, OneCallMoves DEF Active
<1> QED
  BY <1>2, <1>4

LEMMA ScannedMoves ==
    ASSUME CallInv, NEW k \in Calls, NEW c \in Changesets, step[k][c] \in LookSteps,
           phase[k] = "scan", NEW bytes, Scanned(k, c, bytes)
    PROVE  /\ CallMoves
           /\ \A j \in Calls : j # k => step'[j] = step[j]
           /\ \A d \in Changesets :
                 d # c => \/ step'[k][d] = step[k][d]
                          \/ step'[k][d] = "exists" /\ step[k][d] = "none"
           /\ step'[k][c] = "none"
<1>1. /\ TypeOK /\ OneCallInv(k) /\ Running(k, c)
      /\ \A d \in Changesets : d # c => step[k][d] = "none"
  BY DEF CallInv, OneCallInv, PhaseInv, Running, Waiting, LookSteps
<1>2. /\ PhaseMove(k)
      /\ \A j \in Calls : j # k => phase'[j] = phase[j]
  BY <1>1 DEF Scanned, PhaseMove, TypeOK, Live, Scanning
<1>3. \/ step' = [step EXCEPT ![k][c] = "none", ![k][c + 1] = "exists"]
      \/ step' = [step EXCEPT ![k][c] = "none"]
  BY DEF Scanned
<1>4. c \in Int /\ c + 1 # c
  BY DEF Changesets
<1>5. /\ step'[k][c] = "none"
      /\ \A d \in Changesets : d # c => step'[k][d] \in {"none", "exists"}
      /\ \A j \in Calls : j # k => step'[j] = step[j]
  BY <1>1, <1>3, <1>4 DEF TypeOK
<1>6. CallMoves
  BY <1>1, <1>2, <1>5, OneCallMoves DEF Active
<1> QED
  BY <1>1, <1>5, <1>6
LEMMA LookEndings ==
    ASSUME CallInv, NEW k \in Calls, NEW c \in Changesets, step[k][c] \in LookSteps
    PROVE  /\ AlreadyDownloaded(k, c) => \E v \in {"none", "done"} : LookEnds(k, c, v)
           /\ NotDownloaded(k, c) => \E v \in {"none", "failed", "link"} : LookEnds(k, c, v)
           /\ CheckThrows(k, c) => \E v \in {"none", "failed"} : LookEnds(k, c, v)
<1>1. TypeOK /\ Running(k, c)
  BY DEF CallInv, Running, Waiting, LookSteps
<1>2. ASSUME NEW v \in StepNames, step' = [step EXCEPT ![k][c] = v], PhaseMove(k),
             \A j \in Calls : j # k => phase'[j] = phase[j]
      PROVE  LookEnds(k, c, v)
  <2>1. /\ \A d \in Changesets : step'[k][d] = IF d = c THEN v ELSE step[k][d]
        /\ \A j \in Calls : j # k => step'[j] = step[j]
    BY <1>1, <1>2, StepChange
  <2>2. CallMoves
    BY <1>1, <1>2, <2>1, OneCallMoves DEF Active
  <2> QED
    BY <2>1, <2>2 DEF LookEnds
<1>3. ASSUME NEW outcome \in {"fulfilled", "rejected"}, phase[k] # "scan",
             Settle(k, c, outcome)
      PROVE  LookEnds(k, c, IF outcome = "fulfilled" THEN "done" ELSE "failed")
  BY <1>1, <1>3, SettleMoves DEF LookEnds
<1>4. ASSUME NEW bytes, phase[k] = "scan", Scanned(k, c, bytes)
      PROVE  LookEnds(k, c, "none")
  BY <1>4, ScannedMoves DEF LookEnds
<1>5. ASSUME AlreadyDownloaded(k, c)
      PROVE  \E v \in {"none", "done"} : LookEnds(k, c, v)
  BY <1>3, <1>4, <1>5 DEF AlreadyDownloaded
<1>6. ASSUME NotDownloaded(k, c)
      PROVE  \E v \in {"none", "failed", "link"} : LookEnds(k, c, v)
  <2>1. CASE step' = [step EXCEPT ![k][c] = "link"] /\ phase' = phase
    <3>1. "link" \in StepNames /\ PhaseMove(k)
      BY <2>1 DEF StepNames, Waiting, PhaseMove
    <3> QED
      BY <1>2, <2>1, <3>1
  <2> QED
    BY <1>3, <1>4, <1>6, <2>1 DEF NotDownloaded
<1>7. ASSUME CheckThrows(k, c)
      PROVE  \E v \in {"none", "failed"} : LookEnds(k, c, v)
  <2>1. CASE phase[k] = "scan"
    <3>1. /\ step' = [step EXCEPT ![k][c] = "none"] /\ "none" \in StepNames
          /\ phase' = [phase EXCEPT ![k] = "rejected"]
      BY <1>7, <2>1 DEF CheckThrows, StepNames
    <3>2. PhaseMove(k) /\ \A j \in Calls : j # k => phase'[j] = phase[j]
      BY <1>1, <2>1, <3>1 DEF TypeOK, PhaseMove, Live, Scanning
    <3> QED
      BY <1>2, <3>1, <3>2
  <2>2. CASE phase[k] # "scan"
    BY <1>3, <1>7, <2>2 DEF CheckThrows
  <2> QED
    BY <2>1, <2>2
<1> QED
  BY <1>5, <1>6, <1>7

\* What a look must have found to get to v.
LEMMA LookFiles ==
    ASSUME DownloadsInv, NEW k \in Calls, NEW c \in Changesets, step[k][c] \in LookSteps,
           NEW v \in {"none", "failed", "size", "delete", "done", "link"}, LookEnds(k, c, v),
           attempt' = attempt, position' = position,
           \A d \in Changesets : d # c => present'[d] = present[d] /\ chunks'[d] = chunks[d],
           \A j \in Calls, d \in Changesets :
              IF d = c THEN linked'[j][d] => linked[j][d] ELSE linked'[j][d] = linked[j][d],
           \A j \in Calls, d \in Changesets :
              IF d = c THEN Writing(j, d)' => Writing(j, d)
                       ELSE unwritten'[j][d] = unwritten[j][d],
           linked'[k][c] \in BOOLEAN,
           PrefixInv(c)',
           Complete(c) => Complete(c)',
           v = "done" => Complete(c)',
           v = "delete" => ~Complete(c)',
           v = "link" => ~Complete(c) /\ ~SizeMatches(c)'
    PROVE  DownloadsInv'
<1>1. Running(k, c) /\ ~linked[k][c] /\ ~Writing(k, c)
  BY DEF Running, Waiting, LookSteps, DownloadsInv, StreamInv, WritingInv, TransferSteps
<1>2. \A j \in Calls, d \in Changesets : d # c => QuietMove(j, d)
  BY DEF LookEnds, QuietMove, Undecided
<1>3. \A j \in Calls : step[j][c] = "done" => Complete(c)
  BY DEF DownloadsInv, AcceptedInv
<1>4. \A j \in Calls : j # k => step'[j][c] = step[j][c]
  BY DEF LookEnds
<1>5. StreamInv(k, c)'
  BY <1>1 DEF StreamInv, WritingInv, LookEnds
<1>6. AcceptedInv(k, c)'
  BY <1>3, <1>4 DEF AcceptedInv, LookEnds, TransferSteps
<1> QED
  <2>1. \A j \in Calls : step'[j][c] = "done" => Complete(c)'
    BY <1>3, <1>4 DEF LookEnds
  <2>2. \A j \in Calls : j # k =>
           /\ step'[j][c] = step[j][c] /\ attempt'[j][c] = attempt[j][c]
           /\ linked'[j][c] => linked[j][c]
           /\ Writing(j, c)' => Writing(j, c)
    BY <1>4
  <2>3. \A j \in Calls : Active(j)' => Active(j)
    BY DEF LookEnds, CallMoves
  <2> QED
    BY <1>1, <1>2, <1>5, <1>6, <2>1, <2>2, <2>3, WorkFiles
\* A step keeps what is known of files and downloads.
Keeps == /\ overlap' = overlap /\ (late => late')
         /\ CallMoves
         /\ CallsApart => CallsApart'
         /\ DownloadsInv /\ ~late' => DownloadsInv'

\* What a look must have found to get to v: one that is to replace the file.
LEMMA LookApart ==
    ASSUME CallsApart, NEW k \in Calls, NEW c \in Changesets, step[k][c] \in LookSteps,
           NEW v \in {"none", "failed", "size", "delete", "done", "link"}, LookEnds(k, c, v),
           attempt' = attempt, position' = position,
           \A d \in Changesets : d # c => present'[d] = present[d] /\ chunks'[d] = chunks[d],
           \A j \in Calls, d \in Changesets : d # c => linked'[j][d] = linked[j][d],
           \A j \in Calls, d \in Changesets :
              IF d = c THEN Writing(j, d)' => Writing(j, d)
                       ELSE unwritten'[j][d] = unwritten[j][d],
           v \in {"delete", "link"} => ~SizeMatches(c)'
    PROVE  CallsApart'
<1>1. Running(k, c) /\ ~Writing(k, c)
  BY DEF Running, Waiting, LookSteps, CallsApart, ApartInv, Undecided
<1>2. \A j \in Calls, d \in Changesets : d # c => QuietMove(j, d)
  BY DEF LookEnds, QuietMove, Undecided
<1>3. \A j \in Calls : j # k =>
         step'[j][c] = step[j][c] /\ (Writing(j, c)' => Writing(j, c))
  BY DEF LookEnds
<1>4. ApartInv(k, c)'
  BY <1>1 DEF ApartInv, LookEnds
<1>5. \A j \in Calls : Active(j)' => Active(j)
  BY DEF LookEnds, CallMoves
<1> QED
  BY <1>1, <1>2, <1>3, <1>4, <1>5, WorkApart

LEMMA FileExistsFiles ==
    ASSUME CallInv, NEW k \in Calls, NEW c \in Changesets, FileExists(k, c) PROVE Keeps
<1>1. /\ TypeOK /\ step[k][c] \in LookSteps
      /\ UNCHANGED <<overlap, late, present, chunks, unwritten, linked, attempt, position>>
  BY DEF CallInv, FileExists, LookSteps, worldVars, fileVars, streamVars
<1>2. \E v \in {"none", "failed", "size", "link"} :
          LookEnds(k, c, v) /\ (v = "link" => ~present[c])
  <2>1. CASE present[c]
    <3>1. step' = [step EXCEPT ![k][c] = "size"] /\ phase' = phase
      BY <2>1 DEF FileExists
    <3>2. LookEnds(k, c, "size")
      <4>1. /\ \A d \in Changesets : step'[k][d] = IF d = c THEN "size" ELSE step[k][d]
            /\ \A j \in Calls : j # k => step'[j] = step[j]
        BY <1>1, <3>1 DEF TypeOK
      <4>2. CallMoves
        BY <1>1, <3>1, <4>1, OneCallMoves DEF Active, Running, LookSteps, Waiting, PhaseMove
      <4> QED
        BY <4>1, <4>2 DEF LookEnds
    <3> QED
      BY <3>2
  <2>2. CASE ~present[c]
    BY <1>1, <2>2, LookEndings DEF FileExists
  <2> QED
    BY <2>1, <2>2
<1>3. PICK v \in {"none", "failed", "size", "link"} :
          LookEnds(k, c, v) /\ (v = "link" => ~present[c])
  BY <1>2
<1>4. ASSUME DownloadsInv
      PROVE  DownloadsInv'
  <2>0. \A j \in Calls, d \in Changesets :
           IF d = c THEN Writing(j, d)' => Writing(j, d) ELSE unwritten'[j][d] = unwritten[j][d]
    BY <1>1 DEF Writing
  <2>1. /\ linked'[k][c] \in BOOLEAN /\ PrefixInv(c)' /\ (Complete(c) => Complete(c)')
        /\ v = "link" => ~Complete(c) /\ ~SizeMatches(c)'
    BY <1>1, <1>3, <1>4 DEF TypeOK, DownloadsInv, PrefixInv, Complete, SizeMatches
  <2> QED
    BY <1>1, <1>3, <1>4, <2>0, <2>1, LookFiles
<1>5. ASSUME CallsApart
      PROVE  CallsApart'
  <2>1. /\ \A j \in Calls, d \in Changesets :
              IF d = c THEN Writing(j, d)' => Writing(j, d)
                       ELSE unwritten'[j][d] = unwritten[j][d]
        /\ v \in {"delete", "link"} => ~SizeMatches(c)'
    BY <1>1, <1>3 DEF Writing, SizeMatches
  <2> QED
    BY <1>1, <1>3, <1>5, <2>1, LookApart
<1> QED
  BY <1>1, <1>3, <1>4, <1>5 DEF Keeps, LookEnds

\* The length of a file written from its beginning tells whether it is whole.
LEMMA SizeOfPrefix ==
    ASSUME TypeOK, NEW c \in Changesets, PrefixInv(c)
    PROVE  SizeMatches(c) <=> Complete(c)
<1>1. FileSize[c] \in Nat \ {0}
  BY DownloadAssumption
<1>2. PICK m \in 0..FileSize[c] : chunks[c] = 1..m
  BY DEF PrefixInv
<1>3. FileSize[c] \in chunks[c] <=> m = FileSize[c]
  BY <1>1, <1>2
<1>4. chunks[c] = 1..FileSize[c] => FileSize[c] \in chunks[c]
  BY <1>1
<1> QED
  BY <1>2, <1>3, <1>4 DEF SizeMatches, Complete

LEMMA GetFileSizeFiles ==
    ASSUME CallInv, NEW k \in Calls, NEW c \in Changesets, GetFileSize(k, c) PROVE Keeps
<1>1. /\ TypeOK /\ step[k][c] \in LookSteps
      /\ UNCHANGED <<overlap, late, present, chunks, unwritten, linked, attempt, position>>
  BY DEF CallInv, GetFileSize, LookSteps, worldVars, fileVars, streamVars
<1>2. \E v \in {"none", "failed", "done", "delete"} :
          /\ LookEnds(k, c, v)
          /\ v = "done" => SizeMatches(c)
          /\ v = "delete" => ~SizeMatches(c)
  <2>1. CASE CheckThrows(k, c)
    BY <1>1, <2>1, LookEndings
  <2>2. CASE SizeMatches(c) /\ AlreadyDownloaded(k, c)
    BY <1>1, <2>2, LookEndings
  <2>3. CASE /\ ~SizeMatches(c)
             /\ step' = [step EXCEPT ![k][c] = "delete"] /\ phase' = phase
    <3>1. /\ \A d \in Changesets : step'[k][d] = IF d = c THEN "delete" ELSE step[k][d]
          /\ \A j \in Calls : j # k => step'[j] = step[j]
      BY <1>1, <2>3 DEF TypeOK
    <3>2. CallMoves
      BY <1>1, <2>3, <3>1, OneCallMoves DEF Active, Running, LookSteps, Waiting, PhaseMove
    <3> QED
      BY <2>3, <3>1, <3>2 DEF LookEnds
  <2> QED
    BY <2>1, <2>2, <2>3 DEF GetFileSize
<1>3. PICK v \in {"none", "failed", "done", "delete"} :
          /\ LookEnds(k, c, v)
          /\ v = "done" => SizeMatches(c)
          /\ v = "delete" => ~SizeMatches(c)
  BY <1>2
<1>4. ASSUME DownloadsInv
      PROVE  DownloadsInv'
  <2>0. \A j \in Calls, d \in Changesets :
           IF d = c THEN Writing(j, d)' => Writing(j, d) ELSE unwritten'[j][d] = unwritten[j][d]
    BY <1>1 DEF Writing
  <2>1. PrefixInv(c) /\ (SizeMatches(c) <=> Complete(c))
    BY <1>1, <1>4, SizeOfPrefix DEF DownloadsInv
  <2>2. /\ linked'[k][c] \in BOOLEAN /\ PrefixInv(c)' /\ (Complete(c)' <=> Complete(c))
        /\ v = "done" => Complete(c)'
        /\ v = "delete" => ~Complete(c)'
    <3>1. linked'[k][c] \in BOOLEAN
      BY <1>1 DEF TypeOK
    <3>2. PrefixInv(c)' /\ (Complete(c)' <=> Complete(c))
      BY <1>1, <2>1 DEF PrefixInv, Complete
    <3> QED
      BY <1>3, <2>1, <3>1, <3>2
  <2> QED
    BY <1>1, <1>3, <1>4, <2>0, <2>2, LookFiles
<1>5. ASSUME CallsApart
      PROVE  CallsApart'
  <2>1. /\ \A j \in Calls, d \in Changesets :
              IF d = c THEN Writing(j, d)' => Writing(j, d)
                       ELSE unwritten'[j][d] = unwritten[j][d]
        /\ v \in {"delete", "link"} => ~SizeMatches(c)'
    BY <1>1, <1>3 DEF Writing, SizeMatches
  <2> QED
    BY <1>1, <1>3, <1>5, <2>1, LookApart
<1> QED
  BY <1>1, <1>3, <1>4, <1>5 DEF Keeps, LookEnds

LEMMA DeleteFileFiles ==
    ASSUME CallInv, NEW k \in Calls, NEW c \in Changesets, DeleteFile(k, c) PROVE Keeps
<1>1. /\ TypeOK /\ step[k][c] = "delete" /\ step[k][c] \in LookSteps
      /\ UNCHANGED <<overlap, late, attempt, position>>
      /\ \/ /\ present' = [present EXCEPT ![c] = FALSE]
            /\ chunks' = [chunks EXCEPT ![c] = {}]
            /\ unwritten' = [j \in Calls |->
                               [unwritten[j] EXCEPT ![c] = NothingUnwritten[c]]]
            /\ linked' = [j \in Calls |-> [linked[j] EXCEPT ![c] = FALSE]]
            /\ NotDownloaded(k, c)
         \/ CheckThrows(k, c) /\ UNCHANGED <<present, chunks, unwritten, linked>>
  BY DEF CallInv, DeleteFile, LookSteps, worldVars, fileVars
<1>2. CASE CheckThrows(k, c) /\ UNCHANGED <<present, chunks, unwritten, linked>>
  <2>1. PICK v \in {"none", "failed"} : LookEnds(k, c, v)
    BY <1>1, <1>2, LookEndings
  <2>1a. \A j \in Calls, d \in Changesets :
            IF d = c THEN Writing(j, d)' => Writing(j, d)
                     ELSE unwritten'[j][d] = unwritten[j][d]
    BY <1>2 DEF Writing
  <2>2. ASSUME DownloadsInv
        PROVE  DownloadsInv'
    <3>1. linked'[k][c] \in BOOLEAN /\ PrefixInv(c)' /\ (Complete(c) => Complete(c)')
      BY <1>1, <1>2, <2>2 DEF TypeOK, DownloadsInv, PrefixInv, Complete
    <3> QED
      BY <1>1, <1>2, <2>1, <2>1a, <2>2, <3>1, LookFiles
  <2>3. ASSUME CallsApart
        PROVE  CallsApart'
    BY <1>1, <1>2, <2>1, <2>1a, <2>3, LookApart
  <2> QED
    BY <1>1, <2>1, <2>2, <2>3 DEF Keeps, LookEnds
<1>3. CASE /\ present' = [present EXCEPT ![c] = FALSE]
           /\ chunks' = [chunks EXCEPT ![c] = {}]
           /\ unwritten' = [j \in Calls |->
                              [unwritten[j] EXCEPT ![c] = NothingUnwritten[c]]]
           /\ linked' = [j \in Calls |-> [linked[j] EXCEPT ![c] = FALSE]]
           /\ NotDownloaded(k, c)
  <2>1. PICK v \in {"none", "failed", "link"} : LookEnds(k, c, v)
    BY <1>1, <1>3, LookEndings
  <2>2. /\ \A d \in Changesets : d # c => present'[d] = present[d] /\ chunks'[d] = chunks[d]
        /\ \A j \in Calls, d \in Changesets :
              linked'[j][d] = IF d = c THEN FALSE ELSE linked[j][d]
        /\ present'[c] = FALSE /\ chunks'[c] = {}
    BY <1>1, <1>3 DEF TypeOK
  <2>3. PrefixInv(c)' /\ ~SizeMatches(c)'
    <3>1. 0 \in 0..FileSize[c] /\ {} = 1..0
      BY DownloadAssumption
    <3> QED
      BY <2>2, <3>1 DEF PrefixInv, SizeMatches
  <2>3a. \A j \in Calls, d \in Changesets :
            IF d = c THEN Writing(j, d)' => Writing(j, d)
                     ELSE unwritten'[j][d] = unwritten[j][d]
    <3>1. UnwrittenTypes
      BY <1>1 DEF TypeOK, UnwrittenTypes
    <3>2. \A j \in Calls, d \in Changesets :
             IF d = c THEN unwritten'[j][d] = NothingUnwritten[c]
                      ELSE unwritten'[j][d] = unwritten[j][d]
      BY <1>3, <3>1 DEF UnwrittenTypes
    <3>3. \A h \in Attempts : NothingUnwritten[c][h] = {}
      BY DEF NothingUnwritten
    <3> QED
      BY <3>2, <3>3 DEF Writing
  <2>4. ASSUME DownloadsInv
        PROVE  DownloadsInv'
    <3>1. ~Complete(c)
      BY <1>1, <2>4 DEF DownloadsInv, AcceptedInv
    <3>2. linked'[k][c] \in BOOLEAN
      BY <2>2
    <3> QED
      BY <1>1, <2>1, <2>2, <2>3, <2>3a, <2>4, <3>1, <3>2, LookFiles
  <2>5. ASSUME CallsApart
        PROVE  CallsApart'
    <3>1. /\ \A d \in Changesets : d # c => linked'[k][d] = linked[k][d]
          /\ \A j \in Calls, d \in Changesets : d # c => linked'[j][d] = linked[j][d]
      BY <2>2
    <3>2. v \in {"delete", "link"} => ~SizeMatches(c)'
      BY <2>3
    <3> QED
      BY <1>1, <2>1, <2>2, <2>3a, <2>5, <3>1, <3>2, LookApart
  <2> QED
    BY <1>1, <2>1, <2>4, <2>5 DEF Keeps, LookEnds
<1> QED
  BY <1>1, <1>2, <1>3
-------------------------------------------------------------------------------
(* The attempts.                                                           *)

\* A download in transfer gets to v and nothing else of the calls changes.
TransferEnds(k, c, v) ==
    /\ CallMoves
    /\ step'[k][c] = v
    /\ \A j \in Calls : j # k => /\ step'[j] = step[j] /\ attempt'[j] = attempt[j]
                                 /\ position'[j] = position[j] /\ linked'[j] = linked[j]
                                 /\ unwritten'[j] = unwritten[j]
    /\ \A d \in Changesets :
          d # c => /\ step'[k][d] = step[k][d] /\ attempt'[k][d] = attempt[k][d]
                   /\ position'[k][d] = position[k][d] /\ linked'[k][d] = linked[k][d]
                   /\ unwritten'[k][d] = unwritten[k][d]

LEMMA TransferFiles ==
    ASSUME DownloadsInv, NEW k \in Calls, NEW c \in Changesets, step[k][c] \in TransferSteps,
           NEW v \in TransferSteps \union {"done", "failed"}, TransferEnds(k, c, v),
           \A d \in Changesets : d # c => present'[d] = present[d] /\ chunks'[d] = chunks[d],
           PrefixInv(c)', StreamInv(k, c)',
           v = "done" => Complete(c)',
           v = "link" => attempt'[k][c] # 0
    PROVE  DownloadsInv'
<1>1. Running(k, c) /\ \A j \in Calls : step[j][c] # "done"
  BY DEF Running, Waiting, TransferSteps, DownloadsInv, AcceptedInv
<1>2. \A j \in Calls, d \in Changesets : d # c => QuietMove(j, d)
  BY DEF TransferEnds, QuietMove
<1>3. \A j \in Calls : j # k =>
         /\ step'[j][c] = step[j][c] /\ attempt'[j][c] = attempt[j][c]
         /\ linked'[j][c] => linked[j][c]
         /\ Writing(j, c)' => Writing(j, c)
  BY DEF TransferEnds, Writing
<1>4. \A j \in Calls : step'[j][c] = "done" => j = k /\ v = "done"
  BY <1>1, <1>3 DEF TransferEnds
<1>5. \A j \in Calls : step'[j][c] = "done" => Complete(c)'
  BY <1>4
<1>6. AcceptedInv(k, c)'
  BY <1>4 DEF AcceptedInv, TransferEnds, TransferSteps
<1>7. \A j \in Calls : Active(j)' => Active(j)
  BY DEF TransferEnds, CallMoves
<1> QED
  BY <1>1, <1>2, <1>3, <1>5, <1>6, <1>7, WorkFiles

LEMMA TransferApart ==
    ASSUME CallsApart, NEW k \in Calls, NEW c \in Changesets, step[k][c] \in TransferSteps,
           NEW v \in TransferSteps \union {"done", "failed"}, TransferEnds(k, c, v),
           \A d \in Changesets : d # c => present'[d] = present[d] /\ chunks'[d] = chunks[d],
           v = "link" => attempt'[k][c] # 0,
           v \in {"request", "stream"} => position'[k][c] <= FileSize[c]
    PROVE  CallsApart'
<1>1. Running(k, c)
  BY DEF Running, Waiting, TransferSteps
<1>2. \A j \in Calls, d \in Changesets : d # c => QuietMove(j, d)
  BY DEF TransferEnds, QuietMove
<1>3. \A j \in Calls : j # k =>
         step'[j][c] = step[j][c] /\ (Writing(j, c)' => Writing(j, c))
  BY DEF TransferEnds, Writing
<1>4. ApartInv(k, c)'
  BY DEF ApartInv, TransferEnds, TransferSteps, Undecided
<1>5. \A j \in Calls : Active(j)' => Active(j)
  BY DEF TransferEnds, CallMoves
<1> QED
  BY <1>1, <1>2, <1>3, <1>4, <1>5, WorkApart

LEMMA StepMoves ==
    ASSUME CallInv, NEW k \in Calls, NEW c \in Changesets, step[k][c] \in TransferSteps,
           NEW v \in StepNames, step' = [step EXCEPT ![k][c] = v], phase' = phase
    PROVE  /\ CallMoves
           /\ \A j \in Calls : j # k => step'[j] = step[j]
           /\ \A d \in Changesets : step'[k][d] = IF d = c THEN v ELSE step[k][d]
<1>1. TypeOK /\ Active(k) /\ PhaseMove(k)
  BY DEF CallInv, Active, Running, Waiting, TransferSteps, PhaseMove
<1>2. /\ \A j \in Calls : j # k => step'[j] = step[j]
      /\ \A d \in Changesets : step'[k][d] = IF d = c THEN v ELSE step[k][d]
  BY <1>1, StepChange
<1> QED
  BY <1>1, <1>2, OneCallMoves

\* Attempts that have something to write are attempts there were.
LEMMA OneAttempt ==
    ASSUME CallInv, NEW k \in Calls, NEW c \in Changesets, step[k][c] \in TransferSteps
    PROVE  attempt[k][c] \in Attempts
BY TransferFacts, DownloadAssumption DEF TypeOK, Attempts

LEMMA OpenTargetFiles ==
    ASSUME CallInv, NEW k \in Calls, NEW c \in Changesets, OpenTarget(k, c) PROVE Keeps
<1>1. /\ step[k][c] = "link" /\ step[k][c] \in TransferSteps
      /\ present' = [present EXCEPT ![c] = TRUE]
      /\ chunks' = [chunks EXCEPT ![c] = {}]
      /\ linked' = [linked EXCEPT ![k][c] = TRUE]
      /\ step' = [step EXCEPT ![k][c] = "request"]
      /\ late' = (late \/ \E j \in Calls : Writing(j, c))
      /\ UNCHANGED <<overlap, unwritten, phase, attempt, position>>
  BY DEF OpenTarget, Opened, TransferSteps
<1>2. TypeOK /\ position[k][c] = 0 /\ FileSize[c] \in Nat /\ attempt[k][c] \in Attempts
  BY <1>1, TransferFacts, OneAttempt DEF OneCallInv, AttemptsInv
<1>3. "request" \in StepNames /\ "request" \in TransferSteps
  BY DEF StepNames, Waiting, TransferSteps
<1>4. TransferEnds(k, c, "request")
  <2>1. /\ CallMoves
        /\ \A j \in Calls : j # k => step'[j] = step[j]
        /\ \A d \in Changesets : step'[k][d] = IF d = c THEN "request" ELSE step[k][d]
    BY <1>1, <1>3, StepMoves
  <2>2. /\ \A j \in Calls : j # k => linked'[j] = linked[j]
        /\ \A d \in Changesets : d # c => linked'[k][d] = linked[k][d]
    BY <1>1, <1>2 DEF TypeOK
  <2> QED
    BY <1>1, <2>1, <2>2 DEF TransferEnds
<1>5. /\ \A d \in Changesets : d # c => present'[d] = present[d] /\ chunks'[d] = chunks[d]
      /\ present'[c] = TRUE /\ chunks'[c] = {} /\ linked'[k][c] = TRUE
  BY <1>1, <1>2 DEF TypeOK
<1>6. {} = 1..0 /\ {} = (0 + 1)..0 /\ 0 \in 0..0 /\ 0 \in 0..FileSize[c] /\ 0 <= FileSize[c]
  BY <1>2
<1>7. ASSUME DownloadsInv, ~late'
      PROVE  DownloadsInv'
  <2>1. \A h \in Attempts : unwritten'[k][c][h] = {}
    BY <1>1, <1>7 DEF Writing
  <2>2. OneWriter(k, c, attempt[k][c], position[k][c])'
    BY <1>1, <1>2, <1>5, <1>6, <2>1 DEF OneWriter
  <2>3. PrefixInv(c)'
    BY <1>5, <1>6 DEF PrefixInv
  <2>4. StreamInv(k, c)'
    BY <1>1, <1>2, <1>4, <1>5, <1>6, <2>1, <2>2 DEF StreamInv, WritingInv, Writing, TransferEnds
  <2> QED
    BY <1>1, <1>3, <1>4, <1>5, <1>7, <2>3, <2>4, TransferFiles
<1>8. ASSUME CallsApart
      PROVE  CallsApart'
  <2>1. position'[k][c] <= FileSize[c]
    BY <1>1, <1>2, <1>6
  <2> QED
    BY <1>1, <1>3, <1>4, <1>5, <1>8, <2>1, TransferApart
<1> QED
  BY <1>1, <1>4, <1>7, <1>8 DEF Keeps, TransferEnds

LEMMA StorageAnswersFiles ==
    ASSUME CallInv, NEW k \in Calls, NEW c \in Changesets, StorageAnswers(k, c) PROVE Keeps
<1>1. /\ step[k][c] = "request" /\ step[k][c] \in TransferSteps
      /\ step' = [step EXCEPT ![k][c] = "stream"]
      /\ UNCHANGED <<overlap, late, present, chunks, unwritten, phase, attempt, position,
                     linked>>
  BY DEF StorageAnswers, TransferSteps, worldVars, fileVars, streamVars
<1>2. "stream" \in StepNames /\ "stream" \in TransferSteps
  BY DEF StepNames, Waiting, TransferSteps
<1>3. TransferEnds(k, c, "stream")
  <2>1. /\ CallMoves
        /\ \A j \in Calls : j # k => step'[j] = step[j]
        /\ \A d \in Changesets : step'[k][d] = IF d = c THEN "stream" ELSE step[k][d]
    BY <1>1, <1>2, StepMoves
  <2> QED
    BY <1>1, <2>1 DEF TransferEnds
<1>4. ASSUME DownloadsInv
      PROVE  DownloadsInv'
  <2>1. PrefixInv(c) /\ StreamInv(k, c)
    BY <1>4 DEF DownloadsInv
  <2>2. PrefixInv(c)'
    BY <1>1, <2>1 DEF PrefixInv
  <2>3. /\ Writing(k, c)' => Writing(k, c)
        /\ \A i, m : OneWriter(k, c, i, m)' <=> OneWriter(k, c, i, m)
    BY <1>1 DEF Writing, OneWriter
  <2>4. WritingInv(k, c)'
    BY <1>1, <1>2, <1>3, <2>1, <2>3 DEF StreamInv, WritingInv, TransferEnds
  <2>5. StreamInv(k, c)'
    <3>1. OneWriter(k, c, attempt[k][c], position[k][c])'
      BY <1>1, <2>1 DEF StreamInv, OneWriter
    <3> QED
      BY <1>1, <1>3, <2>1, <2>4, <3>1 DEF StreamInv, TransferEnds
  <2> QED
    BY <1>1, <1>2, <1>3, <1>4, <2>2, <2>5, TransferFiles
<1>5. ASSUME CallsApart
      PROVE  CallsApart'
  <2>1. position'[k][c] <= FileSize[c]
    BY <1>1, <1>5 DEF CallsApart, ApartInv
  <2> QED
    BY <1>1, <1>2, <1>3, <1>5, <2>1, TransferApart
<1> QED
  BY <1>1, <1>3, <1>4, <1>5 DEF Keeps, TransferEnds

\* What one attempt's stream gets continues what it holds.
LEMMA OneMore ==
    ASSUME NEW k \in Calls, NEW c \in Changesets, NEW i \in Attempts, NEW m \in Nat,
           OneWriter(k, c, i, m), chunks' = chunks,
           unwritten'[k][c][i] = unwritten[k][c][i] \union {m + 1},
           \A h \in Attempts : h # i => unwritten'[k][c][h] = unwritten[k][c][h]
    PROVE  \E w \in 0..(m + 1) :
              /\ chunks'[c] = 1..w
              /\ unwritten'[k][c][i] = (w + 1)..(m + 1)
              /\ \A h \in Attempts : h # i => unwritten'[k][c][h] = {}
<1>1. PICK w \in 0..m : /\ chunks[c] = 1..w
                        /\ unwritten[k][c][i] = (w + 1)..m
                        /\ \A h \in Attempts : h # i => unwritten[k][c][h] = {}
  BY DEF OneWriter
<1>2. w \in 0..(m + 1)
  OBVIOUS
<1>3. (w + 1)..(m + 1) = ((w + 1)..m) \union {m + 1}
  OBVIOUS
<1> QED
  BY <1>1, <1>2, <1>3

LEMMA ReceiveChunkFiles ==
    ASSUME CallInv, NEW k \in Calls, NEW c \in Changesets, ReceiveChunk(k, c) PROVE Keeps
<1>1. /\ step[k][c] = "stream" /\ step[k][c] \in TransferSteps
      /\ position[k][c] < FileSize[c]
      /\ position' = [position EXCEPT ![k][c] = @ + 1]
      /\ linked[k][c] => unwritten' = [unwritten EXCEPT ![k][c][attempt[k][c]] =
                                          @ \union {position[k][c] + 1}]
      /\ \/ unwritten' = unwritten
         \/ unwritten' = [unwritten EXCEPT ![k][c][attempt[k][c]] =
                             @ \union {position[k][c] + 1}]
      /\ UNCHANGED <<overlap, late, present, chunks, phase, step, attempt, linked>>
  BY DEF ReceiveChunk, TransferSteps, worldVars
<1>2. TypeOK /\ position[k][c] \in Nat /\ FileSize[c] \in Nat /\ attempt[k][c] \in Attempts
  BY <1>1, TransferFacts, OneAttempt
<1>3. /\ \A j \in Calls : j # k => position'[j] = position[j]
      /\ \A d \in Changesets : d # c => position'[k][d] = position[k][d]
      /\ position'[k][c] = position[k][c] + 1
  BY <1>1, <1>2 DEF TypeOK
<1>4. CallMoves
  BY <1>1 DEF CallMoves, PhaseMove, Active, Running
<1>4a. TransferEnds(k, c, "stream")
  <2>1. unwritten \in [Calls -> [Changesets -> [Attempts -> SUBSET Nat]]]
    BY <1>2 DEF TypeOK
  <2>2. /\ \A j \in Calls : j # k => unwritten'[j] = unwritten[j]
        /\ \A d \in Changesets : d # c => unwritten'[k][d] = unwritten[k][d]
    BY <1>1, <2>1
  <2> QED
    BY <1>1, <1>3, <1>4, <2>2 DEF TransferEnds
<1>4b. "stream" \in TransferSteps /\ position[k][c] + 1 <= FileSize[c]
  BY <1>1, <1>2 DEF TransferSteps
<1>5. ASSUME DownloadsInv
      PROVE  DownloadsInv'
  <2>1. /\ linked[k][c] /\ present[c] /\ PrefixInv(c)
        /\ OneWriter(k, c, attempt[k][c], position[k][c])
    BY <1>1, <1>5 DEF DownloadsInv, StreamInv
  <2>2. /\ unwritten \in [Calls -> [Changesets -> [Attempts -> SUBSET Nat]]]
        /\ unwritten[k] \in [Changesets -> [Attempts -> SUBSET Nat]]
        /\ unwritten[k][c] \in [Attempts -> SUBSET Nat]
    BY <1>2 DEF TypeOK
  <2>3. unwritten' = [unwritten EXCEPT ![k][c][attempt[k][c]] =
                         @ \union {position[k][c] + 1}]
    BY <1>1, <2>1
  <2>4. /\ \A j \in Calls : j # k => unwritten'[j] = unwritten[j]
        /\ \A d \in Changesets : d # c => unwritten'[k][d] = unwritten[k][d]
        /\ unwritten'[k][c][attempt[k][c]] =
              unwritten[k][c][attempt[k][c]] \union {position[k][c] + 1}
        /\ \A h \in Attempts : h # attempt[k][c] => unwritten'[k][c][h] = unwritten[k][c][h]
    BY <1>2, <2>2, <2>3
  <2>6. OneWriter(k, c, attempt[k][c], position[k][c])'
    <3>1. \E w \in 0..(position[k][c] + 1) :
              /\ chunks'[c] = 1..w
              /\ unwritten'[k][c][attempt[k][c]] = (w + 1)..(position[k][c] + 1)
              /\ \A h \in Attempts : h # attempt[k][c] => unwritten'[k][c][h] = {}
      <4>1. attempt[k][c] \in Attempts
        BY <1>2
      <4>2. position[k][c] \in Nat
        BY <1>2
      <4>3. OneWriter(k, c, attempt[k][c], position[k][c])
        BY <2>1
      <4>4. chunks' = chunks
        BY <1>1
      <4>5. unwritten'[k][c][attempt[k][c]] =
               unwritten[k][c][attempt[k][c]] \union {position[k][c] + 1}
        BY <2>4
      <4>6. \A h \in Attempts :
               h # attempt[k][c] => unwritten'[k][c][h] = unwritten[k][c][h]
        BY <2>4
      <4> DEFINE a == attempt[k][c]
                 p == position[k][c]
      <4> HIDE DEF a, p
      <4>7. /\ a \in Attempts /\ p \in Nat /\ OneWriter(k, c, a, p)
            /\ unwritten'[k][c][a] = unwritten[k][c][a] \union {p + 1}
            /\ \A h \in Attempts : h # a => unwritten'[k][c][h] = unwritten[k][c][h]
        BY <4>1, <4>2, <4>3, <4>5, <4>6 DEF a, p
      <4>8. \E w \in 0..(p + 1) :
                /\ chunks'[c] = 1..w
                /\ unwritten'[k][c][a] = (w + 1)..(p + 1)
                /\ \A h \in Attempts : h # a => unwritten'[k][c][h] = {}
        BY <4>4, <4>7, OneMore
      <4> QED
        BY <4>8 DEF a, p
    <3> QED
      BY <1>1, <1>3, <3>1 DEF OneWriter
  <2>7. position[k][c] + 1 \in 0..FileSize[c] /\ position[k][c] + 1 <= FileSize[c]
    BY <1>1, <1>2
  <2>8. PrefixInv(c)'
    BY <1>1, <2>1 DEF PrefixInv
  <2>10. \E i \in Attempts, m \in 0..FileSize[c] : OneWriter(k, c, i, m)'
    <3>1. position'[k][c] \in 0..FileSize[c] /\ attempt'[k][c] \in Attempts
      BY <1>1, <1>2, <1>3, <2>7
    <3> QED
      BY <2>6, <3>1 DEF OneWriter
  <2>11. WritingInv(k, c)'
    BY <1>1, <1>4b, <2>1, <2>10 DEF WritingInv
  <2>12. StreamInv(k, c)'
    BY <1>1, <1>3, <2>1, <2>6, <2>7, <2>11 DEF StreamInv
  <2> QED
    BY <1>1, <1>4a, <1>4b, <1>5, <2>8, <2>12, TransferFiles
<1>6. ASSUME CallsApart
      PROVE  CallsApart'
  BY <1>1, <1>3, <1>4a, <1>4b, <1>6, TransferApart
<1> QED
  BY <1>1, <1>4, <1>5, <1>6 DEF Keeps

\* The first chunk of those that continue a file makes the file longer by one.
LEMMA OneLess ==
    ASSUME NEW w \in Nat, NEW m \in Nat, NEW n \in (w + 1)..m,
           \A l \in (w + 1)..m : n <= l
    PROVE  /\ w + 1 \in 0..m /\ n = w + 1
           /\ (1..w) \union {n} = 1..(w + 1)
           /\ ((w + 1)..m) \ {n} = ((w + 1) + 1)..m
<1>1. n = w + 1
  <2>1. w + 1 \in (w + 1)..m
    OBVIOUS
  <2> QED
    BY <2>1
<1>2. w + 1 \in 0..m
  OBVIOUS
<1> QED
  BY <1>1, <1>2

LEMMA WriteChunkFiles ==
    ASSUME CallInv, NEW k \in Calls, NEW c \in Changesets, NEW i \in Attempts,
           WriteChunk(k, c, i)
    PROVE  Keeps
<1>1. TypeOK
  BY DEF CallInv
<1>2. UNCHANGED <<overlap, late, present, phase, step, attempt, position, linked>>
  BY DEF WriteChunk, worldVars, streamVars
<1>3. PICK n \in unwritten[k][c][i] :
          /\ n \in 1..FileSize[c] /\ \A m \in unwritten[k][c][i] : n <= m
          /\ chunks' \in [Changesets -> SUBSET Nat]
          /\ \A d \in Changesets :
                chunks'[d] = IF d = c THEN chunks[c] \union {n} ELSE chunks[d]
          /\ UnwrittenTypes'
          /\ \A j \in Calls, d \in Changesets, h \in Attempts :
                unwritten'[j][d][h] = IF j = k /\ d = c /\ h = i
                                      THEN unwritten[k][c][i] \ {n}
                                      ELSE unwritten[j][d][h]
  BY <1>1, WriteChunkWrites
<1>4. CallMoves
  BY <1>2 DEF CallMoves, PhaseMove, Active, Running
<1>5. /\ Writing(k, c)
      /\ \A j \in Calls, d \in Changesets : Writing(j, d)' => Writing(j, d)
  BY <1>3 DEF Writing
<1>5a. ASSUME NEW j \in Calls, NEW d \in Changesets, d # c
       PROVE  QuietMove(j, d)
  <2>1. UnwrittenTypes
    BY <1>1 DEF TypeOK, UnwrittenTypes
  <2>2. /\ unwritten'[j][d] \in [Attempts -> SUBSET Nat]
        /\ unwritten[j][d] \in [Attempts -> SUBSET Nat]
    BY <1>3, <2>1 DEF UnwrittenTypes
  <2>3. \A g \in Attempts : unwritten'[j][d][g] = unwritten[j][d][g]
    BY <1>3, <1>5a
  <2>4. unwritten'[j][d] = unwritten[j][d]
    BY <2>2, <2>3
  <2> QED
    BY <1>2, <2>4 DEF QuietMove
<1>5b. ASSUME CallsApart
       PROVE  CallsApart'
  <2>1. \A d \in Changesets : d # c => present'[d] = present[d] /\ chunks'[d] = chunks[d]
    BY <1>2, <1>3
  <2>2. ApartInv(k, c)'
    BY <1>2, <1>5, <1>5b DEF CallsApart, ApartInv, Undecided
  <2>3. \A j \in Calls : Active(j)' => Active(j)
    BY <1>4 DEF CallMoves
  <2>4. \A j \in Calls : j # k =>
           step'[j][c] = step[j][c] /\ (Writing(j, c)' => Writing(j, c))
    BY <1>2, <1>5
  <2> QED
    BY <1>5, <1>5a, <1>5b, <2>1, <2>2, <2>3, <2>4, WorkApart
<1>6. ASSUME DownloadsInv
      PROVE  DownloadsInv'
  <2>1. AloneInv'
    <3>1. \A j \in Calls : Busy(j)' => Busy(j)
      BY <1>4, <1>5, QuietBusy DEF CallMoves
    <3> QED
      BY <1>6, <3>1 DEF DownloadsInv, AloneInv
  <2>2. /\ present[c] /\ step[k][c] \in TransferSteps \union {"failed"}
        /\ step[k][c] = "link" => attempt[k][c] # 0
        /\ \E h \in Attempts, m \in 0..FileSize[c] : OneWriter(k, c, h, m)
        /\ StreamInv(k, c)
    BY <1>5, <1>6 DEF DownloadsInv, StreamInv, WritingInv
  <2>3. ASSUME NEW h \in Attempts, NEW m \in Nat, OneWriter(k, c, h, m)
        PROVE  OneWriter(k, c, h, m)'
    <3>1. PICK w \in 0..m : /\ chunks[c] = 1..w
                            /\ unwritten[k][c][h] = (w + 1)..m
                            /\ \A g \in Attempts : g # h => unwritten[k][c][g] = {}
      BY <2>3 DEF OneWriter
    <3>2. h = i
      BY <1>3, <3>1
    <3>2a. unwritten[k][c][i] = (w + 1)..m
      BY <3>1, <3>2
    <3>2b. w \in Nat
      BY <2>3, <3>1
    <3>3. w \in Nat /\ n \in (w + 1)..m /\ \A l \in (w + 1)..m : n <= l
      BY <1>3, <3>2a, <3>2b
    <3>4. /\ w + 1 \in 0..m
          /\ (1..w) \union {n} = 1..(w + 1)
          /\ ((w + 1)..m) \ {n} = ((w + 1) + 1)..m
      BY <3>3, OneLess
    <3>5. chunks'[c] = 1..(w + 1)
      BY <1>3, <3>1, <3>4
    <3>6. unwritten'[k][c][h] = ((w + 1) + 1)..m
      BY <1>3, <3>1, <3>2, <3>4
    <3>7. \A g \in Attempts : g # h => unwritten'[k][c][g] = {}
      BY <1>3, <3>1, <3>2
    <3> QED
      BY <3>4, <3>5, <3>6, <3>7 DEF OneWriter
  <2>4. PICK h \in Attempts, m \in 0..FileSize[c] : OneWriter(k, c, h, m)
    BY <2>2
  <2>5. FileSize[c] \in Nat /\ m \in Nat
    BY <2>4, DownloadAssumption
  <2>6. OneWriter(k, c, h, m)'
    BY <2>3, <2>4, <2>5
  <2>7. PrefixInv(c)'
    <3>1. PICK w \in 0..m : chunks'[c] = 1..w
      BY <2>6 DEF OneWriter
    <3>2. w \in 0..FileSize[c]
      BY <2>4, <2>5, <3>1
    <3> QED
      BY <1>2, <2>2, <3>1, <3>2 DEF PrefixInv
  <2>8. \A d \in Changesets : PrefixInv(d)'
    <3>1. \A d \in Changesets : d # c => PrefixInv(d)'
      BY <1>2, <1>3, <1>6 DEF DownloadsInv, PrefixInv
    <3> QED
      BY <2>7, <3>1
  <2>9. \A j \in Calls : j # k => ~Running(j, c) /\ ~Writing(j, c)
    BY <1>5, <1>6 DEF DownloadsInv, AloneInv, Busy, Active
  <2>10. StreamInv(k, c)'
    <3>1. WritingInv(k, c)'
      <4>1. \E g \in Attempts, l \in 0..FileSize[c] : OneWriter(k, c, g, l)'
        BY <2>4, <2>6
      <4> QED
        BY <1>2, <2>2, <4>1 DEF WritingInv
    <3>2. CASE step[k][c] \in {"request", "stream"}
      <4>1. /\ linked[k][c] /\ position[k][c] <= FileSize[c]
            /\ OneWriter(k, c, attempt[k][c], position[k][c])
        BY <2>2, <3>2 DEF StreamInv
      <4>2. attempt[k][c] \in Attempts /\ position[k][c] \in Nat
        BY <1>1, <3>2, OneAttempt DEF TypeOK, TransferSteps
      <4>3. OneWriter(k, c, attempt[k][c], position[k][c])'
        <5>1. \A w : OneWriter(k, c, attempt[k][c], w)' <=>
                     \E l \in 0..w :
                        /\ chunks'[c] = 1..l
                        /\ unwritten'[k][c][attempt[k][c]] = (l + 1)..w
                        /\ \A g \in Attempts :
                              g # attempt[k][c] => unwritten'[k][c][g] = {}
          BY <1>2 DEF OneWriter
        <5> QED
          BY <1>2, <2>3, <4>1, <4>2
      <4> QED
        BY <1>2, <2>2, <3>1, <3>2, <4>1, <4>3 DEF StreamInv
    <3>3. CASE step[k][c] \notin {"request", "stream"}
      BY <1>2, <2>2, <3>1, <3>3 DEF StreamInv
    <3> QED
      BY <3>2, <3>3
  <2>11. \A j \in Calls : j # k => StreamInv(j, c)'
    BY <1>2, <1>5, <1>6, <2>9 DEF DownloadsInv, StreamInv, WritingInv, Running, Waiting
  <2>12. ASSUME NEW j \in Calls, NEW d \in Changesets, d # c
         PROVE  StreamInv(j, d)'
    <3>1. StreamInv(j, d) /\ present'[d] = present[d] /\ chunks'[d] = chunks[d]
      BY <1>2, <1>3, <1>6, <2>12 DEF DownloadsInv
    <3> QED
      BY <1>5a, <2>12, <3>1, QuietStreams
  <2>13. ASSUME NEW j \in Calls, NEW d \in Changesets
         PROVE  AcceptedInv(j, d)'
    <3>1. AcceptedInv(j, d)
      BY <1>6 DEF DownloadsInv
    <3>2. CASE d # c
      BY <1>2, <1>3, <3>1, <3>2 DEF AcceptedInv, Complete, SizeMatches
    <3>3. CASE d = c
      <4>1. Complete(c) => Complete(c)'
        BY <1>2, <1>3 DEF Complete
      <4>2. step[j][c] \notin {"delete"} /\ ~(step[j][c] = "link" /\ attempt[j][c] = 0)
        BY <2>2, <2>9 DEF Running, Waiting, TransferSteps
      <4> QED
        BY <1>2, <3>1, <3>3, <4>1, <4>2 DEF AcceptedInv
    <3> QED
      BY <3>2, <3>3
  <2> QED
    BY <2>1, <2>8, <2>10, <2>11, <2>12, <2>13 DEF DownloadsInv
<1> QED
  BY <1>2, <1>4, <1>5b, <1>6 DEF Keeps

LEMMA AttemptFailsFiles ==
    ASSUME CallInv, NEW k \in Calls, NEW c \in Changesets, step[k][c] \in TransferSteps,
           AttemptFails(k, c), UNCHANGED <<overlap, late, present, chunks, unwritten>>
    PROVE  Keeps
<1>1. /\ TypeOK /\ Running(k, c) /\ phase[k] # "scan" /\ attempt[k][c] \in Nat
  BY TransferFacts
<1>2. /\ attempt' = [attempt EXCEPT ![k][c] = @ + 1]
      /\ position' = [position EXCEPT ![k][c] = 0]
      /\ linked' = [linked EXCEPT ![k][c] = FALSE]
      /\ \/ step' = [step EXCEPT ![k][c] = "link"] /\ phase' = phase
         \/ Settle(k, c, "rejected")
  BY DEF AttemptFails, StreamClosed
<1>3. \E v \in {"link", "failed"} :
         /\ CallMoves
         /\ \A j \in Calls : j # k => step'[j] = step[j]
         /\ \A d \in Changesets : step'[k][d] = IF d = c THEN v ELSE step[k][d]
  <2>1. CASE Settle(k, c, "rejected")
    BY <1>1, <2>1, SettleMoves
  <2>2. CASE step' = [step EXCEPT ![k][c] = "link"] /\ phase' = phase
    <3>1. "link" \in StepNames
      BY DEF StepNames, Waiting
    <3> QED
      BY <2>2, <3>1, StepMoves
  <2> QED
    BY <1>2, <2>1, <2>2
<1>4. PICK v \in {"link", "failed"} :
         /\ CallMoves
         /\ \A j \in Calls : j # k => step'[j] = step[j]
         /\ \A d \in Changesets : step'[k][d] = IF d = c THEN v ELSE step[k][d]
  BY <1>3
<1>5. /\ attempt'[k][c] # 0 /\ linked'[k][c] = FALSE
      /\ \A j \in Calls : j # k => /\ attempt'[j] = attempt[j] /\ position'[j] = position[j]
                                   /\ linked'[j] = linked[j]
      /\ \A d \in Changesets :
            d # c => /\ attempt'[k][d] = attempt[k][d] /\ position'[k][d] = position[k][d]
                     /\ linked'[k][d] = linked[k][d]
  BY <1>1, <1>2 DEF TypeOK
<1>5a. attempt[k][c] + 1 # 0 /\ "link" \in TransferSteps
  BY <1>1 DEF TransferSteps
<1>6. TransferEnds(k, c, v)
  BY <1>4, <1>5 DEF TransferEnds
<1>7. ASSUME DownloadsInv
      PROVE  DownloadsInv'
  <2>0. PrefixInv(c)' /\ WritingInv(k, c)
    BY <1>7 DEF DownloadsInv, PrefixInv, StreamInv
  <2>01. \A i, m : OneWriter(k, c, i, m)' <=> OneWriter(k, c, i, m)
    BY DEF OneWriter
  <2>02. WritingInv(k, c)'
    BY <1>4, <1>5, <1>5a, <2>0, <2>01 DEF WritingInv, Writing
  <2>1. PrefixInv(c)' /\ StreamInv(k, c)'
    BY <1>4, <1>5, <2>0, <2>02 DEF StreamInv
  <2>2. v \in TransferSteps \union {"done", "failed"} /\ v # "done"
    BY DEF TransferSteps
  <2> QED
    BY <1>5, <1>6, <1>7, <2>1, <2>2, TransferFiles
<1>8. ASSUME CallsApart
      PROVE  CallsApart'
  <2>1. v \in TransferSteps \union {"done", "failed"} /\ v \notin {"request", "stream"}
    BY DEF TransferSteps
  <2> QED
    BY <1>5, <1>6, <1>8, <2>1, TransferApart
<1> QED
  BY <1>4, <1>7, <1>8 DEF Keeps

\* The transfer ends with the whole file, or is aborted.
LEMMA SettleFiles ==
    ASSUME CallInv, NEW k \in Calls, NEW c \in Changesets, step[k][c] \in TransferSteps,
           NEW outcome \in {"fulfilled", "rejected"}, Settle(k, c, outcome),
           linked' = StreamClosed(k, c),
           UNCHANGED <<overlap, late, present, chunks, unwritten, attempt, position>>,
           outcome = "fulfilled" => /\ step[k][c] = "stream" /\ position[k][c] = FileSize[c]
                                      /\ unwritten[k][c][attempt[k][c]] = {}
    PROVE  Keeps
<1> DEFINE v == IF outcome = "fulfilled" THEN "done" ELSE "failed"
<1>1. TypeOK /\ Running(k, c) /\ phase[k] # "scan"
  BY TransferFacts
<1>2. /\ CallMoves
      /\ \A j \in Calls : j # k => step'[j] = step[j]
      /\ \A d \in Changesets : d # c => step'[k][d] = step[k][d]
      /\ step'[k][c] = v
  BY <1>1, SettleMoves
<1>3. /\ linked'[k][c] = FALSE
      /\ \A j \in Calls : j # k => linked'[j] = linked[j]
      /\ \A d \in Changesets : d # c => linked'[k][d] = linked[k][d]
  BY <1>1 DEF TypeOK, StreamClosed
<1>4. TransferEnds(k, c, v)
  BY <1>2, <1>3 DEF TransferEnds
<1>5. ASSUME DownloadsInv
      PROVE  DownloadsInv'
  <2>0. PrefixInv(c)' /\ StreamInv(k, c)
    BY <1>5 DEF DownloadsInv, PrefixInv
  <2>01. ASSUME v = "done"
         PROVE  StreamInv(k, c)' /\ Complete(c)'
    <3>1. PICK w \in 0..FileSize[c] :
              /\ chunks[c] = 1..w /\ (w + 1)..FileSize[c] = {}
              /\ \A h \in Attempts : unwritten[k][c][h] = {}
      BY <2>0, <2>01 DEF StreamInv, OneWriter
    <3>2. w = FileSize[c]
      <4>1. FileSize[c] \in Nat /\ w \in Nat /\ w <= FileSize[c]
        BY DownloadAssumption
      <4>2. ~(w + 1 <= FileSize[c])
        <5> SUFFICES ASSUME w + 1 <= FileSize[c] PROVE FALSE
          OBVIOUS
        <5>1. w + 1 \in (w + 1)..FileSize[c]
          BY <4>1
        <5> QED
          BY <3>1, <5>1
      <4> QED
        BY <4>1, <4>2
    <3>3. present[c] /\ ~Writing(k, c)'
      BY <2>0, <2>01, <3>1 DEF StreamInv, Writing
    <3> QED
      BY <1>2, <1>3, <2>01, <3>1, <3>2, <3>3 DEF StreamInv, WritingInv, Complete
  <2>02. ASSUME v = "failed"
         PROVE  StreamInv(k, c)'
    <3>1. \A i, m : OneWriter(k, c, i, m)' <=> OneWriter(k, c, i, m)
      BY DEF OneWriter
    <3>2. WritingInv(k, c)'
      BY <1>2, <2>0, <2>02, <3>1 DEF StreamInv, WritingInv, Writing
    <3> QED
      BY <1>2, <1>3, <2>02, <3>2 DEF StreamInv
  <2>1. PrefixInv(c)' /\ StreamInv(k, c)'
    BY <2>0, <2>01, <2>02
  <2>2. v = "done" => Complete(c)'
    BY <2>01
  <2>3. v \in TransferSteps \union {"done", "failed"} /\ v # "link"
    OBVIOUS
  <2> QED
    BY <1>4, <1>5, <2>1, <2>2, <2>3, TransferFiles
<1>6. ASSUME CallsApart
      PROVE  CallsApart'
  <2>1. v \in TransferSteps \union {"done", "failed"} /\ v \notin TransferSteps
    BY DEF TransferSteps
  <2> QED
    BY <1>4, <1>6, <2>1, TransferApart DEF TransferSteps
<1> QED
  BY <1>2, <1>5, <1>6 DEF Keeps

LEMMA DownloadStepFiles ==
    ASSUME CallInv, NEW k \in Calls, NEW c \in Changesets, DownloadStep(k, c) PROVE Keeps
<1>1. CASE FileExists(k, c) \/ GetFileSize(k, c) \/ DeleteFile(k, c)
  BY <1>1, FileExistsFiles, GetFileSizeFiles, DeleteFileFiles
<1>2. CASE OpenTarget(k, c) \/ StorageAnswers(k, c) \/ ReceiveChunk(k, c)
  BY <1>2, OpenTargetFiles, StorageAnswersFiles, ReceiveChunkFiles
<1>3. CASE RefreshFails(k, c) \/ TransferFails(k, c)
  BY <1>3, AttemptFailsFiles DEF RefreshFails, TransferFails, TransferSteps, worldVars, fileVars
<1>4. CASE TransferAborted(k, c)
  BY <1>4, SettleFiles DEF TransferAborted, TransferSteps, worldVars, fileVars
<1>5. CASE TargetCloses(k, c)
  BY <1>5, SettleFiles DEF TargetCloses, TransferSteps, worldVars, fileVars
<1>6. CASE \E i \in Attempts : WriteChunk(k, c, i)
  BY <1>6, WriteChunkFiles
<1> QED
  BY <1>1, <1>2, <1>3, <1>4, <1>5, <1>6 DEF DownloadStep
-------------------------------------------------------------------------------
(* Every step keeps FileInv.                                               *)

LEMMA NextFileInv == CallInv /\ FileInv /\ [Next]_vars => FileInv'
<1> SUFFICES ASSUME CallInv, FileInv, [Next]_vars PROVE FileInv'
  OBVIOUS
<1>1. ASSUME NEW k \in Calls, Begin(k) \/ CallStep(k) \/ FetchFails(k) \/ Abort(k)
      PROVE  FileInv'
  BY <1>1, BeginFiles, FetchMinimalPageQuiet, FetchPageQuiet, QuerySingleQuiet, ResumeQuiet,
     PhaseStepQuiet, QuietStep DEF CallStep
<1>2. ASSUME NEW k \in Calls, NEW c \in Changesets, DownloadStep(k, c)
      PROVE  FileInv'
  <2>1. Keeps
    BY <1>2, DownloadStepFiles
  <2>2. OrderInv'
    BY <2>1, OrderKept DEF Keeps, CallMoves, FileInv
  <2> QED
    BY <2>1, <2>2 DEF Keeps, FileInv
<1>3. CASE PushChangeset \/ Crash
  BY <1>3, PushQuiet, CrashQuiet, QuietStep
<1>4. CASE UNCHANGED vars
  <2>1. FilesUntouched
    BY <1>4 DEF vars, FilesUntouched, CallMoves, PhaseMove, Active, Running, QuietMove
  <2> QED
    BY <2>1, QuietStep
<1> QED
  BY <1>1, <1>2, <1>3, <1>4 DEF Next, AllSettled

LEMMA AlwaysFileInv == Spec => [](CallInv /\ FileInv)
<1>1. Init => CallInv /\ FileInv
  BY InitCallInv, InitFileInv
<1>2. CallInv /\ FileInv /\ [Next]_vars => (CallInv /\ FileInv)'
  BY NextCallInv, NextFileInv
<1> QED
  BY <1>1, <1>2, PTL DEF Spec

\* As long as no calls and no attempts overlap, a file accepted once stays whole,
\* whatever later calls, failures, aborts and crashes do.
THEOREM AcceptedStay == Spec => []AcceptedFilesStay
<1>1. FileInv => AcceptedFilesStay
  BY DEF FileInv, DownloadsInv, AcceptedInv, AcceptedFilesStay
<1> QED
  BY <1>1, AlwaysFileInv, PTL

\* As long as no calls and no attempts overlap, the size of a file tells whether it is
\* whole, though a crash loses what a stream has received and not written, and a call
\* that failed or was aborted writes it late.
THEOREM SizeSuffices == Spec => []SizeTellsComplete
<1>1. CallInv /\ FileInv => SizeTellsComplete
  BY SizeOfPrefix DEF FileInv, DownloadsInv, CallInv, SizeTellsComplete
<1> QED
  BY <1>1, AlwaysFileInv, PTL

\* As long as no calls overlap, no first attempt opens, and with it truncates, a file
\* that has the expected size.
THEOREM NoSecondDownload == Spec => NotDownloadedAgain
<1>1. FileInv /\ [Next]_vars =>
         [~overlap => \A k \in Calls, c \in Changesets :
             step[k][c] = "link" /\ step'[k][c] = "request" /\ attempt[k][c] = 0
               => ~SizeMatches(c)]_vars
  BY DEF FileInv, CallsApart, ApartInv
<1> QED
  BY <1>1, AlwaysFileInv, PTL DEF Spec, NotDownloadedAgain

\* As long as no calls and no attempts overlap, a call that returns has every file it
\* returns whole, now and ever after.
THEOREM ReturnedFilesWhole == Spec => [](~overlap /\ ~late => FulfilledMeansComplete)
<1>1. CallInv /\ FileInv => (~overlap /\ ~late => FulfilledMeansComplete)
  <2> SUFFICES ASSUME CallInv, FileInv, ~overlap, ~late,
                      NEW k \in Calls, phase[k] = "fulfilled", NEW c \in result[k]
               PROVE  Complete(c)
    BY DEF FulfilledMeansComplete
  <2>1. c \in Changesets /\ OneCallInv(k)
    BY DEF CallInv, TypeOK
  <2>2. step[k][c] = "done"
    BY <2>1 DEF OneCallInv, PhaseInv
  <2> QED
    BY <2>1, <2>2 DEF FileInv, DownloadsInv, AcceptedInv
<1> QED
  BY <1>1, AlwaysFileInv, PTL
-------------------------------------------------------------------------------
(***************************************************************************)
(* The cancellation.                                                       *)
(***************************************************************************)

\* The composition takes no step that ChangesetDownload does not take.
LEMMA AdapterStepIsStep == [AdapterNext]_allVars => [Next]_vars
<1>1. ASSUME NEW k \in Calls, Call(k) \/ GoOn(k) \/ AbortSignalled(k) \/ Finally(k)
      PROVE  [Next]_vars
  BY <1>1 DEF Call, GoOn, AbortSignalled, Finally, Next
<1>2. ASSUME NEW k \in Calls, NEW c \in Changesets, Report(k, c) \/ Download(k, c)
      PROVE  [Next]_vars
  BY <1>2 DEF Report, Download, Next, DownloadStep
<1>3. ASSUME Others
      PROVE  [Next]_vars
  BY <1>3 DEF Others, Next
<1>4. UNCHANGED allVars => UNCHANGED vars
  BY DEF allVars
<1> QED
  BY <1>1, <1>2, <1>3, <1>4 DEF AdapterNext

\* The backend's downloads are downloads of the authoring client: whatever holds of
\* ChangesetDownload holds of them too.
THEOREM AdapterImplementsDownload == AdapterSpec => Spec
<1>1. AdapterInit => Init
  BY DEF AdapterInit
<1> QED
  BY <1>1, AdapterStepIsStep, PTL DEF AdapterSpec, Spec

Decisions == {"none", "pending", "cancel", "end"}

\* A call is cancelled, and its signal set, only because the callback asked for it while it
\* was in progress, and the promise of a call that ended is told to end only after that.
CancellationInv ==
    /\ monitor \in [Calls -> Decisions]
    /\ asked \in [Calls -> BOOLEAN]
    /\ \A k \in Calls :
          /\ aborted[k] => asked[k]
          /\ asked[k] <=> monitor[k] = "cancel"
          /\ monitor[k] = "end" => Ended(k)
          /\ phase[k] = "idle" => monitor[k] = "none"
          /\ monitor[k] = "none" => phase[k] = "idle" \/ ~Monitored(k)

LEMMA InitCancellation == AdapterInit => CancellationInv
BY DEF AdapterInit, Init, CancellationInv, Decisions

\* Steps of the calls and their downloads leave an ended call as it is.
LEMMA PhaseMoves ==
    ASSUME CallInv, FileInv,
           \/ \E k \in Calls : CallStep(k) \/ FetchFails(k)
           \/ \E k \in Calls, c \in Changesets : DownloadStep(k, c)
           \/ PushChangeset \/ Crash \/ AllSettled
    PROVE  /\ \A k \in Calls : PhaseMove(k)
           /\ aborted' = aborted
<1>1. ASSUME NEW k \in Calls, CallStep(k) \/ FetchFails(k)
      PROVE  CallMoves /\ aborted' = aborted
  <2>1. FilesUntouched
    BY <1>1, FetchMinimalPageQuiet, FetchPageQuiet, QuerySingleQuiet, ResumeQuiet,
       PhaseStepQuiet DEF CallStep
  <2>2. aborted' = aborted
    BY <1>1 DEF CallStep, FetchFails, FetchMinimalPage, FetchPage, QuerySingle, ResumeWaitAll,
       WaitAllThrows, PageDone
  <2> QED
    BY <2>1, <2>2 DEF FilesUntouched
<1>2. ASSUME NEW k \in Calls, NEW c \in Changesets, DownloadStep(k, c)
      PROVE  CallMoves /\ aborted' = aborted
  <2>1. Keeps
    BY <1>2, DownloadStepFiles
  <2>2. aborted' = aborted
    BY <1>2 DEF DownloadStep, FileExists, GetFileSize, DeleteFile, OpenTarget, RefreshFails,
       StorageAnswers, ReceiveChunk, TransferFails, TransferAborted, TargetCloses, WriteChunk
  <2> QED
    BY <2>1, <2>2 DEF Keeps
<1>3. CASE PushChangeset \/ Crash
  BY <1>3, PushQuiet, CrashQuiet DEF FilesUntouched, PushChangeset, Crash, CallMoves
<1>4. CASE AllSettled
  BY <1>4 DEF AllSettled, vars, PhaseMove
<1> QED
  BY <1>1, <1>2, <1>3, <1>4 DEF CallMoves

\* No step but Report tells the promise to cancel.
LEMMA UnansweredStep ==
    ASSUME CallInv, FileInv, CancellationInv, UNCHANGED cancellation,
           \/ \E k \in Calls : GoOn(k)
           \/ \E k \in Calls, c \in Changesets : Download(k, c)
           \/ Others
    PROVE  CancellationInv'
<1>1. /\ \A k \in Calls : PhaseMove(k)
      /\ aborted' = aborted
  BY PhaseMoves DEF GoOn, Download, Others
<1>2. monitor' = monitor /\ asked' = asked
  BY DEF cancellation
<1> QED
  BY <1>1, <1>2 DEF CancellationInv, PhaseMove, Ended, Monitored, Live, Scanning

LEMMA CallCancellation ==
    ASSUME CallInv, CancellationInv, NEW k \in Calls, Call(k)
    PROVE  CancellationInv'
<1>1. /\ phase[k] = "idle" /\ phase'[k] # "idle" /\ aborted' = aborted /\ asked' = asked
      /\ \A j \in Calls : j # k => phase'[j] = phase[j]
      /\ monitor' = [monitor EXCEPT ![k] = IF Monitored(k) THEN "pending" ELSE "none"]
  BY DEF Call, Begin, CallInv, TypeOK
<1>2. ~asked[k] /\ ~aborted[k]
  BY <1>1 DEF CancellationInv
<1> QED
  BY <1>1, <1>2 DEF CancellationInv, Decisions, Ended, Monitored

LEMMA ReportCancellation ==
    ASSUME CallInv, CancellationInv, NEW k \in Calls, NEW c \in Changesets, Report(k, c)
    PROVE  CancellationInv'
<1>1. phase' = phase /\ aborted' = aborted /\ Running(k, c)
  BY DEF Report, ReceiveChunk, Running, Waiting
<1>2. phase[k] # "idle"
  BY <1>1 DEF CallInv, OneCallInv, PhaseInv, Running, Waiting
<1>3. CASE UNCHANGED cancellation
  BY <1>1, <1>3 DEF CancellationInv, cancellation, Ended
<1>4. CASE Monitored(k) /\ Told(k, "cancel") /\ asked' = [asked EXCEPT ![k] = @ \/ ~Ended(k)]
  <2>1. monitor[k] = "pending" => ~Ended(k)
    BY DEF Report, Quiet, FinallyIsDue
  <2>2. monitor[k] \in {"pending", "cancel", "end"}
    BY <1>2, <1>4 DEF CancellationInv, Decisions
  <2>3. /\ monitor' \in [Calls -> Decisions] /\ asked' \in [Calls -> BOOLEAN]
        /\ \A j \in Calls : j # k => monitor'[j] = monitor[j] /\ asked'[j] = asked[j]
        /\ monitor'[k] = IF monitor[k] = "pending" THEN "cancel" ELSE monitor[k]
        /\ asked'[k] <=> asked[k] \/ ~Ended(k)
    BY <1>4 DEF Told, CancellationInv, Decisions
  <2> QED
    BY <1>1, <1>2, <2>1, <2>2, <2>3 DEF CancellationInv, Ended
<1> QED
  BY <1>3, <1>4 DEF Report

LEMMA DueCancellation ==
    ASSUME CallInv, CancellationInv, NEW k \in Calls, AbortSignalled(k) \/ Finally(k)
    PROVE  CancellationInv'
<1>1. CASE AbortSignalled(k)
  BY <1>1 DEF AbortSignalled, AbortIsDue, Abort, cancellation, CancellationInv, CallInv, TypeOK,
              Ended
<1>2. CASE Finally(k)
  BY <1>2 DEF Finally, FinallyIsDue, Told, vars, CancellationInv, Decisions, Ended
<1> QED
  BY <1>1, <1>2

LEMMA NextCancellation ==
    CallInv /\ FileInv /\ CancellationInv /\ [AdapterNext]_allVars => CancellationInv'
<1> SUFFICES ASSUME CallInv, FileInv, CancellationInv, [AdapterNext]_allVars
             PROVE  CancellationInv'
  OBVIOUS
<1>1. CASE UNCHANGED allVars
  BY <1>1 DEF allVars, vars, cancellation, CancellationInv, Ended
<1>2. ASSUME \/ \E k \in Calls : GoOn(k)
             \/ \E k \in Calls, c \in Changesets : Download(k, c)
             \/ Others
      PROVE  CancellationInv'
  <2>1. UNCHANGED cancellation
    BY <1>2 DEF GoOn, Download, Others
  <2> QED
    BY <1>2, <2>1, UnansweredStep
<1> QED
  BY <1>1, <1>2, CallCancellation, ReportCancellation, DueCancellation DEF AdapterNext

LEMMA AlwaysCancellation == AdapterSpec => [](CallInv /\ FileInv /\ CancellationInv)
<1>1. AdapterSpec => [](CallInv /\ FileInv)
  BY AdapterImplementsDownload, AlwaysFileInv, PTL
<1> QED
  BY <1>1, InitCancellation, NextCancellation, PTL DEF AdapterSpec

\* No chunk is received in a step that is not Report, and none of a cancelled call.
LEMMA NothingReceived ==
    ASSUME CallInv, CancellationInv, [AdapterNext]_allVars, NEW k \in Calls, asked[k],
           NEW c \in Changesets
    PROVE  position'[k][c] <= position[k][c]
<1>1. position \in [Calls -> [Changesets -> Nat]] /\ position[k][c] \in Nat
  BY DEF CallInv, TypeOK
<1>2. ASSUME position' = position
      PROVE  position'[k][c] <= position[k][c]
  BY <1>1, <1>2
<1>3. ASSUME NEW j \in Calls, Call(j) \/ GoOn(j) \/ AbortSignalled(j) \/ Finally(j)
      PROVE  position' = position
  BY <1>3 DEF Call, Begin, GoOn, CallStep, FetchMinimalPage, FetchPage, QuerySingle, ResumeWaitAll,
     WaitAllThrows, PageDone, AbortSignalled, Abort, Finally, vars, streamVars
<1>4. ASSUME Others
      PROVE  position' = position
  BY <1>4 DEF Others, PushChangeset, Crash, AllSettled, FetchFails, vars, streamVars
<1>5. ASSUME NEW j \in Calls, NEW d \in Changesets, Report(j, d)
      PROVE  position'[k][c] <= position[k][c]
  <2>1. ~aborted[j] /\ position' = [position EXCEPT ![j][d] = @ + 1]
    BY <1>5 DEF Report, ReceiveChunk
  <2>2. j # k
    BY <1>5, <2>1 DEF CancellationInv, Report, Quiet, AbortIsDue
  <2> QED
    BY <1>1, <2>1, <2>2
<1>6. ASSUME NEW j \in Calls, NEW d \in Changesets, Download(j, d)
      PROVE  position'[k][c] <= position[k][c]
  <2>1. \/ position' = position
        \/ position' = [position EXCEPT ![j][d] = 0]
        \/ position' = [position EXCEPT ![j][d] = @ + 1]
    BY <1>6 DEF Download, DownloadStep, FileExists, GetFileSize, DeleteFile, OpenTarget,
       RefreshFails, StorageAnswers, ReceiveChunk, TransferFails, TransferAborted, TargetCloses,
       AttemptFails, WriteChunk, streamVars
  <2>2. position'[j][d] <= position[j][d]
    BY <1>6 DEF Download
  <2> QED
    BY <1>1, <2>1, <2>2
<1> QED
  BY <1>2, <1>3, <1>4, <1>5, <1>6 DEF AdapterNext, allVars, vars

\* A call whose callback cancelled it in time receives nothing more (an attempt may still
\* open and truncate its file), and no other call is aborted.
THEOREM CancelStops == AdapterSpec => CancelStopsTheCall
<1>1. CancellationInv => \A k \in Calls : aborted[k] => asked[k]
  BY DEF CancellationInv
<1>2. CallInv /\ CancellationInv /\ [AdapterNext]_allVars =>
         [\A k \in Calls, c \in Changesets : asked[k] => position'[k][c] <= position[k][c]]_allVars
  BY NothingReceived
<1> QED
  BY <1>1, <1>2, AlwaysCancellation, PTL DEF AdapterSpec, CancelStopsTheCall
-------------------------------------------------------------------------------
(***************************************************************************)
(* The progress.  A call that reports counts the bytes of what it listed   *)
(* first, and then those it receives.  The sum over changesets is a number *)
(* of chunks: BalanceInv says that downloaded falls short of total by the  *)
(* chunks that are Missing.                                                *)
(***************************************************************************)

Tracked(k) == Kind[k] = "list" /\ WithProgress[k]

\* The chunks of the changeset that the call has or need not receive, the first ones.
Got(k, c) == IF step[k][c] \in Undecided
             THEN IF SizeMatches(c) THEN FileSize[c] ELSE 0
             ELSE IF step[k][c] = "done" THEN FileSize[c] ELSE position[k][c]

\* The changesets whose size is in the total.
Counted(k) == IF phase[k] = "scanFetch" THEN 1..cursor[k]
              ELSE IF phase[k] = "scan"
              THEN {c \in Changesets : \E d \in Changesets : Running(k, d) /\ c < d}
              ELSE 1..lastIndex

Missing(k) == {p \in Changesets \X (Nat \ {0}) : /\ p[1] \in Counted(k)
                                                 /\ Got(k, p[1]) < p[2] /\ p[2] <= FileSize[p[1]]}

\* What the call lists is what there is, and what it counts is what it lists.
ListedInv(k) ==
    /\ phase[k] = "idle" => cursor[k] = 0 /\ downloaded[k] = 0 /\ total[k] = 0
    /\ phase[k] \in {"idle"} \union Scanning => report[k] = <<0, 0>>
    /\ \A c \in Changesets : step[k][c] # "none" => c <= lastIndex
    /\ phase[k] = "scan" => \E d \in Changesets : d <= cursor[k] /\ Running(k, d)
    /\ phase[k] \in {"scan", "download"} => (more[k] <=> cursor[k] < lastIndex)
    /\ phase[k] \in {"fetch", "download"} => result[k] = 1..cursor[k]

BalanceInv(k) ==
    Active(k) => /\ downloaded[k] + Cardinality(Missing(k)) = total[k]
                 /\ \/ report[k] \in {<<0, 0>>, <<downloaded[k], total[k]>>}
                    \/ Missing(k) # {}

ReportInv(k) == /\ report[k][1] <= report[k][2]
                /\ phase[k] = "fulfilled" => report[k][1] = report[k][2]

OneProgressInv(k) == IF Tracked(k) THEN ListedInv(k) /\ BalanceInv(k) /\ ReportInv(k)
                     ELSE ~WithProgress[k] => report[k] = <<0, 0>>

\* Nobody has pushed since the first call, and no call began beside downloads that an
\* earlier one left running.
Undisturbed == lastIndex = InitialIndex /\ ~overlap

ProgressInv == Undisturbed => \A k \in Calls : OneProgressInv(k)
-------------------------------------------------------------------------------
(* Counting chunks.                                                        *)

LEMMA IndexesFinite == IsFiniteSet(Changesets)
<1>1. 1 \in Int /\ MaxIndex \in Int
  BY DownloadAssumption
<1> QED
  BY <1>1, FS_Interval DEF Changesets

LEMMA ChunksCount ==
    ASSUME NEW c, NEW m \in Nat, NEW n \in Nat
    PROVE  /\ IsFiniteSet({c} \X ((m + 1)..n))
           /\ Cardinality({c} \X ((m + 1)..n)) = IF m <= n THEN n - m ELSE 0
<1>1. m + 1 \in Int /\ n \in Int
  OBVIOUS
<1>2. /\ IsFiniteSet((m + 1)..n)
      /\ Cardinality((m + 1)..n) = IF m + 1 > n THEN 0 ELSE n - (m + 1) + 1
  BY <1>1, FS_Interval
<1>3. IsFiniteSet({c}) /\ Cardinality({c}) = 1
  BY FS_Singleton
<1>4. /\ IsFiniteSet({c} \X ((m + 1)..n))
      /\ Cardinality({c} \X ((m + 1)..n)) = 1 * Cardinality((m + 1)..n)
  BY <1>2, <1>3, FS_Product
<1> QED
  BY <1>2, <1>4

LEMMA MissingFinite ==
    ASSUME NEW k \in Calls
    PROVE  IsFiniteSet(Missing(k)) /\ Cardinality(Missing(k)) \in Nat
<1> DEFINE All(c) == {c} \X ((0 + 1)..FileSize[c])
           f == [c \in Changesets |-> All(c)]
           T == {f[c] : c \in Changesets}
<1>1. IsFiniteSet(T)
  <2>1. f \in Surjection(Changesets, T)
    BY Zenon DEF Surjection
  <2> QED
    BY <2>1, IndexesFinite, FS_Surjection
<1>2. \A U \in T : IsFiniteSet(U)
  <2>1. \A c \in Changesets : IsFiniteSet(All(c))
    BY ChunksCount, DownloadAssumption
  <2> QED
    BY <2>1
<1>3. IsFiniteSet(UNION T)
  BY <1>1, <1>2, FS_UNION
<1>4. Missing(k) \subseteq UNION T
  <2> SUFFICES ASSUME NEW p \in Missing(k) PROVE p \in UNION T
    OBVIOUS
  <2>1. /\ p[1] \in Changesets /\ p[2] \in Nat \ {0} /\ p = <<p[1], p[2]>>
        /\ FileSize[p[1]] \in Nat /\ p[2] <= FileSize[p[1]]
    BY DownloadAssumption DEF Missing
  <2>2. p \in All(p[1])
    BY <2>1
  <2> QED
    BY <2>1, <2>2
<1> QED
  BY <1>3, <1>4, FS_Subset, FS_CardinalityType

\* Chunks are added to those that are missing.
LEMMA MissingGrows ==
    ASSUME NEW k \in Calls, NEW c \in Changesets, NEW m \in Nat, NEW n \in Nat, m <= n,
           Missing(k)' = Missing(k) \union ({c} \X ((m + 1)..n)),
           Missing(k) \intersect ({c} \X ((m + 1)..n)) = {}
    PROVE  Cardinality(Missing(k)') = Cardinality(Missing(k)) + (n - m)
<1> DEFINE S == {c} \X ((m + 1)..n)
<1>1. IsFiniteSet(Missing(k)) /\ Cardinality(Missing(k)) \in Nat
  BY MissingFinite
<1>2. IsFiniteSet(S) /\ Cardinality(S) = n - m
  BY ChunksCount
<1>3. Cardinality(Missing(k) \union S)
          = Cardinality(Missing(k)) + Cardinality(S) - Cardinality(Missing(k) \intersect S)
  BY <1>1, <1>2, FS_Union
<1>4. Cardinality(Missing(k) \intersect S) = 0
  BY FS_EmptySet
<1> HIDE DEF S
<1> QED
  BY <1>1, <1>2, <1>3, <1>4 DEF S

\* One chunk is no longer missing.
LEMMA MissingShrinks ==
    ASSUME NEW k \in Calls, NEW p \in Missing(k), Missing(k)' = Missing(k) \ {p}
    PROVE  /\ Cardinality(Missing(k)') \in Nat
           /\ Cardinality(Missing(k)') + 1 = Cardinality(Missing(k))
<1>1. IsFiniteSet(Missing(k)) /\ Cardinality(Missing(k)) \in Nat
  BY MissingFinite
<1>2. Cardinality(Missing(k) \ {p}) = Cardinality(Missing(k)) - 1
  BY <1>1, FS_RemoveElement
<1>3. Cardinality(Missing(k)) # 0
  BY <1>1, FS_EmptySet
<1> QED
  BY <1>1, <1>2, <1>3

LEMMA GotTypes ==
    ASSUME TypeOK, NEW k \in Calls, NEW c \in Changesets
    PROVE  /\ FileSize[c] \in Nat \ {0} /\ position[k][c] \in Nat /\ Got(k, c) \in Nat
           /\ c \in Nat /\ 1 <= c /\ lastIndex \in Nat /\ cursor[k] \in Nat
           /\ downloaded[k] \in Nat /\ total[k] \in Nat
<1>1. FileSize[c] \in Nat \ {0} /\ c \in Nat /\ 1 <= c
  BY DownloadAssumption DEF Changesets
<1>2. position[k][c] \in Nat
  BY DEF TypeOK
<1>3. lastIndex \in Nat /\ cursor[k] \in Nat /\ downloaded[k] \in Nat /\ total[k] \in Nat
  BY DownloadAssumption DEF TypeOK
<1> QED
  BY <1>1, <1>2, <1>3 DEF Got
-------------------------------------------------------------------------------
(* The calls do not meddle with each other's progress.                     *)

ProgressSame(j) == /\ phase'[j] = phase[j] /\ step'[j] = step[j]
                   /\ cursor'[j] = cursor[j] /\ more'[j] = more[j] /\ result'[j] = result[j]
                   /\ downloaded'[j] = downloaded[j] /\ total'[j] = total[j]
                   /\ report'[j] = report[j]

\* A call that is not active has nothing left to receive.
LEMMA RestsProgress ==
    ASSUME NEW j \in Calls, ~Active(j), OneProgressInv(j), ProgressSame(j), lastIndex' = lastIndex
    PROVE  OneProgressInv(j)'
<1>1. ~Active(j)' /\ \A c \in Changesets : Running(j, c)' = Running(j, c)
  BY DEF Active, Running, ProgressSame
<1>2. ListedInv(j) => ListedInv(j)'
  BY <1>1 DEF ListedInv, ProgressSame
<1>3. BalanceInv(j)' /\ (ReportInv(j) => ReportInv(j)')
  BY <1>1 DEF BalanceInv, ReportInv, ProgressSame
<1> QED
  BY <1>2, <1>3 DEF OneProgressInv, Tracked, ProgressSame

LEMMA OneProgress ==
    ASSUME FileInv, ProgressInv, NEW k \in Calls, Active(k), overlap' = overlap,
           lastIndex' = lastIndex,
           \A j \in Calls : j # k => ProgressSame(j),
           Undisturbed => OneProgressInv(k)'
    PROVE  ProgressInv'
<1> SUFFICES ASSUME Undisturbed', NEW j \in Calls, j # k
             PROVE  OneProgressInv(j)'
  BY DEF ProgressInv, Undisturbed
<1>1. Undisturbed /\ OneProgressInv(j)
  BY DEF Undisturbed, ProgressInv
<1>2. ~Active(j)
  BY <1>1 DEF Undisturbed, FileInv, CallsApart, AloneInv, Busy
<1> QED
  BY <1>1, <1>2, RestsProgress

\* A step that leaves every chunk where it is.
LEMMA LevelProgress ==
    ASSUME NEW k \in Calls, Tracked(k), Active(k), OneProgressInv(k), ListedInv(k)',
           downloaded'[k] = downloaded[k], total'[k] = total[k], report'[k] = report[k],
           Counted(k)' = Counted(k),
           \A c \in Counted(k) \intersect Changesets : Got(k, c)' = Got(k, c),
           phase'[k] # "fulfilled"
    PROVE  OneProgressInv(k)'
<1>1. Missing(k)' = Missing(k)
  BY DEF Missing
<1>2. BalanceInv(k)' /\ ReportInv(k)'
  BY <1>1 DEF OneProgressInv, BalanceInv, ReportInv
<1> QED
  BY <1>2 DEF OneProgressInv, Tracked

\* A call that does not report.
LEMMA SilentProgress ==
    ASSUME NEW k \in Calls, ~Tracked(k), OneProgressInv(k), ~WithProgress[k] => report'[k] = report[k]
    PROVE  OneProgressInv(k)'
BY DEF OneProgressInv, Tracked
-------------------------------------------------------------------------------
(* The steps of the call.                                                  *)

LEMMA InitProgress == Init => ProgressInv
<1> SUFFICES ASSUME Init, NEW k \in Calls PROVE OneProgressInv(k)
  BY DEF ProgressInv
<1>1. /\ phase[k] = "idle" /\ cursor[k] = 0 /\ downloaded[k] = 0 /\ total[k] = 0
      /\ report[k] = <<0, 0>> /\ \A c \in Changesets : step[k][c] = "none"
  BY DEF Init
<1>2. ~Active(k)
  BY <1>1 DEF Active, Running, Waiting, Live, Scanning
<1>3. ListedInv(k) /\ BalanceInv(k) /\ ReportInv(k)
  BY <1>1, <1>2 DEF ListedInv, BalanceInv, ReportInv, Scanning
<1> QED
  BY <1>1, <1>3 DEF OneProgressInv

LEMMA BeginProgress ==
    ASSUME CallInv, FileInv, ProgressInv, NEW k \in Calls, Begin(k) PROVE ProgressInv'
<1>1. /\ TypeOK /\ phase[k] = "idle"
      /\ \A j \in 1..(k - 1) : phase[j] \in SettledPhases
      /\ overlap' = (overlap \/ \E j \in Calls, c \in Changesets :
                                  Running(j, c) \/ Writing(j, c))
      /\ phase' = [phase EXCEPT ![k] = IF Kind[k] = "list" /\ WithProgress[k]
                                       THEN "scanFetch" ELSE "fetch"]
      /\ UNCHANGED <<lastIndex, cursor, more, result, downloaded, total, report, step>>
  BY DEF CallInv, Begin, listVars, progressVars
<1>2. \A j \in Calls : j # k => ProgressSame(j)
  BY <1>1 DEF TypeOK, ProgressSame
<1>3. \A j \in Calls : phase[j] \in SettledPhases \union {"idle"}
  BY <1>1 DEF FileInv, OrderInv, Calls, SettledPhases
<1> SUFFICES ASSUME Undisturbed', NEW j \in Calls
             PROVE  OneProgressInv(j)'
  BY DEF ProgressInv
<1>4. /\ Undisturbed /\ OneProgressInv(j)
      /\ \A i \in Calls, c \in Changesets : ~Running(i, c)
  BY <1>1 DEF Undisturbed, ProgressInv
<1>5. CASE j # k
  <2>1. ~Active(j)
    BY <1>3, <1>4 DEF Active, Live, Scanning, SettledPhases
  <2> QED
    BY <1>1, <1>2, <1>4, <1>5, <2>1, RestsProgress
<1>6. CASE j = k /\ ~Tracked(k)
  BY <1>1, <1>4, <1>6, SilentProgress
<1>7. CASE j = k /\ Tracked(k)
  <2>1. /\ phase'[k] = "scanFetch" /\ cursor'[k] = 0 /\ step'[k] = step[k]
        /\ downloaded'[k] = 0 /\ total'[k] = 0 /\ report'[k] = <<0, 0>>
        /\ ListedInv(k)
    BY <1>1, <1>4, <1>7 DEF TypeOK, Tracked, OneProgressInv, ListedInv
  <2>2. ListedInv(k)'
    BY <1>1, <2>1 DEF ListedInv, Scanning
  <2>3. Missing(k)' = {}
    BY <2>1 DEF Missing, Counted
  <2>4. BalanceInv(k)' /\ ReportInv(k)'
    BY <2>1, <2>3, FS_EmptySet DEF BalanceInv, ReportInv
  <2> QED
    BY <1>7, <2>2, <2>4 DEF OneProgressInv, Tracked
<1> QED
  BY <1>5, <1>6, <1>7

LEMMA FetchMinimalPageProgress ==
    ASSUME CallInv, FileInv, ProgressInv, NEW k \in Calls, FetchMinimalPage(k) PROVE ProgressInv'
<1>1. /\ TypeOK /\ OneCallInv(k) /\ phase[k] = "scanFetch" /\ Active(k)
      /\ UNCHANGED <<lastIndex, overlap, late, present, chunks, unwritten, result, downloaded,
                     total, report, position>>
      /\ \A c \in Changesets : step[k][c] = "none"
      /\ cursor[k] <= lastIndex
  BY DEF CallInv, FetchMinimalPage, worldVars, fileVars, progressVars, streamVars, Active, Live,
         Scanning, OneCallInv, PhaseInv
<1>2. \/ /\ PageEnd(k) = cursor[k]
         /\ phase' = [phase EXCEPT ![k] = "fetch"] /\ cursor' = [cursor EXCEPT ![k] = 0]
         /\ UNCHANGED <<more, step>>
      \/ /\ PageEnd(k) # cursor[k]
         /\ phase' = [phase EXCEPT ![k] = "scan"]
         /\ cursor' = [cursor EXCEPT ![k] = PageEnd(k)]
         /\ more' = [more EXCEPT ![k] = PageEnd(k) < lastIndex]
         /\ step' = [step EXCEPT ![k][cursor[k] + 1] = "exists"]
  BY DEF FetchMinimalPage
<1>3. "exists" \in StepNames
  BY DEF StepNames, Waiting
<1>4. \A j \in Calls : j # k => step'[j] = step[j]
  <2>1. CASE step' = [step EXCEPT ![k][cursor[k] + 1] = "exists"]
    BY <1>1, <1>3, <2>1, StepChange
  <2> QED
    BY <1>2, <2>1
<1>5. \A j \in Calls : j # k => ProgressSame(j)
  BY <1>1, <1>2, <1>4 DEF TypeOK, ProgressSame
<1>6. /\ lastIndex \in Nat /\ cursor[k] \in Nat /\ PageSize \in Nat \ {0} /\ MaxIndex \in Nat
      /\ lastIndex <= MaxIndex
  BY <1>1, DownloadAssumption DEF TypeOK
<1>7. ASSUME Undisturbed, OneProgressInv(k), Tracked(k)
      PROVE  OneProgressInv(k)'
  <2>1. CASE PageEnd(k) = cursor[k]
    <3>1. cursor[k] = lastIndex
      BY <1>1, <1>6, <2>1 DEF PageEnd
    <3>2. phase'[k] = "fetch" /\ cursor'[k] = 0 /\ step'[k] = step[k] /\ result'[k] = result[k]
      BY <1>1, <1>2, <2>1 DEF TypeOK
    <3>3. result[k] = {} /\ 1..0 = {}
      BY <1>1 DEF OneCallInv, PhaseInv, Scanning
    <3>4. ListedInv(k)'
      BY <1>1, <1>7, <3>2, <3>3 DEF ListedInv, OneProgressInv, Scanning
    <3>5. Counted(k)' = Counted(k)
      BY <1>1, <3>1, <3>2 DEF Counted
    <3>6. \A c \in Changesets : Got(k, c)' = Got(k, c)
      BY <1>1, <3>2 DEF Got, SizeMatches
    <3> QED
      BY <1>1, <1>7, <3>2, <3>4, <3>5, <3>6, LevelProgress
  <2>2. CASE PageEnd(k) # cursor[k]
    <3>0. /\ PageEnd(k) \in Nat /\ cursor[k] < PageEnd(k) /\ PageEnd(k) <= lastIndex
          /\ cursor[k] + 1 \in Changesets
      BY <1>1, <1>6, <2>2 DEF PageEnd, Changesets
    <3> PICK d \in Changesets : d = cursor[k] + 1
      BY <3>0
    <3>1. /\ PageEnd(k) \in Nat /\ cursor[k] < PageEnd(k) /\ PageEnd(k) <= lastIndex
          /\ d \in Nat /\ d = cursor[k] + 1 /\ d <= PageEnd(k) /\ d <= lastIndex
      BY <1>6, <3>0
    <3>2. /\ phase'[k] = "scan" /\ cursor'[k] = PageEnd(k)
          /\ more'[k] = (PageEnd(k) < lastIndex)
          /\ \A c \in Changesets : step'[k][c] = IF c = d THEN "exists" ELSE "none"
      <4>1. step' = [step EXCEPT ![k][d] = "exists"]
        BY <1>2, <2>2, <3>1
      <4>2. \A c \in Changesets : step'[k][c] = IF c = d THEN "exists" ELSE step[k][c]
        BY <1>1, <1>3, <4>1, StepChange
      <4> QED
        BY <1>1, <1>2, <2>2, <4>2 DEF TypeOK
    <3>3. Running(k, d)' /\ \A c \in Changesets : c # d => ~Running(k, c)'
      BY <3>1, <3>2 DEF Running, Waiting
    <3>4. ListedInv(k)'
      BY <1>1, <1>7, <3>1, <3>2, <3>3 DEF ListedInv, OneProgressInv, Scanning
    <3>5. Counted(k)' = Counted(k)
      <4>1. Counted(k) = 1..cursor[k]
        BY <1>1 DEF Counted
      <4>2. Counted(k)' = {c \in Changesets : c < d}
        BY <3>1, <3>2, <3>3 DEF Counted
      <4> QED
        BY <1>6, <3>1, <4>1, <4>2 DEF Changesets
    <3>6. \A c \in Changesets : Got(k, c)' = Got(k, c)
      BY <1>1, <3>2 DEF Got, SizeMatches, Undecided
    <3> QED
      BY <1>1, <1>7, <3>2, <3>4, <3>5, <3>6, LevelProgress
  <2> QED
    BY <2>1, <2>2
<1>8. Undisturbed => OneProgressInv(k)'
  BY <1>1, <1>7, SilentProgress DEF ProgressInv
<1> QED
  BY <1>1, <1>5, <1>8, OneProgress

LEMMA QuerySingleProgress ==
    ASSUME CallInv, FileInv, ProgressInv, NEW k \in Calls, QuerySingle(k) PROVE ProgressInv'
<1>1. /\ TypeOK /\ phase[k] = "fetch" /\ Active(k) /\ Kind[k] = "single"
      /\ \E c : result' = [result EXCEPT ![k] = {c}] /\ step' = [step EXCEPT ![k][c] = "exists"]
      /\ phase' = [phase EXCEPT ![k] = "download"]
      /\ UNCHANGED <<lastIndex, overlap, late, cursor, more, downloaded, total, report>>
  BY DEF CallInv, QuerySingle, worldVars, progressVars, Active, Live
<1>2. "exists" \in StepNames
  BY DEF StepNames, Waiting
<1>3. \A j \in Calls : j # k => ProgressSame(j)
  <2>1. \A j \in Calls : j # k => step'[j] = step[j]
    BY <1>1, <1>2, StepChange
  <2> QED
    BY <1>1, <2>1 DEF TypeOK, ProgressSame
<1>4. Undisturbed => OneProgressInv(k)'
  BY <1>1, SilentProgress DEF ProgressInv, Tracked
<1> QED
  BY <1>1, <1>3, <1>4, OneProgress

\* The page that is asked for next follows the last one.
LEMMA FetchPageProgress ==
    ASSUME CallInv, FileInv, ProgressInv, NEW k \in Calls, FetchPage(k) PROVE ProgressInv'
<1> DEFINE page == (cursor[k] + 1)..PageEnd(k)
           steps == [c \in Changesets |-> IF c \in page THEN "queued" ELSE step[k][c]]
<1>1. /\ TypeOK /\ OneCallInv(k) /\ phase[k] = "fetch" /\ Active(k) /\ Kind[k] = "list"
      /\ phase' = [phase EXCEPT ![k] = "download"]
      /\ cursor' = [cursor EXCEPT ![k] = PageEnd(k)]
      /\ more' = [more EXCEPT ![k] = PageEnd(k) < lastIndex]
      /\ result' = [result EXCEPT ![k] = @ \union page]
      /\ UNCHANGED <<lastIndex, overlap, late, present, chunks, unwritten, downloaded, total,
                     report, position>>
  BY DEF CallInv, FetchPage, worldVars, fileVars, progressVars, streamVars, Active, Live
<1>2. /\ lastIndex \in Nat /\ cursor[k] \in Nat /\ PageSize \in Nat \ {0} /\ MaxIndex \in Nat
      /\ lastIndex <= MaxIndex /\ cursor[k] <= lastIndex
  BY <1>1, DownloadAssumption DEF TypeOK, OneCallInv, PhaseInv
<1>3. PageEnd(k) \in Nat /\ cursor[k] <= PageEnd(k) /\ PageEnd(k) <= lastIndex
  BY <1>2 DEF PageEnd
<1>4. page \in SUBSET Changesets
  BY <1>2, <1>3 DEF Changesets
<1>5. PICK q \in BySize(page) : TurnQueue(k, [NewQueue EXCEPT !.queue = q], steps)
  BY DEF FetchPage
<1> DEFINE p == [NewQueue EXCEPT !.queue = q]
<1>6. p \in Queues(Changesets) /\ WellFormed(p) /\ Queued(p) = page
  BY <1>4, PageQueue
<1>7. Started(p) \subseteq page
  BY <1>6, LoopMovesItems
<1>8. /\ \A j \in Calls : j # k => step'[j] = step[j]
      /\ \A c \in Changesets :
            step'[k][c] = IF c \in Started(p) THEN "exists" ELSE steps[c]
  BY <1>1, <1>5 DEF TypeOK, TurnQueue
<1> HIDE DEF p
<1>9. \A j \in Calls : j # k => ProgressSame(j)
  BY <1>1, <1>8 DEF TypeOK, ProgressSame
<1>10. ASSUME Undisturbed, OneProgressInv(k), Tracked(k)
       PROVE  OneProgressInv(k)'
  <2>1. result[k] = 1..cursor[k] /\ \A c \in Changesets : step[k][c] # "none" => c <= lastIndex
    BY <1>1, <1>10 DEF OneProgressInv, ListedInv, Scanning
  <2>2. \A c \in Changesets : c \in page => step[k][c] = "none"
    BY <1>1, <1>2, <2>1 DEF OneCallInv, PhaseInv
  <2>3. \A c \in Changesets : \/ step'[k][c] = step[k][c]
                              \/ /\ step[k][c] = "none" /\ step'[k][c] \in {"queued", "exists"}
                                 /\ c <= lastIndex
    BY <1>2, <1>3, <1>7, <1>8, <2>2
  <2>4. /\ phase'[k] = "download" /\ cursor'[k] = PageEnd(k)
        /\ more'[k] = (PageEnd(k) < lastIndex) /\ result'[k] = result[k] \union page
    BY <1>1 DEF TypeOK
  <2>5. result[k] \union page = 1..PageEnd(k)
    BY <1>2, <1>3, <2>1
  <2> HIDE DEF page, steps
  <2>6. ListedInv(k)'
    BY <1>1, <2>1, <2>3, <2>4, <2>5 DEF ListedInv, Scanning
  <2>7. Counted(k)' = Counted(k)
    BY <1>1, <2>4 DEF Counted
  <2>8. \A c \in Changesets : Got(k, c)' = Got(k, c)
    BY <1>1, <2>3 DEF Got, SizeMatches, Undecided
  <2> QED
    BY <1>1, <1>10, <2>4, <2>6, <2>7, <2>8, LevelProgress
<1>11. Undisturbed => OneProgressInv(k)'
  BY <1>1, <1>10, SilentProgress DEF ProgressInv
<1> QED
  BY <1>1, <1>9, <1>11, OneProgress

\* A turn of the queue, or an end that leaves downloads running.
LEMMA WaitProgress ==
    ASSUME CallInv, FileInv, ProgressInv, NEW k \in Calls, ResumeWaitAll(k) \/ WaitAllThrows(k)
    PROVE  ProgressInv'
<1>1. /\ TypeOK /\ phase[k] = "download" /\ Active(k)
      /\ phase' \in {phase, [phase EXCEPT ![k] = "rejected"]}
      /\ UNCHANGED <<lastIndex, overlap, late, present, chunks, unwritten, cursor, more,
                     result, downloaded, total,
                     report, position>>
  BY DEF CallInv, ResumeWaitAll, WaitAllThrows, worldVars, fileVars, listVars, progressVars,
         streamVars, Active, Live
<1>2. /\ \A j \in Calls : j # k => step'[j] = step[j]
      /\ \A c \in Changesets : \/ step'[k][c] = step[k][c]
                               \/ step[k][c] = "queued" /\ step'[k][c] = "exists"
  <2>1. CASE ResumeWaitAll(k)
    <3>1. step' = [step EXCEPT ![k] = [c \in Changesets |->
                       IF c \in Started(pool[k]) THEN "exists" ELSE step[k][c]]]
      BY <2>1 DEF ResumeWaitAll, TurnQueue
    <3>2. /\ pool[k] \in Queues(Changesets) /\ WellFormed(pool[k])
          /\ Queued(pool[k]) = {c \in Changesets : step[k][c] = "queued"}
      BY DEF CallInv, TypeOK, OneCallInv, QueueInv
    <3>3. \A c \in Changesets : c \in Started(pool[k]) => step[k][c] = "queued"
      BY <3>2, LoopMovesItems
    <3> QED
      BY <1>1, <3>1, <3>3 DEF TypeOK
  <2>2. CASE WaitAllThrows(k)
    BY <2>2 DEF WaitAllThrows
  <2> QED
    BY <2>1, <2>2
<1>3. \A j \in Calls : j # k => ProgressSame(j)
  BY <1>1, <1>2 DEF TypeOK, ProgressSame
<1>4. ASSUME Undisturbed, OneProgressInv(k), Tracked(k)
      PROVE  OneProgressInv(k)'
  <2>1. phase'[k] \in {"download", "rejected"}
    BY <1>1 DEF TypeOK
  <2>2. ListedInv(k)'
    BY <1>1, <1>2, <1>4, <2>1 DEF OneProgressInv, ListedInv, Scanning
  <2>3. Counted(k)' = Counted(k)
    BY <1>1, <2>1 DEF Counted
  <2>4. \A c \in Changesets : Got(k, c)' = Got(k, c)
    BY <1>1, <1>2 DEF Got, SizeMatches, Undecided
  <2> QED
    BY <1>1, <1>4, <2>1, <2>2, <2>3, <2>4, LevelProgress
<1>5. Undisturbed => OneProgressInv(k)'
  BY <1>1, <1>4, SilentProgress DEF ProgressInv
<1> QED
  BY <1>1, <1>3, <1>5, OneProgress

\* When the last page is done nothing is missing.
LEMMA PageDoneProgress ==
    ASSUME CallInv, FileInv, ProgressInv, NEW k \in Calls, PageDone(k) PROVE ProgressInv'
<1>1. /\ TypeOK /\ OneCallInv(k) /\ CallInv' /\ phase[k] = "download" /\ Active(k)
      /\ phase' = [phase EXCEPT ![k] = IF more[k] THEN "fetch" ELSE "fulfilled"]
      /\ UNCHANGED <<lastIndex, overlap, late, present, chunks, unwritten, cursor, more,
                     result, downloaded, total,
                     report, position, step>>
  BY PageDoneCall DEF CallInv, PageDone, worldVars, fileVars, listVars, progressVars, streamVars,
         Active, Live
<1>2. \A j \in Calls : j # k => ProgressSame(j)
  BY <1>1 DEF TypeOK, ProgressSame
<1>3. ASSUME Undisturbed, OneProgressInv(k), Tracked(k)
      PROVE  OneProgressInv(k)'
  <2>1. ListedInv(k) /\ BalanceInv(k) /\ ReportInv(k)
    BY <1>3 DEF OneProgressInv
  <2>2. CASE more[k]
    <3>1. phase'[k] = "fetch"
      BY <1>1, <2>2 DEF TypeOK
    <3>2. ListedInv(k)'
      BY <1>1, <2>1, <3>1 DEF ListedInv, Scanning
    <3>3. Counted(k)' = Counted(k) /\ \A c \in Changesets : Got(k, c)' = Got(k, c)
      BY <1>1, <3>1 DEF Counted, Got, SizeMatches
    <3> QED
      BY <1>1, <1>3, <3>1, <3>2, <3>3, LevelProgress
  <2>3. CASE ~more[k]
    <3>1. phase'[k] = "fulfilled"
      BY <1>1, <2>3 DEF TypeOK
    <3>2. \A c \in Changesets : c \in result[k] => step[k][c] = "done"
      BY <1>1, <3>1 DEF CallInv, OneCallInv, PhaseInv
    <3>3. lastIndex \in Nat /\ cursor[k] \in Nat /\ cursor[k] <= lastIndex
      BY <1>1, DownloadAssumption DEF TypeOK, OneCallInv, PhaseInv
    <3>4. result[k] = 1..lastIndex
      BY <1>1, <2>1, <2>3, <3>3 DEF ListedInv, Scanning
    <3>5. Counted(k) = 1..lastIndex
      BY <1>1 DEF Counted
    <3>6. Missing(k) = {}
      <4> SUFFICES ASSUME NEW p \in Missing(k) PROVE FALSE
        OBVIOUS
      <4>1. /\ p[1] \in Changesets /\ p[1] \in Counted(k) /\ p[2] \in Nat
            /\ Got(k, p[1]) < p[2] /\ p[2] <= FileSize[p[1]]
        BY DEF Missing
      <4>2. Got(k, p[1]) = FileSize[p[1]]
        BY <3>2, <3>4, <3>5, <4>1 DEF Got, Undecided
      <4> QED
        BY <1>1, <4>1, <4>2, GotTypes
    <3>7. downloaded[k] = total[k] /\ report[k] \in {<<0, 0>>, <<downloaded[k], total[k]>>}
      <4>1. downloaded[k] \in Nat /\ total[k] \in Nat
        BY <1>1 DEF TypeOK
      <4> QED
        BY <1>1, <2>1, <3>6, <4>1, FS_EmptySet DEF BalanceInv
    <3>8. report'[k][1] = report'[k][2]
      BY <1>1, <3>7
    <3>9. ReportInv(k)'
      BY <1>1, <2>1, <3>8 DEF ReportInv
    <3>10. ~Active(k)'
      BY <1>1, <3>1 DEF CallInv, OneCallInv, PhaseInv, Active, Running, Waiting, Live, Scanning
    <3>11. ListedInv(k)'
      BY <1>1, <2>1, <3>1 DEF ListedInv, Scanning
    <3> QED
      BY <1>3, <3>9, <3>10, <3>11 DEF OneProgressInv, BalanceInv, Tracked
  <2> QED
    BY <2>2, <2>3
<1>4. Undisturbed => OneProgressInv(k)'
  BY <1>1, <1>3, SilentProgress DEF ProgressInv
<1> QED
  BY <1>1, <1>2, <1>4, OneProgress

\* A call that gives up with nothing running.
LEMMA FetchFailsProgress ==
    ASSUME CallInv, FileInv, ProgressInv, NEW k \in Calls, FetchFails(k) PROVE ProgressInv'
<1>1. /\ TypeOK /\ OneCallInv(k) /\ phase[k] \in {"scanFetch", "fetch"} /\ Active(k)
      /\ phase' = [phase EXCEPT ![k] = "rejected"]
      /\ UNCHANGED <<lastIndex, overlap, late, cursor, more, result, downloaded, total, report,
                     step>>
  BY DEF CallInv, FetchFails, worldVars, listVars, progressVars, Active, Live, Scanning
<1>2. \A j \in Calls : j # k => ProgressSame(j)
  BY <1>1 DEF TypeOK, ProgressSame
<1>3. phase'[k] = "rejected"
  BY <1>1 DEF TypeOK
<1>4. ~Active(k)'
  BY <1>1, <1>3 DEF OneCallInv, PhaseInv, Active, Running, Waiting, Live, Scanning
<1>5. OneProgressInv(k) => OneProgressInv(k)'
  BY <1>1, <1>3, <1>4 DEF OneProgressInv, Tracked, ListedInv, BalanceInv, ReportInv, Scanning
<1>6. Undisturbed => OneProgressInv(k)'
  BY <1>5 DEF ProgressInv
<1> QED
  BY <1>1, <1>2, <1>6, OneProgress

LEMMA CrashProgress == ASSUME CallInv, ProgressInv, Crash PROVE ProgressInv'
<1>1. /\ TypeOK
      /\ \A k \in Calls : phase'[k] = IF phase[k] \in Live THEN "crashed" ELSE phase[k]
      /\ \A k \in Calls, c \in Changesets :
            step'[k][c] = IF Running(k, c) \/ step[k][c] = "queued" THEN "none" ELSE step[k][c]
      /\ UNCHANGED <<lastIndex, overlap, late, cursor, more, result, downloaded, total, report>>
  BY DEF CallInv, Crash, worldVars, listVars, progressVars
<1> SUFFICES ASSUME Undisturbed, NEW k \in Calls, OneProgressInv(k)
             PROVE  OneProgressInv(k)'
  BY <1>1 DEF ProgressInv, Undisturbed
<1>2. ~Active(k)'
  BY <1>1 DEF Active, Running, Waiting, Live, Scanning
<1>3. ListedInv(k) => ListedInv(k)'
  BY <1>1 DEF ListedInv, Live, Scanning
<1>4. BalanceInv(k)' /\ (ReportInv(k) => ReportInv(k)')
  BY <1>1, <1>2 DEF BalanceInv, ReportInv
<1> QED
  BY <1>1, <1>3, <1>4 DEF OneProgressInv, Tracked

\* What is pushed is a disturbance, and a signal moves nothing.
LEMMA WorldProgress ==
    ASSUME CallInv, ProgressInv, PushChangeset \/ (\E k \in Calls : Abort(k)) \/ UNCHANGED vars
    PROVE  ProgressInv'
<1>1. CASE PushChangeset
  <2>1. lastIndex' = lastIndex + 1 /\ lastIndex \in Nat /\ InitialIndex \in Nat
        /\ InitialIndex <= lastIndex
    BY <1>1, DownloadAssumption DEF PushChangeset, CallInv, TypeOK
  <2> QED
    BY <2>1 DEF ProgressInv, Undisturbed
<1>2. CASE UNCHANGED <<lastIndex, overlap, present, chunks, phase, cursor, more, result,
                       downloaded, total, report, step, position>>
  <2> SUFFICES ASSUME Undisturbed, NEW k \in Calls, OneProgressInv(k)
               PROVE  OneProgressInv(k)'
    BY <1>2 DEF ProgressInv, Undisturbed
  <2>1. /\ \A c \in Changesets : Running(k, c)' = Running(k, c) /\ Got(k, c)' = Got(k, c)
        /\ Active(k)' = Active(k)
    BY <1>2 DEF Running, Active, Got, SizeMatches
  <2>2. Counted(k)' = Counted(k)
    BY <1>2, <2>1 DEF Counted
  <2>3. Missing(k)' = Missing(k)
    BY <2>1, <2>2 DEF Missing
  <2>4. (ListedInv(k) => ListedInv(k)') /\ (BalanceInv(k) => BalanceInv(k)')
    BY <1>2, <2>1, <2>3 DEF ListedInv, BalanceInv
  <2> QED
    BY <1>2, <2>4 DEF OneProgressInv, ReportInv, Tracked
<1> QED
  BY <1>1, <1>2 DEF Abort, vars, worldVars, fileVars, listVars, progressVars, streamVars
-------------------------------------------------------------------------------
(* The downloads.                                                          *)

\* A download moves, and the call has of it what it had.
LEMMA MoveProgress ==
    ASSUME CallInv, NEW k \in Calls, NEW c \in Changesets, Running(k, c), Tracked(k),
           OneProgressInv(k), NEW v,
           phase[k] = "scan" => v \in LookSteps,
           step' = [step EXCEPT ![k][c] = v], v \in StepNames,
           UNCHANGED <<lastIndex, phase, cursor, more, result, downloaded, total, report>>,
           \A d \in Changesets : d # c => /\ present'[d] = present[d] /\ chunks'[d] = chunks[d]
                                          /\ position'[k][d] = position[k][d],
           Got(k, c)' = Got(k, c)
    PROVE  OneProgressInv(k)'
<1>1. /\ TypeOK /\ OneCallInv(k) /\ Active(k) /\ step[k][c] # "none"
  BY DEF CallInv, Active, Running, Waiting
<1>2. \A d \in Changesets : step'[k][d] = IF d = c THEN v ELSE step[k][d]
  BY <1>1, StepChange
<1>3. phase[k] = "scan" => \A d \in Changesets : Running(k, d)' = Running(k, d)
  BY <1>2 DEF Running, LookSteps, Waiting
<1>4. ListedInv(k)'
  <2>1. ListedInv(k)
    BY DEF OneProgressInv
  <2>2. \A d \in Changesets : step'[k][d] # "none" => d <= lastIndex
    BY <1>1, <1>2, <2>1 DEF ListedInv
  <2> QED
    BY <1>3, <2>1, <2>2 DEF ListedInv
<1>5. Counted(k)' = Counted(k)
  BY <1>3 DEF Counted
<1>6. \A d \in Changesets : Got(k, d)' = Got(k, d)
  BY <1>2 DEF Got, SizeMatches
<1>7. phase'[k] # "fulfilled"
  BY <1>1 DEF OneCallInv, PhaseInv, Running, Waiting
<1> QED
  BY <1>1, <1>4, <1>5, <1>6, <1>7, LevelProgress

\* The look ahead of the downloads counts one more changeset.
LEMMA ScannedProgress ==
    ASSUME CallInv, NEW k \in Calls, NEW c \in Changesets, step[k][c] \in LookSteps, Tracked(k),
           phase[k] = "scan", OneProgressInv(k), Scanned(k, c, IF SizeMatches(c)' THEN FileSize[c] ELSE 0),
           UNCHANGED <<lastIndex, more, result, position>>,
           \A d \in Changesets : d # c => present'[d] = present[d] /\ chunks'[d] = chunks[d]
    PROVE  OneProgressInv(k)'
<1> PICK has \in Nat : has = IF SizeMatches(c)' THEN FileSize[c] ELSE 0
  BY DownloadAssumption
<1>1. /\ TypeOK /\ OneCallInv(k) /\ ListedInv(k) /\ BalanceInv(k) /\ Active(k)
      /\ \A d \in Changesets : d # c => step[k][d] = "none"
      /\ Running(k, c) /\ \A d \in Changesets : Running(k, d) => d = c
  BY DEF CallInv, OneProgressInv, OneCallInv, PhaseInv, Running, Waiting, LookSteps, Active, Live,
         Scanning
<1>2. /\ FileSize[c] \in Nat \ {0} /\ c \in Nat /\ 1 <= c /\ c <= MaxIndex /\ MaxIndex \in Nat
      /\ cursor[k] \in Nat /\ lastIndex \in Nat /\ downloaded[k] \in Nat /\ total[k] \in Nat
      /\ cursor[k] <= lastIndex /\ lastIndex <= MaxIndex
      /\ c <= cursor[k] /\ (more[k] <=> cursor[k] < lastIndex)
      /\ report[k] = <<0, 0>>
  BY <1>1, DownloadAssumption DEF TypeOK, OneCallInv, PhaseInv, ListedInv, Changesets, Scanning
<1>3. /\ total' = [total EXCEPT ![k] = @ + FileSize[c]]
      /\ downloaded' = [downloaded EXCEPT ![k] = @ + has]
      /\ report' = report
  BY DEF Scanned
<1>4. has \in Nat /\ has <= FileSize[c]
  BY <1>2
<1>5. /\ total'[k] = total[k] + FileSize[c] /\ downloaded'[k] = downloaded[k] + has
      /\ report'[k] = <<0, 0>>
  BY <1>1, <1>2, <1>3, <1>4 DEF TypeOK
<1>6. /\ ListedInv(k)' /\ step'[k][c] = "none"
      /\ \A d \in Changesets : d < c => step'[k][d] = "none"
      /\ Counted(k)' = 1..c /\ phase'[k] # "fulfilled"
  <2>1. CASE c < cursor[k]
    <3>1. c + 1 \in Changesets
      BY <1>2, <2>1 DEF Changesets
    <3> PICK d \in Changesets : d = c + 1
      BY <3>1
    <3>2. /\ step' = [step EXCEPT ![k][c] = "none", ![k][d] = "exists"]
          /\ UNCHANGED <<phase, cursor>>
      BY <2>1 DEF Scanned
    <3>3. /\ step'[k][d] = "exists" /\ d # c
          /\ \A e \in Changesets : e # d => step'[k][e] = "none"
      BY <1>1, <1>2, <3>2 DEF TypeOK
    <3>4. Running(k, d)' /\ \A e \in Changesets : Running(k, e)' => e = d
      BY <3>3 DEF Running, Waiting
    <3>5. d <= cursor[k] /\ d <= lastIndex
      BY <1>2, <2>1
    <3>6. ListedInv(k)'
      BY <1>1, <1>2, <1>5, <3>2, <3>3, <3>4, <3>5 DEF ListedInv
    <3>7. Counted(k)' = {e \in Changesets : e < d}
      BY <3>2, <3>4 DEF Counted
    <3>8. {e \in Changesets : e < d} = 1..c
      BY <1>2 DEF Changesets
    <3>9. \A e \in Changesets : e < c => e # d
      BY <1>2 DEF Changesets
    <3>10. step'[k][c] = "none" /\ phase'[k] = "scan"
      BY <3>2, <3>3
    <3> QED
      BY <3>3, <3>6, <3>7, <3>8, <3>9, <3>10
  <2>2. CASE ~(c < cursor[k])
    <3>1. /\ step' = [step EXCEPT ![k][c] = "none"] /\ c = cursor[k]
          /\ phase' = [phase EXCEPT ![k] = IF more[k] THEN "scanFetch" ELSE "fetch"]
          /\ cursor' = [cursor EXCEPT ![k] = IF more[k] THEN @ ELSE 0]
      BY <1>2, <2>2 DEF Scanned
    <3>2. \A e \in Changesets : step'[k][e] = "none"
      BY <1>1, <3>1 DEF TypeOK
    <3>3. result[k] = {} /\ 1..0 = {}
      BY <1>1 DEF OneCallInv, PhaseInv, Scanning
    <3>4. CASE more[k]
      <4>1. phase'[k] = "scanFetch" /\ cursor'[k] = c
        BY <1>1, <3>1, <3>4 DEF TypeOK
      <4>2. ListedInv(k)'
        BY <1>1, <1>5, <3>2, <4>1 DEF ListedInv
      <4> QED
        BY <3>2, <4>1, <4>2 DEF Counted
    <3>5. CASE ~more[k]
      <4>1. phase'[k] = "fetch" /\ cursor'[k] = 0
        BY <1>1, <3>1, <3>5 DEF TypeOK
      <4>2. ListedInv(k)'
        BY <1>1, <1>5, <3>2, <3>3, <4>1 DEF ListedInv, Scanning
      <4>3. lastIndex = c
        BY <1>2, <3>1, <3>5
      <4> QED
        BY <3>2, <4>1, <4>2, <4>3 DEF Counted
    <3> QED
      BY <3>4, <3>5
  <2> QED
    BY <2>1, <2>2
<1>7. /\ Missing(k)' = Missing(k) \union ({c} \X ((has + 1)..FileSize[c]))
      /\ Missing(k) \intersect ({c} \X ((has + 1)..FileSize[c])) = {}
  <2>1. Counted(k) = {d \in Changesets : d < c}
    BY <1>1 DEF Counted
  <2>2. c \notin Counted(k) /\ \A d \in Changesets : d \in Counted(k)' <=> d \in Counted(k) \/ d = c
    BY <1>2, <1>6, <2>1 DEF Changesets
  <2>3. Got(k, c)' = has
    BY <1>6 DEF Got, Undecided
  <2>4. ASSUME NEW d \in Counted(k)
        PROVE  Got(k, d)' = Got(k, d)
    <3>1. d \in Changesets /\ d < c /\ d # c
      BY <1>2, <2>1
    <3>2. /\ step[k][d] = "none" /\ step'[k][d] = "none"
          /\ present'[d] = present[d] /\ chunks'[d] = chunks[d]
      BY <1>1, <1>6, <3>1
    <3> QED
      BY <3>2 DEF Got, Undecided, SizeMatches
  <2>5. \A d \in Changesets, i \in Nat \ {0} : <<d, i>> \in Missing(k) <=>
            d \in Counted(k) /\ Got(k, d) < i /\ i <= FileSize[d]
    BY DEF Missing
  <2>6. \A d \in Changesets, i \in Nat \ {0} : <<d, i>> \in Missing(k)' <=>
            d \in Counted(k)' /\ Got(k, d)' < i /\ i <= FileSize[d]
    BY DEF Missing
  <2>7. \A d \in Changesets, i \in Nat \ {0} :
            <<d,
              i>> \in {c} \X ((has + 1)..FileSize[c]) <=> d = c /\ has < i /\ i <= FileSize[c]
    BY <1>2, <1>4
  <2>8. Missing(k) \subseteq Changesets \X (Nat \ {0}) /\ Missing(k)' \subseteq Changesets \X (Nat \ {0})
        /\ {c} \X ((has + 1)..FileSize[c]) \subseteq Changesets \X (Nat \ {0})
    BY <1>2, <1>4 DEF Missing
  <2>9. \A p \in Changesets \X (Nat \ {0}) :
            p \in Missing(k)' <=> p \in Missing(k) \/ p \in {c} \X ((has + 1)..FileSize[c])
    BY <2>2, <2>3, <2>4, <2>5, <2>6, <2>7
  <2>10. \A p \in Changesets \X (Nat \ {0}) :
            ~(p \in Missing(k) /\ p \in {c} \X ((has + 1)..FileSize[c]))
    BY <2>2, <2>5, <2>7
  <2> QED
    BY <2>8, <2>9, <2>10
<1>8. BalanceInv(k)'
  <2>1. Cardinality(Missing(k)') = Cardinality(Missing(k)) + (FileSize[c] - has)
    <3>1. FileSize[c] \in Nat /\ has \in Nat /\ has <= FileSize[c]
      BY <1>2, <1>4
    <3> QED
      BY ONLY <1>7, <3>1, MissingGrows, k \in Calls, c \in Changesets
  <2>2. Cardinality(Missing(k)) \in Nat /\ downloaded[k] + Cardinality(Missing(k)) = total[k]
    BY <1>1, MissingFinite DEF BalanceInv
  <2>3. downloaded'[k] + Cardinality(Missing(k)') = total'[k]
    BY <1>2, <1>4, <1>5, <2>1, <2>2
  <2> QED
    BY <1>5, <2>3 DEF BalanceInv
<1>9. ReportInv(k)'
  BY <1>5, <1>6 DEF ReportInv
<1> QED
  BY <1>6, <1>8, <1>9 DEF OneProgressInv, Tracked

\* What a look at the file may come to, according to what it finds.
LEMMA LookProgress ==
    ASSUME CallInv, FileInv, ProgressInv, NEW k \in Calls, NEW c \in Changesets,
           step[k][c] \in LookSteps, LookFrame,
           \A d \in Changesets : d # c => present'[d] = present[d] /\ chunks'[d] = chunks[d],
           \/ AlreadyDownloaded(k, c) /\ SizeMatches(c) /\ SizeMatches(c)'
           \/ /\ NotDownloaded(k, c) \/ CheckThrows(k, c)
              /\ (Undisturbed => ~SizeMatches(c)) /\ ~SizeMatches(c)'
           \/ /\ \E v \in {"size", "delete"} : step' = [step EXCEPT ![k][c] = v]
              /\ UNCHANGED <<phase, cursor, pool, progressVars>>
              /\ SizeMatches(c)' = SizeMatches(c)
    PROVE  ProgressInv'
<1>1. /\ TypeOK /\ OneCallInv(k) /\ Running(k, c) /\ Active(k) /\ c + 1 # c
      /\ position[k][c] = 0
      /\ UNCHANGED <<lastIndex, overlap, late, more, result, position>>
  BY DEF CallInv, OneCallInv, AttemptsInv, LookFrame, Running, Waiting, LookSteps, Active, Changesets
<1>2. /\ report' = report
      /\ \A j \in Calls : j # k => ProgressSame(j)
  BY <1>1 DEF TypeOK, ProgressSame, AlreadyDownloaded, NotDownloaded, CheckThrows, Scanned, Settle,
              progressVars
<1>3. ASSUME Undisturbed, OneProgressInv(k), Tracked(k)
      PROVE  OneProgressInv(k)'
  <2> DEFINE Moves(v) == /\ step' = [step EXCEPT ![k][c] = v]
                         /\ UNCHANGED <<phase, cursor, downloaded, total, report>>
                         /\ Got(k, c)' = Got(k, c)
                         /\ v \in {"size", "delete"} \/ phase[k] # "scan"
  <2>1. ASSUME NEW v \in {"size", "delete", "link", "done", "failed"}, Moves(v)
        PROVE  OneProgressInv(k)'
    <3>1. v \in StepNames /\ (phase[k] = "scan" => v \in LookSteps)
      BY <2>1 DEF StepNames, Waiting, LookSteps
    <3>2. \A d \in Changesets : d # c => position'[k][d] = position[k][d]
      BY <1>1
    <3> QED
      BY <1>1, <1>3, <2>1, <3>1, <3>2, MoveProgress
  <2>2. ASSUME NEW v \in StepNames, step' = [step EXCEPT ![k][c] = v]
        PROVE  step'[k][c] = v
    BY <1>1, <2>2, StepChange
  <2>3. Got(k, c) = IF SizeMatches(c) THEN FileSize[c] ELSE 0
    BY DEF Got, Undecided, LookSteps
  <2>4. Kind[k] # "single" /\ Kind[k] = "list"
    BY <1>3 DEF Tracked
  <2>5. CASE AlreadyDownloaded(k, c) /\ SizeMatches(c) /\ SizeMatches(c)'
    <3>1. CASE phase[k] = "scan"
      BY <1>1, <1>3, <2>5, <3>1, ScannedProgress DEF AlreadyDownloaded
    <3>2. CASE phase[k] # "scan"
      <4>1. /\ step' = [step EXCEPT ![k][c] = "done"]
            /\ UNCHANGED <<phase, cursor, downloaded, total, report>>
        BY <2>4, <2>5, <3>2 DEF AlreadyDownloaded, Settle, progressVars
      <4>2. Got(k, c)' = Got(k, c)
        BY <2>2, <2>3, <2>5, <4>1 DEF Got, Undecided, StepNames
      <4> QED
        BY <2>1, <3>2, <4>1, <4>2
    <3> QED
      BY <3>1, <3>2
  <2>6. CASE NotDownloaded(k, c) /\ ~SizeMatches(c) /\ ~SizeMatches(c)'
    <3>1. CASE phase[k] = "scan"
      BY <1>1, <1>3, <2>6, <3>1, ScannedProgress DEF NotDownloaded
    <3>2. CASE phase[k] # "scan"
      <4>1. /\ \E v \in {"link", "failed"} : step' = [step EXCEPT ![k][c] = v]
            /\ UNCHANGED <<phase, cursor, downloaded, total, report>>
        BY <2>4, <2>6, <3>2 DEF NotDownloaded, Settle, progressVars
      <4>2. PICK v \in {"link", "failed"} : step' = [step EXCEPT ![k][c] = v]
        BY <4>1
      <4>3. Got(k, c)' = Got(k, c)
        BY <1>1, <2>2, <2>3, <2>6, <4>2 DEF Got, Undecided, StepNames, Waiting
      <4> QED
        BY <2>1, <3>2, <4>1, <4>2, <4>3
    <3> QED
      BY <3>1, <3>2
  <2>7. CASE CheckThrows(k, c) /\ ~SizeMatches(c) /\ ~SizeMatches(c)'
    <3>1. CASE phase[k] = "scan"
      <4>1. /\ step' = [step EXCEPT ![k][c] = "none"]
            /\ phase' = [phase EXCEPT ![k] = "rejected"]
            /\ UNCHANGED <<cursor, downloaded, total, report>>
        BY <2>7, <3>1 DEF CheckThrows, progressVars
      <4>2. phase'[k] = "rejected" /\ \A d \in Changesets : step'[k][d] = "none"
        BY <1>1, <3>1, <4>1 DEF TypeOK, OneCallInv, PhaseInv, Running, Waiting
      <4>3. ~Active(k)'
        BY <4>2 DEF Active, Running, Waiting, Live, Scanning
      <4> QED
        BY <1>1, <1>3, <4>1, <4>2, <4>3
           DEF OneProgressInv, Tracked, ListedInv, BalanceInv, ReportInv, Scanning
    <3>2. CASE phase[k] # "scan"
      <4>1. /\ step' = [step EXCEPT ![k][c] = "failed"]
            /\ UNCHANGED <<phase, cursor, downloaded, total, report>>
        BY <2>4, <2>7, <3>2 DEF CheckThrows, Settle, progressVars
      <4>2. Got(k, c)' = Got(k, c)
        BY <1>1, <2>2, <2>3, <2>7, <4>1 DEF Got, Undecided, StepNames
      <4> QED
        BY <2>1, <3>2, <4>1, <4>2
    <3> QED
      BY <3>1, <3>2
  <2>8. CASE /\ \E v \in {"size", "delete"} : step' = [step EXCEPT ![k][c] = v]
             /\ UNCHANGED <<phase, cursor, pool, progressVars>>
             /\ SizeMatches(c)' = SizeMatches(c)
    <3>1. PICK v \in {"size", "delete"} : step' = [step EXCEPT ![k][c] = v]
      BY <2>8
    <3>2. Got(k, c)' = Got(k, c)
      BY <2>2, <2>3, <2>8, <3>1 DEF Got, Undecided, StepNames, Waiting
    <3> QED
      BY <2>1, <2>8, <3>1, <3>2 DEF progressVars
  <2> QED
    BY <1>3, <2>5, <2>6, <2>7, <2>8
<1>4. Undisturbed => OneProgressInv(k)'
  BY <1>2, <1>3, SilentProgress DEF ProgressInv
<1> QED
  BY <1>1, <1>2, <1>4, OneProgress

LEMMA LooksProgress ==
    ASSUME CallInv, FileInv, ProgressInv, NEW k \in Calls, NEW c \in Changesets,
           FileExists(k, c) \/ GetFileSize(k, c) \/ DeleteFile(k, c)
    PROVE  ProgressInv'
<1>1. step[k][c] \in LookSteps /\ TypeOK
  BY DEF FileExists, GetFileSize, DeleteFile, LookSteps, CallInv
<1>2. CASE FileExists(k, c)
  <2>1. LookFrame /\ UNCHANGED <<present, chunks, unwritten>>
    BY <1>2 DEF FileExists, LookFrame, worldVars, fileVars, streamVars
  <2>2. (SizeMatches(c)' <=> SizeMatches(c)) /\ SizeMatches(c)' = SizeMatches(c)
    BY <2>1 DEF SizeMatches
  <2>3. CASE present[c]
    BY <1>1, <1>2, <2>1, <2>2, <2>3, LookProgress DEF FileExists
  <2>4. CASE ~present[c]
    <3>1. NotDownloaded(k, c) /\ ~SizeMatches(c)
      BY <1>2, <2>4 DEF FileExists, SizeMatches
    <3> QED
      BY <1>1, <2>1, <2>2, <3>1, LookProgress
  <2> QED
    BY <2>3, <2>4
<1>3. CASE GetFileSize(k, c)
  <2>1. LookFrame /\ UNCHANGED <<present, chunks, unwritten>>
    BY <1>3 DEF GetFileSize, LookFrame, worldVars, fileVars, streamVars
  <2>2. (SizeMatches(c)' <=> SizeMatches(c)) /\ SizeMatches(c)' = SizeMatches(c)
    BY <2>1 DEF SizeMatches
  <2>3. CASE ~present[c] /\ CheckThrows(k, c)
    <3>1. ~SizeMatches(c)
      BY <2>3 DEF SizeMatches
    <3> QED
      BY <1>1, <2>1, <2>2, <2>3, <3>1, LookProgress
  <2>4. CASE SizeMatches(c) /\ AlreadyDownloaded(k, c)
    BY <1>1, <2>1, <2>2, <2>4, LookProgress
  <2>5. CASE /\ step' = [step EXCEPT ![k][c] = "delete"]
             /\ UNCHANGED <<phase, cursor, pool, progressVars>>
    BY <1>1, <2>1, <2>2, <2>5, LookProgress
  <2> QED
    BY <1>3, <2>3, <2>4, <2>5 DEF GetFileSize
<1>4. CASE DeleteFile(k, c)
  <2>1. LookFrame /\ step[k][c] = "delete"
    BY <1>4 DEF DeleteFile, LookFrame, worldVars
  <2>2. CASE present[c]
    <3>1. /\ present' = [present EXCEPT ![c] = FALSE]
          /\ chunks' = [chunks EXCEPT ![c] = {}]
          /\ NotDownloaded(k, c)
      BY <1>4, <2>2 DEF DeleteFile
    <3>2. /\ \A d \in Changesets : d # c => present'[d] = present[d] /\ chunks'[d] = chunks[d]
          /\ ~SizeMatches(c)'
      BY <1>1, <3>1 DEF TypeOK, SizeMatches
    <3>3. Undisturbed => ~SizeMatches(c)
      BY <2>1 DEF Undisturbed, FileInv, CallsApart, ApartInv
    <3> QED
      BY <1>1, <2>1, <3>1, <3>2, <3>3, LookProgress
  <2>3. CASE ~present[c]
    <3>1. CheckThrows(k, c) /\ UNCHANGED <<present, chunks>>
      BY <1>4, <2>3 DEF DeleteFile, fileVars
    <3>2. ~SizeMatches(c) /\ ~SizeMatches(c)'
      BY <2>3, <3>1 DEF SizeMatches
    <3> QED
      BY <1>1, <2>1, <3>1, <3>2, LookProgress
  <2> QED
    BY <2>2, <2>3
<1> QED
  BY <1>2, <1>3, <1>4
-------------------------------------------------------------------------------
(* The attempts.                                                           *)

\* A transfer that moves on or ends, and neither receives nor gives up anything.
LEMMA TransferProgress ==
    ASSUME CallInv, FileInv, ProgressInv, NEW k \in Calls, NEW c \in Changesets,
           step[k][c] \in TransferSteps, NEW v \in {"request", "stream", "done", "failed"},
           step' = [step EXCEPT ![k][c] = v],
           Kind[k] = "list" => phase' = phase,
           \A j \in Calls : j # k => phase'[j] = phase[j],
           UNCHANGED <<lastIndex, overlap, cursor, more, result, downloaded, total, report,
                     position>>,
           \A d \in Changesets : d # c => present'[d] = present[d] /\ chunks'[d] = chunks[d],
           v = "done" => position[k][c] = FileSize[c]
    PROVE  ProgressInv'
<1>1. TypeOK /\ Running(k, c) /\ phase[k] # "scan" /\ Active(k)
  BY TransferFacts DEF Active
<1>2. v \in StepNames
  BY DEF StepNames, Waiting
<1>3. /\ \A d \in Changesets : step'[k][d] = IF d = c THEN v ELSE step[k][d]
      /\ \A j \in Calls : j # k => step'[j] = step[j]
  BY <1>1, <1>2, StepChange
<1>4. Got(k, c)' = Got(k, c)
  BY <1>3 DEF Got, TransferSteps, Undecided
<1>5. ASSUME Undisturbed, OneProgressInv(k), Tracked(k)
      PROVE  OneProgressInv(k)'
  <2>1. phase' = phase /\ \A d \in Changesets : d # c => position'[k][d] = position[k][d]
    BY <1>5 DEF Tracked
  <2> QED
    BY <1>1, <1>2, <1>4, <1>5, <2>1, MoveProgress
<1>6. \A j \in Calls : j # k => ProgressSame(j)
  BY <1>3 DEF ProgressSame
<1>7. Undisturbed => OneProgressInv(k)'
  BY <1>5, SilentProgress DEF ProgressInv
<1> QED
  BY <1>1, <1>6, <1>7, OneProgress

LEMMA OpenTargetProgress ==
    ASSUME CallInv, FileInv, ProgressInv, NEW k \in Calls, NEW c \in Changesets,
           OpenTarget(k, c) \/ StorageAnswers(k, c)
    PROVE  ProgressInv'
<1>1. /\ step[k][c] \in TransferSteps
      /\ \E v \in {"request", "stream"} : step' = [step EXCEPT ![k][c] = v]
      /\ UNCHANGED <<lastIndex, overlap, phase, cursor, more, result, downloaded, total, report,
                     position>>
  BY DEF OpenTarget, StorageAnswers, TransferSteps, worldVars, listVars, progressVars, streamVars
<1>2. \A d \in Changesets : d # c => present'[d] = present[d] /\ chunks'[d] = chunks[d]
  BY DEF OpenTarget, StorageAnswers, fileVars, CallInv, TypeOK
<1> QED
  BY <1>1, <1>2, TransferProgress

LEMMA EndsProgress ==
    ASSUME CallInv, FileInv, ProgressInv, NEW k \in Calls, NEW c \in Changesets,
           TransferAborted(k, c) \/ TargetCloses(k, c)
    PROVE  ProgressInv'
<1>1. /\ step[k][c] \in TransferSteps
      /\ UNCHANGED <<lastIndex, overlap, cursor, more, result, downloaded, total, report,
                     present, chunks, position>>
  BY DEF TransferAborted, TargetCloses, TransferSteps, worldVars, fileVars, listVars, progressVars
<1>2. \/ Settle(k, c, "rejected")
      \/ Settle(k, c, "fulfilled") /\ position[k][c] = FileSize[c]
  BY DEF TransferAborted, TargetCloses
<1>3. /\ \E v \in {"done", "failed"} : /\ step' = [step EXCEPT ![k][c] = v]
                                       /\ v = "done" => position[k][c] = FileSize[c]
      /\ Kind[k] = "list" => phase' = phase
      /\ \A j \in Calls : j # k => phase'[j] = phase[j]
  BY <1>2 DEF Settle, CallInv, TypeOK
<1> QED
  BY <1>1, <1>3, TransferProgress

\* The call that transfers has listed everything there is.
LEMMA TransferCounts ==
    ASSUME CallInv, NEW k \in Calls, NEW c \in Changesets, step[k][c] \in TransferSteps,
           Tracked(k), OneProgressInv(k)
    PROVE  /\ Active(k) /\ Counted(k) = 1..lastIndex /\ c \in Counted(k)
           /\ phase[k] \notin Scanning \union {"idle", "fulfilled"}
           /\ ListedInv(k) /\ BalanceInv(k) /\ ReportInv(k) /\ Got(k, c) = position[k][c]
<1>1. TypeOK /\ OneCallInv(k) /\ Running(k, c) /\ phase[k] # "scan" /\ Active(k)
  BY TransferFacts DEF Active
<1>2. ListedInv(k) /\ BalanceInv(k) /\ ReportInv(k)
  BY DEF OneProgressInv
<1>3. phase[k] \notin Scanning \union {"idle", "fulfilled"}
  BY <1>1 DEF OneCallInv, PhaseInv, Running, Waiting, Scanning
<1>4. Counted(k) = 1..lastIndex
  BY <1>3 DEF Counted, Scanning
<1>5. c \in 1..lastIndex
  <2>1. step[k][c] # "none"
    BY DEF TransferSteps
  <2>2. c \in Nat /\ 1 <= c /\ lastIndex \in Nat
    BY <1>1, GotTypes
  <2> QED
    BY <1>2, <2>1, <2>2 DEF ListedInv
<1>6. Got(k, c) = position[k][c]
  BY DEF Got, TransferSteps, Undecided
<1> QED
  BY <1>1, <1>2, <1>3, <1>4, <1>5, <1>6

\* A chunk is counted when it is received, and was missing until then.
LEMMA ReceiveChunkProgress ==
    ASSUME CallInv, FileInv, ProgressInv, NEW k \in Calls, NEW c \in Changesets,
           ReceiveChunk(k, c)
    PROVE  ProgressInv'
<1>1. /\ step[k][c] = "stream" /\ step[k][c] \in TransferSteps
      /\ position[k][c] < FileSize[c]
      /\ position' = [position EXCEPT ![k][c] = @ + 1]
      /\ UNCHANGED <<lastIndex, overlap, late, present, phase, cursor, more, result, step>>
  BY DEF ReceiveChunk, TransferSteps, worldVars, listVars
<1>2. TypeOK /\ Running(k, c) /\ Active(k)
  BY <1>1, TransferFacts DEF Active
<1>3. /\ \A j \in Calls : j # k => ProgressSame(j)
      /\ ~WithProgress[k] => report' = report
  BY <1>1, <1>2 DEF ReceiveChunk, TypeOK, ProgressSame, progressVars
<1>4. ASSUME Undisturbed, OneProgressInv(k), Tracked(k)
      PROVE  OneProgressInv(k)'
  <2>1. /\ Counted(k) = 1..lastIndex /\ c \in Counted(k)
        /\ phase[k] \notin Scanning \union {"idle", "fulfilled"}
        /\ ListedInv(k) /\ BalanceInv(k) /\ ReportInv(k) /\ Got(k, c) = position[k][c]
    BY <1>1, <1>4, TransferCounts
  <2>2. /\ FileSize[c] \in Nat /\ position[k][c] \in Nat
        /\ downloaded[k] \in Nat /\ total[k] \in Nat
    BY <1>2, GotTypes
  <2>3. /\ downloaded'[k] = downloaded[k] + 1 /\ total'[k] = total[k]
        /\ report'[k] = <<downloaded[k] + 1, total[k]>>
    BY <1>2, <1>4 DEF ReceiveChunk, TypeOK, Tracked
  <2>4. /\ \A d \in Changesets : d # c => position'[k][d] = position[k][d]
        /\ position'[k][c] = position[k][c] + 1
    BY <1>1, <1>2 DEF TypeOK
  <2>5. /\ Got(k, c)' = Got(k, c) + 1
        /\ \A d \in Changesets : d # c => Got(k, d)' = Got(k, d)
    <3>1. Got(k, c)' = position[k][c] + 1
      BY <1>1, <2>4 DEF Got, Undecided
    <3>2. \A d \in Changesets : d # c => chunks'[d] = chunks[d]
      BY <1>2 DEF ReceiveChunk, TypeOK
    <3>3. \A d \in Changesets : d # c => Got(k, d)' = Got(k, d)
      BY <1>1, <2>4, <3>2 DEF Got, SizeMatches
    <3> QED
      BY <2>1, <3>1, <3>3
  <2> DEFINE chunk == <<c, position[k][c] + 1>>
  <2>6. chunk \in Missing(k)
    BY <1>1, <2>1, <2>2 DEF Missing
  <2>7. Missing(k)' = Missing(k) \ {chunk}
    <3>1. Counted(k)' = Counted(k)
      BY <1>1, <2>1 DEF Counted, Scanning
    <3> SUFFICES ASSUME NEW d \in Changesets, NEW i \in Nat \ {0}
                 PROVE  Got(k, d)' < i /\ i <= FileSize[d]
                          <=> /\ Got(k, d) < i /\ i <= FileSize[d]
                              /\ <<d, i>> # chunk
      BY <3>1 DEF Missing
    <3>2. Got(k, d) \in Nat
      BY <1>2, GotTypes
    <3>3. CASE d # c
      BY <2>5, <3>3
    <3>4. CASE d = c
      <4>1. Got(k, d)' < i <=> Got(k, d) < i /\ i # position[k][c] + 1
        BY <2>1, <2>2, <2>5, <3>2, <3>4
      <4>2. <<d, i>> # chunk <=> i # position[k][c] + 1
        BY <3>4
      <4> QED
        BY <4>1, <4>2
    <3> QED
      BY <3>3, <3>4
  <2> HIDE DEF chunk
  <2>8. /\ Cardinality(Missing(k)') \in Nat
        /\ Cardinality(Missing(k)') + 1 = Cardinality(Missing(k))
    BY <2>6, <2>7, MissingShrinks
  <2>9. downloaded'[k] + Cardinality(Missing(k)') = total'[k]
    <3>1. downloaded[k] + Cardinality(Missing(k)) = total[k]
      BY <1>2, <2>1 DEF BalanceInv
    <3>2. Cardinality(Missing(k)) \in Nat
      BY MissingFinite
    <3> QED
      BY <2>2, <2>3, <2>8, <3>1, <3>2
  <2>10. BalanceInv(k)' /\ ReportInv(k)'
    BY <1>1, <2>1, <2>2, <2>3, <2>8, <2>9 DEF BalanceInv, ReportInv
  <2>11. ListedInv(k)'
    BY <1>1, <2>1 DEF ListedInv, Scanning
  <2> QED
    BY <1>4, <2>10, <2>11 DEF OneProgressInv, Tracked
<1>5. Undisturbed => OneProgressInv(k)'
  BY <1>3, <1>4, SilentProgress DEF ProgressInv, Tracked, ReceiveChunk, progressVars, OneProgressInv
<1> QED
  BY <1>1, <1>2, <1>3, <1>5, OneProgress

\* What is written was counted when it was received.
LEMMA WriteChunkProgress ==
    ASSUME CallInv, FileInv, ProgressInv, NEW k \in Calls, NEW c \in Changesets,
           \E i \in Attempts : WriteChunk(k, c, i)
    PROVE  ProgressInv'
<1>1. /\ Writing(k, c)
      /\ UNCHANGED <<lastIndex, overlap, present, phase, cursor, more, result, downloaded,
                     total,
                     report, step, position>>
  BY DEF WriteChunk, Writing, worldVars, listVars, progressVars, streamVars
<1>2. \A d \in Changesets : d # c => chunks'[d] = chunks[d]
  BY DEF WriteChunk, CallInv, TypeOK
<1> SUFFICES ASSUME Undisturbed, NEW j \in Calls, OneProgressInv(j)
             PROVE  OneProgressInv(j)'
  BY <1>1 DEF ProgressInv, Undisturbed
<1>3. CASE j # k
  <2>1. ~Active(j)
    BY <1>1, <1>3 DEF Undisturbed, FileInv, CallsApart, AloneInv, Busy
  <2>2. ProgressSame(j)
    BY <1>1 DEF ProgressSame
  <2> QED
    BY <1>1, <2>1, <2>2, RestsProgress
<1>4. CASE j = k
  <2>1. step[k][c] \notin Undecided
    BY <1>1 DEF Undisturbed, FileInv, CallsApart, ApartInv
  <2>2. /\ \A d \in Changesets : Running(k, d)' = Running(k, d) /\ Got(k, d)' = Got(k, d)
        /\ Active(k)' = Active(k)
    BY <1>1, <1>2, <2>1 DEF Running, Active, Got, SizeMatches
  <2>3. Counted(k)' = Counted(k)
    BY <1>1, <2>2 DEF Counted
  <2>4. Missing(k)' = Missing(k)
    BY <2>2, <2>3 DEF Missing
  <2>5. (ListedInv(k) => ListedInv(k)') /\ (BalanceInv(k) => BalanceInv(k)')
    BY <1>1, <2>2, <2>4 DEF ListedInv, BalanceInv
  <2> QED
    BY <1>1, <1>4, <2>5 DEF OneProgressInv, ReportInv, Tracked
<1> QED
  BY <1>3, <1>4

\* What an attempt received is missing again when it fails, and the total grows by it.
LEMMA AttemptFailsProgress ==
    ASSUME CallInv, FileInv, ProgressInv, NEW k \in Calls, NEW c \in Changesets,
           RefreshFails(k, c) \/ TransferFails(k, c)
    PROVE  ProgressInv'
<1>1. /\ step[k][c] \in TransferSteps /\ AttemptFails(k, c)
      /\ UNCHANGED <<lastIndex, overlap, late, present, chunks, unwritten, cursor, more,
                     result>>
  BY DEF RefreshFails, TransferFails, TransferSteps, worldVars, fileVars, listVars
<1>2. /\ TypeOK /\ OneCallInv(k) /\ Running(k, c) /\ Active(k)
      /\ position[k][c] \in Nat
  BY <1>1, TransferFacts DEF Active
<1>3. /\ total' = [total EXCEPT ![k] = @ + FailedBytes(k, c)]
      /\ position' = [position EXCEPT ![k][c] = 0]
      /\ UNCHANGED <<downloaded, report>>
      /\ \E v \in {"link", "failed"} : step' = [step EXCEPT ![k][c] = v]
      /\ \A j \in Calls : j # k => phase'[j] = phase[j]
      /\ Kind[k] = "list" => phase' = phase
  BY <1>1, <1>2 DEF AttemptFails, Settle, TypeOK
<1>4. PICK v \in {"link", "failed"} : step' = [step EXCEPT ![k][c] = v]
  BY <1>3
<1>5. v \in StepNames
  BY DEF StepNames, Waiting
<1>6. /\ \A d \in Changesets : step'[k][d] = IF d = c THEN v ELSE step[k][d]
      /\ \A j \in Calls : j # k => step'[j] = step[j]
  BY <1>2, <1>4, <1>5, StepChange
<1>7. \A j \in Calls : j # k => ProgressSame(j)
  BY <1>1, <1>2, <1>3, <1>6 DEF TypeOK, ProgressSame
<1>8. ASSUME Undisturbed, OneProgressInv(k), Tracked(k)
      PROVE  OneProgressInv(k)'
  <2>1. /\ Counted(k) = 1..lastIndex /\ c \in Counted(k)
        /\ phase[k] \notin Scanning \union {"idle", "fulfilled"}
        /\ ListedInv(k) /\ BalanceInv(k) /\ ReportInv(k) /\ Got(k, c) = position[k][c]
    BY <1>1, <1>8, TransferCounts
  <2>2. /\ FileSize[c] \in Nat /\ position[k][c] \in Nat
        /\ downloaded[k] \in Nat /\ total[k] \in Nat
    BY <1>2, GotTypes
  <2>3. /\ phase'[k] = phase[k] /\ downloaded'[k] = downloaded[k] /\ report'[k] = report[k]
        /\ total'[k] = total[k] + position[k][c]
    BY <1>2, <1>3, <1>8 DEF TypeOK, Tracked, FailedBytes
  <2>4. position[k][c] <= FileSize[c]
    <3>1. CASE step[k][c] = "link"
      BY <1>2, <2>2, <3>1 DEF OneCallInv, AttemptsInv
    <3>2. CASE step[k][c] \in {"request", "stream"}
      BY <1>8, <3>2 DEF Undisturbed, FileInv, CallsApart, ApartInv
    <3> QED
      BY <1>1, <3>1, <3>2 DEF TransferSteps
  <2>5. /\ Got(k, c)' = 0
        /\ \A d \in Changesets : d # c => Got(k, d)' = Got(k, d)
    <3>1. \A d \in Changesets : position'[k][d] = IF d = c THEN 0 ELSE position[k][d]
      BY <1>2, <1>3 DEF TypeOK
    <3>2. step'[k][c] = v /\ v \notin Undecided \union {"done"}
      BY <1>6 DEF Undecided
    <3>3. Got(k, c)' = 0
      BY <3>1, <3>2 DEF Got
    <3>4. \A d \in Changesets : d # c => step'[k][d] = step[k][d]
      BY <1>6
    <3> QED
      BY <1>1, <3>1, <3>3, <3>4 DEF Got, SizeMatches
  <2>6. Counted(k)' = Counted(k)
    BY <1>1, <2>1, <2>3 DEF Counted, Scanning
  <2> DEFINE again == {c} \X ((0 + 1)..position[k][c])
  <2>7. /\ Missing(k)' = Missing(k) \union again
        /\ Missing(k) \intersect again = {}
    <3>1. \A d \in Changesets, i \in Nat \ {0} :
             Got(k, d)' < i /\ i <= FileSize[d]
               <=> \/ Got(k, d) < i /\ i <= FileSize[d]
                   \/ d = c /\ i <= position[k][c]
      <4> SUFFICES ASSUME NEW d \in Changesets, NEW i \in Nat \ {0}
                   PROVE  Got(k, d)' < i /\ i <= FileSize[d]
                            <=> \/ Got(k, d) < i /\ i <= FileSize[d]
                                \/ d = c /\ i <= position[k][c]
        OBVIOUS
      <4>1. CASE d # c
        BY <2>5, <4>1
      <4>2. CASE d = c
        BY <2>1, <2>2, <2>4, <2>5, <4>2
      <4> QED
        BY <4>1, <4>2
    <3>2. \A d, i : <<d, i>> \in again <=> d = c /\ i \in Nat \ {0} /\ i <= position[k][c]
      BY <2>2
    <3>3. \A d, i : <<d, i>> \in Missing(k)
                      <=> /\ d \in Changesets /\ i \in Nat \ {0} /\ d \in Counted(k)
                          /\ Got(k, d) < i /\ i <= FileSize[d]
      BY DEF Missing
    <3>4. \A d, i : <<d, i>> \in Missing(k)'
                      <=> /\ d \in Changesets /\ i \in Nat \ {0} /\ d \in Counted(k)
                          /\ Got(k, d)' < i /\ i <= FileSize[d]
      BY <2>6 DEF Missing
    <3>5. \A p \in Missing(k)' \union Missing(k) \union again : p = <<p[1], p[2]>>
      BY DEF Missing
    <3>6. \A d, i : <<d, i>> \in Missing(k)' <=> <<d, i>> \in Missing(k) \union again
      BY <2>1, <3>1, <3>2, <3>3, <3>4
    <3>7. \A d, i : ~(<<d, i>> \in Missing(k) /\ <<d, i>> \in again)
      <4> SUFFICES ASSUME NEW d, NEW i, <<d, i>> \in Missing(k), <<d, i>> \in again
                   PROVE  FALSE
        OBVIOUS
      <4>1. d = c /\ i \in Nat \ {0} /\ i <= position[k][c]
        BY <3>2
      <4>2. position[k][c] < i
        BY <2>1, <3>3, <4>1
      <4> QED
        BY <2>2, <4>1, <4>2
    <3> HIDE DEF again
    <3> QED
      BY <3>5, <3>6, <3>7
  <2>8. /\ Cardinality(Missing(k)') = Cardinality(Missing(k)) + position[k][c]
        /\ Cardinality(Missing(k)) \in Nat
    <3> PICK m \in Nat, n \in Nat : m = 0 /\ n = position[k][c]
      BY <2>2
    <3>1. /\ Missing(k)' = Missing(k) \union ({c} \X ((m + 1)..n))
          /\ Missing(k) \intersect ({c} \X ((m + 1)..n)) = {}
      BY <2>7
    <3>2. Cardinality(Missing(k)') = Cardinality(Missing(k)) + (n - m)
      BY ONLY <3>1, MissingGrows, m \in Nat, n \in Nat, m = 0, 0 <= n, k \in Calls, c \in Changesets
    <3> QED
      BY <3>2, MissingFinite
  <2>9. BalanceInv(k)'
    <3>1. /\ downloaded[k] + Cardinality(Missing(k)) = total[k]
          /\ \/ report[k] \in {<<0, 0>>, <<downloaded[k], total[k]>>}
             \/ Missing(k) # {}
      BY <1>2, <2>1 DEF BalanceInv
    <3>2. downloaded'[k] + Cardinality(Missing(k)') = total'[k]
      BY <2>2, <2>3, <2>8, <3>1
    <3>3. \/ report'[k] \in {<<0, 0>>, <<downloaded'[k], total'[k]>>}
          \/ Missing(k)' # {}
      <4>1. CASE position[k][c] = 0
        BY <2>2, <2>3, <2>7, <3>1, <4>1
      <4>2. CASE position[k][c] # 0
        BY <2>2, <2>8, <4>2, FS_EmptySet
      <4> QED
        BY <4>1, <4>2
    <3> QED
      BY <3>2, <3>3 DEF BalanceInv
  <2>10. ReportInv(k)'
    BY <2>1, <2>3 DEF ReportInv
  <2>11. ListedInv(k)'
    <3>1. \A d \in Changesets : step'[k][d] # "none" => d <= lastIndex
      <4>1. step[k][c] # "none"
        BY <1>1 DEF TransferSteps
      <4> QED
        BY <1>6, <2>1, <4>1 DEF ListedInv
    <3> QED
      BY <1>1, <2>1, <2>3, <3>1 DEF ListedInv, Scanning
  <2> QED
    BY <1>8, <2>9, <2>10, <2>11 DEF OneProgressInv, Tracked
<1>9. Undisturbed => OneProgressInv(k)'
  BY <1>3, <1>8, SilentProgress DEF ProgressInv
<1> QED
  BY <1>1, <1>2, <1>7, <1>9, OneProgress
-------------------------------------------------------------------------------
(* Every step keeps ProgressInv.                                           *)

LEMMA NextProgress == CallInv /\ FileInv /\ ProgressInv /\ [Next]_vars => ProgressInv'
<1> SUFFICES ASSUME CallInv, FileInv, ProgressInv, [Next]_vars PROVE ProgressInv'
  OBVIOUS
<1>1. ASSUME NEW k \in Calls, Begin(k) \/ CallStep(k) \/ FetchFails(k)
      PROVE  ProgressInv'
  BY <1>1, BeginProgress, FetchMinimalPageProgress, FetchPageProgress, QuerySingleProgress,
     WaitProgress, PageDoneProgress, FetchFailsProgress DEF CallStep
<1>2. ASSUME NEW k \in Calls, NEW c \in Changesets, DownloadStep(k, c)
      PROVE  ProgressInv'
  BY <1>2, LooksProgress, OpenTargetProgress, ReceiveChunkProgress, AttemptFailsProgress,
     EndsProgress, WriteChunkProgress DEF DownloadStep
<1>3. CASE Crash
  BY <1>3, CrashProgress
<1>4. CASE PushChangeset \/ (\E k \in Calls : Abort(k)) \/ UNCHANGED vars
  BY <1>4, WorldProgress
<1> QED
  BY <1>1, <1>2, <1>3, <1>4 DEF Next, AllSettled

LEMMA AlwaysProgress == Spec => [](CallInv /\ FileInv /\ ProgressInv)
<1>1. Init => ProgressInv
  BY InitProgress
<1>2. CallInv /\ FileInv /\ ProgressInv /\ [Next]_vars => ProgressInv'
  BY NextProgress
<1> QED
  BY <1>1, <1>2, AlwaysFileInv, PTL DEF Spec

\* As long as nobody pushes and no calls overlap, a list call never reports more than
\* the total it reports with it, whatever files it finds and however often it retries.
THEOREM ProgressStaysWithin == Spec => [](Undisturbed => ProgressWithinTotal)
<1>1. CallInv /\ ProgressInv => (Undisturbed => ProgressWithinTotal)
  <2> SUFFICES ASSUME ProgressInv, Undisturbed, NEW k \in Calls, Kind[k] = "list"
               PROVE  report[k][1] <= report[k][2]
    BY DEF ProgressWithinTotal
  <2>1. OneProgressInv(k)
    BY DEF ProgressInv
  <2>2. CASE WithProgress[k]
    BY <2>1, <2>2 DEF OneProgressInv, Tracked, ReportInv
  <2>3. CASE ~WithProgress[k]
    BY <2>1, <2>3 DEF OneProgressInv, Tracked
  <2> QED
    BY <2>2, <2>3
<1> QED
  BY <1>1, AlwaysProgress, PTL

\* As long as nobody pushes and no calls overlap, the last report of a list call that
\* returned is the total itself: nothing it counted is missing and no retry was counted
\* twice.  (A single call reports its latest chunk instead.)
THEOREM ProgressReachesTotal == Spec => [](Undisturbed => ProgressEndsAtTotal)
<1>1. CallInv /\ ProgressInv => (Undisturbed => ProgressEndsAtTotal)
  <2> SUFFICES ASSUME ProgressInv, Undisturbed, NEW k \in Calls, Kind[k] = "list",
                      phase[k] = "fulfilled"
               PROVE  report[k][1] = report[k][2]
    BY DEF ProgressEndsAtTotal
  <2>1. OneProgressInv(k)
    BY DEF ProgressInv
  <2>2. CASE WithProgress[k]
    BY <2>1, <2>2 DEF OneProgressInv, Tracked, ReportInv
  <2>3. CASE ~WithProgress[k]
    BY <2>1, <2>3 DEF OneProgressInv, Tracked
  <2> QED
    BY <2>2, <2>3
<1> QED
  BY <1>1, AlwaysProgress, PTL
===============================================================================
