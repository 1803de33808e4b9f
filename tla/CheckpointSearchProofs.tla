------------------------- MODULE CheckpointSearchProofs -------------------------
(***************************************************************************)
(* That a query finds the nearest checkpoint, for any number of changesets *)
(* and whatever the service generates while the query runs.                *)
(***************************************************************************)
EXTENDS CheckpointSearch, TLAPS

Searching == awaiting \in {"changesetById", "changeset", "checkpoint"}

\* The part of the history the search has still to look at.
BoundInv == /\ Searching => changesetIndex > 0 /\ changesetIndex <= query.target
            /\ awaiting = "baseline" => query.target = 0
            /\ awaiting = "checkpoint" => link <= changesetIndex /\ checkpoint[link] # Missing

\* No checkpoint that was there when the query began lies behind the search.
AheadInv == /\ \A i \in atStart : Present(query, i)
            /\ Searching \/ awaiting = "baseline" => query.allowPreceding
            /\ Searching => \A i \in atStart : i <= query.target => i <= changesetIndex
            /\ awaiting = "checkpoint" => \A i \in atStart : i <= query.target => i <= link

StepInv == /\ awaiting = "exact" => changesetIndex = query.target
           /\ awaiting # "none" => outcome.how = "pending"

SearchInv == /\ TypeOK
             /\ BoundInv
             /\ AheadInv
             /\ StepInv
             /\ FoundIsLatest
             /\ NothingOverlooked

LEMMA InitInv == Init => SearchInv
<1> SUFFICES ASSUME Init PROVE SearchInv
  OBVIOUS
<1> USE IndexAssumption DEF Init, ChangesetIndices, Queries
<1>1. TypeOK
  BY DEF TypeOK, Pending, FirstOfSearch
<1>2. BoundInv
  BY DEF BoundInv, Searching, FirstOfSearch
<1>3. AheadInv
  BY <1>1 DEF AheadInv, Searching, FirstOfSearch, TypeOK
<1>4. StepInv /\ FoundIsLatest /\ NothingOverlooked
  BY DEF StepInv, FoundIsLatest, NothingOverlooked, Pending
<1> QED BY <1>1, <1>2, <1>3, <1>4 DEF SearchInv

\* A checkpoint that the service generates takes none away.
LEMMA GenerateKeeps ==
    ASSUME TypeOK, NEW i \in ChangesetIndices, Generate(i)
    PROVE  /\ TypeOK'
           /\ \A j \in ChangesetIndices :
                 /\ checkpoint[j] # Missing => checkpoint'[j] # Missing
                 /\ Present(query, j) => Present(query, j)'
<1> USE DEF TypeOK, Generate
<1>1. PICK c \in Checkpoints :
          /\ IF checkpoint[i] = Missing THEN c = Scheduled
             ELSE /\ checkpoint[i].v1 => c.v1
                  /\ checkpoint[i].v2 # "null" => c.v2 = checkpoint[i].v2
          /\ checkpoint' = [checkpoint EXCEPT ![i] = c]
  OBVIOUS
<1>2. TypeOK'
  BY <1>1
<1>3. c # Missing
  BY DEF Checkpoints, Missing
<1>4. \A j \in ChangesetIndices : checkpoint[j] # Missing => checkpoint'[j] # Missing
  BY <1>1, <1>3
<1>5. ASSUME NEW j \in ChangesetIndices, Present(query, j)
      PROVE  Present(query, j)'
  BY <1>1, <1>3, <1>5 DEF Present, IsExpected
<1> QED BY <1>2, <1>4, <1>5

LEMMA GenerateStep ==
    ASSUME SearchInv, NEW i \in ChangesetIndices, Generate(i)
    PROVE  SearchInv'
<1>1. /\ TypeOK /\ TypeOK'
      /\ \A j \in ChangesetIndices :
            /\ checkpoint[j] # Missing => checkpoint'[j] # Missing
            /\ Present(query, j) => Present(query, j)'
  BY GenerateKeeps DEF SearchInv
<1> USE IndexAssumption, <1>1 DEF SearchInv, Generate
<1>2. BoundInv'
  BY DEF BoundInv, Searching, TypeOK
<1>3. AheadInv'
  BY DEF AheadInv, Searching, TypeOK
<1>4. StepInv'
  BY DEF StepInv
<1>5. FoundIsLatest'
  BY DEF FoundIsLatest, TypeOK
<1>6. NothingOverlooked'
  BY DEF NothingOverlooked, TypeOK, Queries, ChangesetIndices
<1> QED BY <1>1, <1>2, <1>3, <1>4, <1>5, <1>6

\* What holds when the call ends with nothing, and when it ends with a checkpoint.
LEMMA EndWithNothing ==
    ASSUME SearchInv, UNCHANGED <<query, checkpoint, atStart>>,
           NEW h \in {"undefined", "notFound", "failed"}, End(h, 0),
           h # "failed" =>
               \A i \in atStart :
                   IF query.allowPreceding
                   THEN i > query.target \/ (i = 0 /\ query.target > 0 /\ checkpoint[1] # Missing)
                   ELSE i # query.target
    PROVE  SearchInv'
<1> USE IndexAssumption DEF SearchInv, End
<1>1. TypeOK'
  BY DEF TypeOK, ChangesetIndices
<1>2. BoundInv' /\ AheadInv' /\ StepInv'
  BY DEF BoundInv, AheadInv, StepInv, Searching, Present
<1>3. FoundIsLatest' /\ NothingOverlooked'
  BY DEF FoundIsLatest, NothingOverlooked
<1> QED BY <1>1, <1>2, <1>3

LEMMA EndWithCheckpoint ==
    ASSUME SearchInv, UNCHANGED <<query, checkpoint, atStart>>,
           NEW i \in ChangesetIndices, Found(i), Present(query, i),
           i <= query.target, query.allowPreceding \/ i = query.target,
           \A j \in atStart : j <= query.target => j <= i
    PROVE  SearchInv'
<1> USE IndexAssumption DEF SearchInv, Found, End
<1>1. TypeOK'
  BY DEF TypeOK
<1>2. BoundInv' /\ AheadInv' /\ StepInv'
  BY DEF BoundInv, AheadInv, StepInv, Searching, Present
<1>3. FoundIsLatest' /\ NothingOverlooked'
  BY DEF FoundIsLatest, NothingOverlooked, Present
<1> QED BY <1>1, <1>2, <1>3

LEMMA ExactStep == SearchInv /\ ExactAnswered => SearchInv'
<1> SUFFICES ASSUME SearchInv, ExactAnswered PROVE SearchInv'
  OBVIOUS
<1>0. /\ query.target \in ChangesetIndices /\ query.target \in Nat
      /\ atStart \subseteq ChangesetIndices /\ \A i \in atStart : i \in Nat /\ Present(query, i)
      /\ changesetIndex = query.target
  BY IndexAssumption DEF SearchInv, TypeOK, AheadInv, StepInv, Queries, ChangesetIndices, ExactAnswered
<1>1. CASE Present(query, query.target)
  BY <1>0, <1>1, EndWithCheckpoint DEF ExactAnswered
<1>2. CASE ~Present(query, query.target) /\ ~query.allowPreceding
  <2>1. \A i \in atStart : i # query.target
    BY <1>0, <1>2
  <2> QED BY <1>2, <2>1, EndWithNothing DEF ExactAnswered, NothingFound
<1>3. CASE ~Present(query, query.target) /\ query.allowPreceding
  <2> USE IndexAssumption, <1>0, <1>3 DEF SearchInv, ExactAnswered, FirstOfSearch
  <2>1. TypeOK' /\ StepInv'
    BY DEF TypeOK, StepInv
  <2>2. BoundInv' /\ AheadInv'
    BY DEF BoundInv, AheadInv, Searching, Present
  <2>3. FoundIsLatest' /\ NothingOverlooked'
    BY DEF FoundIsLatest, NothingOverlooked, Present, StepInv
  <2> QED BY <2>1, <2>2, <2>3
<1> QED BY <1>1, <1>2, <1>3

LEMMA BaselineStep == SearchInv /\ BaselineAnswered => SearchInv'
<1> SUFFICES ASSUME SearchInv, BaselineAnswered PROVE SearchInv'
  OBVIOUS
<1>0. /\ query.target = 0 /\ 0 \in ChangesetIndices /\ query.allowPreceding
      /\ \A i \in atStart : i \in Nat /\ Present(query, i)
  BY IndexAssumption
     DEF SearchInv, TypeOK, BoundInv, AheadInv, ChangesetIndices, BaselineAnswered
<1>1. CASE Present(query, 0)
  BY <1>0, <1>1, EndWithCheckpoint DEF BaselineAnswered, Present
<1>2. CASE ~Present(query, 0)
  <2>1. \A i \in atStart : i > query.target
    BY <1>0, <1>2
  <2> QED BY <1>0, <1>2, <2>1, EndWithNothing DEF BaselineAnswered, NothingFound
<1> QED BY <1>1, <1>2

LEMMA ByIdStep == SearchInv /\ ChangesetByIdAnswered => SearchInv'
BY DEF SearchInv, ChangesetByIdAnswered, TypeOK, BoundInv, AheadInv, StepInv, Searching,
       FoundIsLatest, NothingOverlooked, Present

LEMMA ChangesetStep == SearchInv /\ ChangesetAnswered => SearchInv'
<1> SUFFICES ASSUME SearchInv, ChangesetAnswered PROVE SearchInv'
  OBVIOUS
<1>0. /\ query.allowPreceding /\ changesetIndex \in ChangesetIndices
      /\ \A i \in atStart : i \in Nat /\ i \in ChangesetIndices /\ Present(query, i)
      /\ \A i \in atStart : i <= query.target => i <= changesetIndex
  BY IndexAssumption
     DEF SearchInv, TypeOK, AheadInv, Searching, ChangesetIndices, ChangesetAnswered
<1>1. \A i \in atStart : i <= query.target => i \in Preceding(changesetIndex)
  BY <1>0 DEF Preceding, Present, ChangesetIndices
<1>2. CASE Preceding(changesetIndex) = {}
  <2>1. \A i \in atStart : i > query.target
    BY <1>0, <1>1, <1>2 DEF SearchInv, TypeOK, Queries, ChangesetIndices
  <2> QED BY <1>0, <1>2, <2>1, EndWithNothing DEF ChangesetAnswered, NothingFound
<1>3. CASE Preceding(changesetIndex) # {}
  <2>1. /\ link' \in Preceding(changesetIndex)
        /\ \A j \in Preceding(changesetIndex) : j <= link'
        /\ awaiting' = "checkpoint"
        /\ UNCHANGED <<query, checkpoint, atStart, changesetIndex, outcome>>
    BY <1>3 DEF ChangesetAnswered
  <2>2. /\ link' \in ChangesetIndices /\ link' <= changesetIndex
        /\ checkpoint[link'] # Missing
    BY <1>0, <2>1, IndexAssumption DEF Preceding, ChangesetIndices
  <2> USE <1>0, <2>1, <2>2 DEF SearchInv, ChangesetAnswered
  <2>3. TypeOK' /\ StepInv'
    BY DEF TypeOK, StepInv
  <2>4. BoundInv'
    BY DEF BoundInv, Searching
  <2>5. AheadInv'
    BY <1>1 DEF AheadInv, Searching, Present
  <2>6. FoundIsLatest' /\ NothingOverlooked'
    BY DEF FoundIsLatest, NothingOverlooked, StepInv
  <2> QED BY <2>3, <2>4, <2>5, <2>6
<1> QED BY <1>2, <1>3

LEMMA CheckpointStep == SearchInv /\ CheckpointAnswered => SearchInv'
<1> SUFFICES ASSUME SearchInv, CheckpointAnswered PROVE SearchInv'
  OBVIOUS
<1>0. /\ query.allowPreceding
      /\ link \in ChangesetIndices /\ link \in Nat /\ link <= changesetIndex
      /\ changesetIndex > 0 /\ changesetIndex <= query.target
      /\ changesetIndex \in Nat /\ query.target \in Nat
      /\ checkpoint[link] # Missing
      /\ \A i \in atStart : i \in Nat /\ Present(query, i)
      /\ \A i \in atStart : i <= query.target => i <= link
  BY IndexAssumption
     DEF SearchInv, TypeOK, BoundInv, AheadInv, Searching, ChangesetIndices, Queries,
         CheckpointAnswered
<1>1. CASE Present(query, link)
  BY <1>0, <1>1, EndWithCheckpoint DEF CheckpointAnswered
<1>2. CASE ~Present(query, link) /\ PreviousIndex <= 0
  <2>1. \A i \in atStart : i > query.target \/ (i = 0 /\ link = 1)
    BY <1>0, <1>2 DEF PreviousIndex
  <2>2. \A i \in atStart :
            i > query.target \/ (i = 0 /\ query.target > 0 /\ checkpoint[1] # Missing)
    BY <1>0, <2>1
  <2> QED BY <1>0, <1>2, <2>2, EndWithNothing DEF CheckpointAnswered, NothingFound
<1>3. CASE ~Present(query, link) /\ PreviousIndex > 0
  <2>1. SearchOn /\ UNCHANGED <<query, checkpoint, atStart>>
    BY <1>0, <1>3 DEF CheckpointAnswered, PreviousIndex
  <2>2. /\ link - 1 \in ChangesetIndices /\ link - 1 > 0
        /\ \A i \in atStart : i <= query.target => i <= link - 1
    BY <1>0, <1>3, IndexAssumption DEF PreviousIndex, ChangesetIndices
  <2> USE <1>0, <2>1, <2>2 DEF SearchInv, SearchOn, PreviousIndex, CheckpointAnswered
  <2>3. TypeOK' /\ StepInv'
    BY DEF TypeOK, StepInv
  <2>4. BoundInv' /\ AheadInv'
    BY DEF BoundInv, AheadInv, Searching, Present
  <2>5. FoundIsLatest' /\ NothingOverlooked'
    BY DEF FoundIsLatest, NothingOverlooked, StepInv
  <2> QED BY <2>3, <2>4, <2>5
<1> QED BY <1>0, <1>1, <1>2, <1>3 DEF PreviousIndex

LEMMA NextInv == SearchInv /\ [Next]_vars => SearchInv'
<1> SUFFICES ASSUME SearchInv, [Next]_vars PROVE SearchInv'
  OBVIOUS
<1>1. CASE Proceed
  BY <1>1, ExactStep, BaselineStep, ByIdStep, ChangesetStep, CheckpointStep DEF Proceed
<1>2. CASE RequestFails
  BY <1>2, EndWithNothing DEF RequestFails
<1>3. ASSUME NEW i \in ChangesetIndices, Generate(i) PROVE SearchInv'
  BY <1>3, GenerateStep
<1>4. CASE UNCHANGED vars
  BY <1>4 DEF vars, SearchInv, TypeOK, BoundInv, AheadInv, StepInv, Searching, Present,
              FoundIsLatest, NothingOverlooked
<1> QED BY <1>1, <1>2, <1>3, <1>4 DEF Next, Done

LEMMA Invariance == Spec => []SearchInv
BY InitInv, NextInv, PTL DEF Spec

\* Every variable has its type.
THEOREM TypeCorrect == Spec => []TypeOK
<1>1. SearchInv => TypeOK
  BY DEF SearchInv
<1> QED BY <1>1, Invariance, PTL

\* queryV2Checkpoint and downloadV1Checkpoint end with the nearest checkpoint there
\* was when they were called, or a nearer one, in any history.
THEOREM NearestFound == Spec => []FoundIsLatest
<1>1. SearchInv => FoundIsLatest
  BY DEF SearchInv
<1> QED BY <1>1, Invariance, PTL

\* They end with nothing only if there was nothing, the baseline behind an unusable
\* checkpoint of the first changeset excepted.
THEOREM NoneOverlooked == Spec => []NothingOverlooked
<1>1. SearchInv => NothingOverlooked
  BY DEF SearchInv
<1> QED BY <1>1, Invariance, PTL
===============================================================================
