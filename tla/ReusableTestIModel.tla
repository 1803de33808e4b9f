---------------------------- MODULE ReusableTestIModel ----------------------------
(***************************************************************************)
(* The iModel that the integration tests share.  A run of a package's      *)
(* tests asks for it by name: it creates the iModel with all it has to     *)
(* hold, or waits until whoever creates it is done and checks what it      *)
(* holds, or deletes it and creates another one.  Runs go on at the same   *)
(* time, may end at any point and start again.  Nothing but the name and   *)
(* the description of the iModel coordinates them.                         *)
(* An action is what happens at the service and in the run from one await  *)
(* to the next.  How a changeset is pushed is told by ChangesetPush, how   *)
(* an iModel is created by IModelCreation, how lists are read by           *)
(* EntityQueries: each is one request here.                                *)
(* Definitions called ...Defect are mistakes the properties must catch.    *)
(***************************************************************************)
EXTENDS Naturals, Sequences, FiniteSets

CONSTANTS Runs,               \* processes that run tests
          BriefcaseCount,     \* static members of TestIModelCreator
          Changesets,         \* how many there are to upload
          ChangesetGroups,    \* a sequence of sets of changeset indexes
          ExtendedData,       \* a sequence of changeset indexes
          NamedVersions,      \* a sequence of changeset indexes, in the order of a check
          MaxAttempts,        \* looks for the end of a creation
          MaxCheckpointPolls, \* looks for the end of a checkpoint's generation
          MaxIModels,         \* iModels ever created: bounds the model
          MaxCalls,           \* calls of all runs: bounds the model
          MaxEnds             \* runs that end: bounds the model

Ids == 1..MaxIModels
NoIModel == 0

ASSUME ReusableAssumption ==
    /\ {BriefcaseCount, Changesets, Len(ChangesetGroups), Len(ExtendedData), Len(NamedVersions)}
           \subseteq Nat \ {0}
    /\ ChangesetGroups \in Seq(SUBSET (1..Changesets))
    /\ ExtendedData \in Seq(1..Changesets) /\ NamedVersions \in Seq(1..Changesets)
    /\ \A i, j \in DOMAIN NamedVersions : i < j => NamedVersions[i] < NamedVersions[j]
    /\ MaxAttempts \in Nat /\ MaxCheckpointPolls \in Nat /\ MaxIModels \in Nat
    /\ MaxCalls \in Nat /\ MaxEnds \in Nat

VARIABLES iModels,   \* the service: [Ids -> what the iModel holds]
          created,   \* how many have ever been created
          repeated,  \* a request was performed, and sent again
          recreates, \* runs with the option recreateReusableIModel
          run,       \* [Runs -> the run], see NewRun
          waits,     \* [Runs -> what it waits for: [m, version, left], with the looks left]
          calls, ends

service == <<iModels, created, repeated>>
bounds == <<calls, ends>>
vars == <<service, recreates, run, waits, bounds>>

\* at: the request that the run awaits; m: the iModel in hand; done: requests of the same
\* kind that were answered; groupIds: of the changeset groups it has created; attempts: looks
\* for the end of a creation; reusable: _reusableIModel
NewRun == [at |-> "idle", m |-> NoIModel, done |-> 0, groupIds |-> <<>>, attempts |-> 0,
           reusable |-> NoIModel]

Nothing == [exists |-> FALSE, description |-> "none", briefcases |-> 0, groups |-> <<>>,
            closed |-> {}, changesets |-> <<>>, extended |-> <<>>, versions |-> <<>>, locks |-> 0]

Init == /\ iModels = [m \in Ids |-> Nothing] /\ created = 0 /\ repeated = FALSE
        /\ recreates \in SUBSET Runs
        /\ run = [r \in Runs |-> NewRun]
        /\ waits = [r \in Runs |-> {}]
        /\ calls = 0 /\ ends = 0

\* the iModel of the name, if there is one; the service keeps it to one
OfTheName == {m \in Ids : iModels[m].exists}
-------------------------------------------------------------------------------
(* What createReusable sends, in this order.                               *)

PartsDefect == <<"briefcases", "groups", "changesets", "completeGroups", "extendedData",
                 "namedVersions", "lock", "complete">>

Parts == <<"briefcases", "groups", "changesets", "completeGroups", "extendedData",
           "namedVersions", "checkpoints", "lock", "complete">>

\* how many requests
Requests(part) ==
    CASE part = "briefcases" -> BriefcaseCount
      [] part \in {"groups", "completeGroups"} -> Len(ChangesetGroups)
      [] part = "changesets" -> Changesets
      [] part = "extendedData" -> Len(ExtendedData)
      [] part = "namedVersions" -> Len(NamedVersions)
      [] OTHER -> 1

\* the first group a changeset is in, of those given, or 0
GroupOf(changeset, groups) ==
    LET mine == {g \in DOMAIN groups : changeset \in ChangesetGroups[groups[g]]}
    IN  IF mine = {} THEN 0 ELSE CHOOSE g \in mine : \A h \in mine : g <= h

InOrder == [g \in DOMAIN ChangesetGroups |-> g]

NewNamedVersion(n) == [name |-> n, changeset |-> NamedVersions[n], checkpoint |-> "scheduled"]

\* two levels of objects, of the first briefcase
Locked(now) == [now EXCEPT !.locks = 1]

\* What the n-th request of a part makes of an iModel; ids of groups are given.
Performed(now, part, n, ids) ==
    CASE part = "briefcases" -> [now EXCEPT !.briefcases = @ + 1]
      [] part = "groups" -> [now EXCEPT !.groups = Append(@, n)]
      [] part = "changesets" ->
             LET g == GroupOf(n, InOrder)
             IN  [now EXCEPT !.changesets = Append(@, IF g = 0 THEN 0 ELSE ids[g])]
      [] part = "completeGroups" -> [now EXCEPT !.closed = @ \union {ids[n]}]
      [] part = "extendedData" -> [now EXCEPT !.extended = Append(@, ExtendedData[n])]
      [] part = "namedVersions" ->
             [now EXCEPT !.versions = Append(@, NewNamedVersion(n))]
      [] part = "lock" -> Locked(now)
      [] part = "complete" -> [now EXCEPT !.description = "completed"]

\* what there may be once only
Refused(now, part, n) ==
    \/ ~now.exists
    \/ part = "changesets" /\ Len(now.changesets) >= n
    \/ part = "extendedData" /\ \E i \in DOMAIN now.extended : now.extended[i] = ExtendedData[n]
    \/ part = "namedVersions" /\ \E i \in DOMAIN now.versions : now.versions[i].name = n

\* the service generates a checkpoint, or fails to
CheckpointGenerated(m) ==
    /\ \E i \in DOMAIN iModels[m].versions, state \in {"successful", "failed"} :
           /\ iModels[m].versions[i].checkpoint = "scheduled"
           /\ iModels' = [iModels EXCEPT ![m].versions[i].checkpoint = state]
    /\ UNCHANGED <<created, repeated, recreates, run, waits, bounds>>
-------------------------------------------------------------------------------
(* What becomes of a run.                                                  *)

Returned(s, m) == [NewRun EXCEPT !.reusable = m]

Thrown(s) == NewRun

LoopDefect(s, m, n) ==
    IF iModels[m].description = "completed" THEN [s EXCEPT !.at = "queryBriefcases", !.m = m]
    ELSE [s EXCEPT !.at = "sleep", !.m = m]

\* The head of the loop of waitForInitializedIModel.  The bound comes first, so that what the
\* last look has found is not looked at.
Loop(s, m, n) ==
    IF n = MaxAttempts THEN Thrown(s)
    ELSE [s EXCEPT !.m = m, !.attempts = n,
                   !.at = IF iModels[m].description = "completed" THEN "queryBriefcases" ELSE "sleep"]

\* The next request of createReusable.
Following(s) ==
    LET i == CHOOSE i \in DOMAIN Parts : Parts[i] = s.at
    IN  IF s.done + 1 < Requests(s.at) THEN [s EXCEPT !.done = @ + 1]
        ELSE IF i = Len(Parts) THEN Returned(s, s.m)
        ELSE [s EXCEPT !.at = Parts[i + 1], !.done = 0]

Become(r, s) == run' = [run EXCEPT ![r] = s]
-------------------------------------------------------------------------------
(* getOrCreate.                                                            *)

\* Tests of a run ask one after another; what was returned once is returned again.
GetOrCreate(r) ==
    /\ run[r].at = "idle" /\ run[r].reusable = NoIModel /\ calls < MaxCalls
    /\ calls' = calls + 1
    /\ Become(r, [run[r] EXCEPT !.at = "find"])
    /\ UNCHANGED <<service, recreates, waits, ends>>

DeletesDefect(r) == TRUE

\* the option
Deletes(r) == r \in recreates

Find(r) ==
    /\ run[r].at = "find"
    /\ \/ OfTheName = {} /\ Become(r, [run[r] EXCEPT !.at = "create"])
       \/ \E m \in OfTheName :
             Become(r, IF Deletes(r) THEN [run[r] EXCEPT !.at = "delete", !.m = m]
                       ELSE Loop(run[r], m, 0))
    /\ UNCHANGED <<service, recreates, waits, bounds>>

Sleep(r) == /\ run[r].at = "sleep"
            /\ Become(r, [run[r] EXCEPT !.at = "look"])
            /\ UNCHANGED <<service, recreates, waits, bounds>>

\* the iModel again
Look(r) ==
    /\ run[r].at = "look" /\ iModels[run[r].m].exists
    /\ Become(r, Loop(run[r], run[r].m, run[r].attempts + 1))
    /\ UNCHANGED <<service, recreates, waits, bounds>>

PerformDelete(m) == /\ iModels[m].exists
                    /\ iModels' = [iModels EXCEPT ![m] = Nothing]
                    /\ UNCHANGED created

Delete(r) ==
    /\ run[r].at = "delete"
    /\ PerformDelete(run[r].m)
    /\ Become(r, [run[r] EXCEPT !.at = "create", !.m = NoIModel])
    /\ UNCHANGED <<repeated, recreates, waits, bounds>>
-------------------------------------------------------------------------------
(* createReusable.                                                         *)

PerformCreate == /\ OfTheName = {} /\ created < MaxIModels
                 /\ created' = created + 1
                 /\ iModels' = [iModels EXCEPT ![created + 1] =
                        [Nothing EXCEPT !.exists = TRUE, !.description = "inProgress"]]

Create(r) ==
    /\ run[r].at = "create"
    /\ PerformCreate
    /\ Become(r, [run[r] EXCEPT !.at = Parts[1], !.m = created + 1])
    /\ UNCHANGED <<repeated, recreates, waits, bounds>>

Sends(s) == s.at \in {Parts[i] : i \in DOMAIN Parts} \ {"checkpoints"}

PerformPart(s) ==
    /\ Sends(s) /\ ~Refused(iModels[s.m], s.at, s.done + 1)
    /\ iModels' = [iModels EXCEPT ![s.m] = Performed(@, s.at, s.done + 1, s.groupIds)]
    /\ UNCHANGED created

\* A named version's checkpoint is waited for while the next one is created.
Part(r) ==
    /\ PerformPart(run[r])
    /\ Become(r, Following(IF run[r].at # "groups" THEN run[r]
                           ELSE [run[r] EXCEPT !.groupIds = Append(@, Len(iModels'[run[r].m].groups))]))
    /\ waits' = IF run[r].at # "namedVersions" THEN waits
                ELSE [waits EXCEPT ![r] = @ \union {[m |-> run[r].m, version |-> run[r].done + 1,
                                                     left |-> MaxCheckpointPolls]}]
    /\ UNCHANGED <<repeated, recreates, bounds>>

\* Promise.all
AllGenerated(r) ==
    /\ run[r].at = "checkpoints" /\ waits[r] = {}
    /\ Become(r, Following(run[r]))
    /\ UNCHANGED <<service, recreates, waits, bounds>>

\* The run ends; what it sent stays.
Ended(r) == /\ ends < MaxEnds /\ ends' = ends + 1
            /\ Become(r, NewRun)
            /\ waits' = [waits EXCEPT ![r] = {}]
            /\ UNCHANGED <<service, recreates, calls>>

\* The state of a checkpoint; that of an iModel which is gone is an error.
CheckpointState(w) ==
    LET named == {i \in DOMAIN iModels[w.m].versions : iModels[w.m].versions[i].name = w.version}
    IN  IF named = {} THEN "failed" ELSE iModels[w.m].versions[CHOOSE i \in named : TRUE].checkpoint

\* waitForNamedVersionCheckpointGenerated looks again, or has seen what it waits for: one that
\* has been generated may have no link or no access info yet.
Wait(r, w) ==
    /\ \/ /\ CheckpointState(w) = "successful"
          /\ waits' = [waits EXCEPT ![r] = @ \ {w}]
       \/ /\ CheckpointState(w) \in {"scheduled", "successful"} /\ w.left > 1
          /\ waits' = [waits EXCEPT ![r] = (@ \ {w}) \union {[w EXCEPT !.left = @ - 1]}]
    /\ UNCHANGED <<service, recreates, run, bounds>>

\* It fails, for any reason.  Promise.all rejects with the first one; before the code gets
\* there, or when it has thrown, nobody handles it and the run ends.
WaitFails(r, w) ==
    \/ /\ run[r].at = "checkpoints"
       /\ Become(r, Thrown(run[r]))
       /\ waits' = [waits EXCEPT ![r] = {}]
       /\ UNCHANGED <<service, recreates, bounds>>
    \/ run[r].at # "checkpoints" /\ Ended(r)
-------------------------------------------------------------------------------
(* TestIModelRetriever.                                                    *)

Queries == <<"queryBriefcases", "queryNamedVersions", "queryLock", "queryChangesetGroups",
             "queryExtendedData", "queryChangesets">>

\* by changeset, otherwise as they are listed
Sorted(versions) ==
    LET Before(i) == {j \in DOMAIN versions :
                         \/ versions[j].changeset < versions[i].changeset
                         \/ versions[j].changeset = versions[i].changeset /\ j < i}
    IN  [k \in DOMAIN versions |->
            versions[CHOOSE i \in DOMAIN versions : Cardinality(Before(i)) = k - 1]]

EachInItsGroup(now) == \A c \in 1..Changesets : now.changesets[c] = GroupOf(c, now.groups)

\* What a query must find.
Expected(now, query) ==
    CASE query = "queryBriefcases" -> now.briefcases = BriefcaseCount
      [] query = "queryNamedVersions" ->
             /\ Len(now.versions) = Len(NamedVersions)
             /\ \A i \in DOMAIN NamedVersions :
                    /\ Sorted(now.versions)[i].name = i
                    /\ Sorted(now.versions)[i].changeset = NamedVersions[i]
      [] query = "queryLock" -> now.locks = 1
      [] query = "queryChangesetGroups" -> Len(now.groups) = Len(ChangesetGroups)
      [] query = "queryExtendedData" -> Len(now.extended) = Len(ExtendedData)
      [] query = "queryChangesets" -> Len(now.changesets) = Changesets /\ EachInItsGroup(now)

Query(r) == \E i \in DOMAIN Queries :
    /\ run[r].at = Queries[i] /\ iModels[run[r].m].exists
    /\ Become(r, IF ~Expected(iModels[run[r].m], Queries[i]) THEN Thrown(run[r])
                 ELSE IF i = Len(Queries) THEN Returned(run[r], run[r].m)
                 ELSE [run[r] EXCEPT !.at = Queries[i + 1]])
    /\ UNCHANGED <<service, recreates, waits, bounds>>
-------------------------------------------------------------------------------
(* What goes wrong.                                                        *)

Perform(r) == \/ run[r].at = "create" /\ PerformCreate
              \/ run[r].at = "delete" /\ PerformDelete(run[r].m)
              \/ PerformPart(run[r])

\* An error, or no answer though the request may have been performed; an iModel that
\* another run has deleted is one.  Waits that have begun go on.
Fails(r) ==
    /\ run[r].at \notin {"idle", "sleep", "checkpoints"}
    /\ Become(r, Thrown(run[r]))
    /\ Perform(r) \/ UNCHANGED <<iModels, created>>
    /\ UNCHANGED <<repeated, recreates, waits, bounds>>

\* The answer is lost, and the rest client sends the request again.
Repeat(r) == /\ ~repeated /\ repeated' = TRUE
             /\ Perform(r)
             /\ UNCHANGED <<recreates, run, waits, bounds>>
-------------------------------------------------------------------------------
Proceed(r) == \/ Find(r) \/ Sleep(r) \/ Look(r) \/ Delete(r)
              \/ Create(r) \/ Part(r) \/ AllGenerated(r) \/ Query(r) \/ Fails(r)
              \/ \E w \in waits[r] : Wait(r, w) \/ WaitFails(r, w)

Next == \/ \E r \in Runs : GetOrCreate(r) \/ Proceed(r) \/ Repeat(r) \/ Ended(r)
        \/ \E m \in Ids : CheckpointGenerated(m)

Spec == Init /\ [][Next]_vars

\* Every await of a run ends.
FairSpec == Spec /\ \A r \in Runs : WF_vars(Proceed(r))
-------------------------------------------------------------------------------
AnyIModel ==
    [exists : BOOLEAN, description : {"none", "inProgress", "completed"}, briefcases : Nat,
     groups : Seq(DOMAIN ChangesetGroups), closed : SUBSET Nat, changesets : Seq(Nat),
     extended : Seq(1..Changesets), locks : {0, 1},
     versions : Seq([name : DOMAIN NamedVersions, changeset : 1..Changesets,
                     checkpoint : {"scheduled", "successful", "failed"}])]

AnyRun ==
    [at : {"idle", "find", "sleep", "look", "delete", "create"}
              \union {Parts[i] : i \in DOMAIN Parts} \union {Queries[i] : i \in DOMAIN Queries},
     m : 0..MaxIModels, done : Nat, groupIds : Seq(Nat), attempts : 0..MaxAttempts,
     reusable : 0..MaxIModels]

\* Every variable has its type.
TypeOK ==
    /\ iModels \in [Ids -> AnyIModel]
    /\ created \in 0..MaxIModels /\ repeated \in BOOLEAN /\ recreates \subseteq Runs
    /\ run \in [Runs -> AnyRun]
    /\ waits \in [Runs -> SUBSET [m : Ids, version : DOMAIN NamedVersions, left : Nat]]
    /\ calls \in 0..MaxCalls /\ ends \in 0..MaxEnds

\* What says of itself that its creation has completed holds all that a run which finds it
\* checks, has its checkpoints, and its changeset groups are completed, whichever runs ended
\* or failed meanwhile; but for a request that was performed twice.
CompletedIsWhole ==
    \A m \in Ids : iModels[m].description = "completed" /\ ~repeated =>
        /\ \A i \in DOMAIN Queries : Expected(iModels[m], Queries[i])
        /\ \A i \in DOMAIN iModels[m].versions : iModels[m].versions[i].checkpoint = "successful"
        /\ iModels[m].closed = DOMAIN iModels[m].groups

\* What getOrCreate has returned to a run is there and completed, and the same for all, as
\* long as no other run has the option to recreate it.
RunsShareOne ==
    \A r \in Runs : run[r].reusable # NoIModel /\ recreates \subseteq {r} =>
        /\ OfTheName = {run[r].reusable}
        /\ iModels[run[r].reusable].description = "completed"

\* Every call of getOrCreate ends, whatever becomes of the run that creates the iModel.
CallsSettle == \A r \in Runs : run[r].at # "idle" ~> run[r].at = "idle"
===============================================================================
