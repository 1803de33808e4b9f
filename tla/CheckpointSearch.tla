---------------------------- MODULE CheckpointSearch ----------------------------
(***************************************************************************)
(* queryV2Checkpoint and the lookup of downloadV1Checkpoint: which         *)
(* checkpoint a query for a changeset ends up with, while the service      *)
(* goes on to generate checkpoints between the requests of the query.      *)
(* A request and the code up to the next await are one action: what lies   *)
(* between the answer and its reader is seen by nobody.                    *)
(* Definitions called ...Defect are mistakes the properties must catch.    *)
(***************************************************************************)
EXTENDS Integers

CONSTANT LastIndex   \* the index of the latest changeset

ASSUME IndexAssumption == LastIndex \in Nat

ChangesetIndices == 0..LastIndex

\* v1: _links.download is there.  v2: directoryAccessInfo is null, can be used, or
\* lacks a field or is for a storage that is not supported.
Checkpoints == [v1 : BOOLEAN, v2 : {"null", "valid", "invalid"}]

\* no checkpoint, whose request is answered with CheckpointNotFound
Missing == [v1 |-> FALSE, v2 |-> "missing"]

Scheduled == [v1 |-> FALSE, v2 |-> "null"]

Queries == [kind : {"v1", "v2"}, target : ChangesetIndices,
            indexGiven : BOOLEAN, allowPreceding : BOOLEAN]

VARIABLES query,          \* the arguments of the call
          checkpoint,     \* [ChangesetIndices -> the checkpoint at the service]
          awaiting,       \* the request whose answer the call awaits
          changesetIndex, \* the index findLatestCheckpointForChangeset was called with
          link,           \* the index of currentOrPrecedingCheckpoint
          outcome,        \* how the call ended, and at which index
          atStart         \* the checkpoints of the kind asked for when it began

vars == <<query, checkpoint, awaiting, changesetIndex, link, outcome, atStart>>

Pending == [how |-> "pending", at |-> 0]

\* isExpectedCheckpoint
IsExpected(q, c) == IF q.kind = "v1" THEN c.v1 ELSE c.v2 # "null"

Present(q, i) == checkpoint[i] # Missing /\ IsExpected(q, checkpoint[i])

\* resolveChangesetIndexFromParamsOrQueryApi, to the first request after it
FirstOfSearch(q) == CASE q.target = 0 -> "baseline"
                      [] q.target # 0 /\ q.indexGiven -> "changeset"
                      [] OTHER -> "changesetById"

Init == /\ query \in Queries
        /\ query.kind = "v1" => query.allowPreceding   \* downloadV1Checkpoint always does
        /\ checkpoint \in [ChangesetIndices -> Checkpoints \union {Missing}]
        /\ awaiting = IF query.kind = "v1" THEN FirstOfSearch(query) ELSE "exact"
        /\ changesetIndex = query.target
        /\ link = 0
        /\ outcome = Pending
        /\ atStart = {i \in ChangesetIndices : Present(query, i)}
-------------------------------------------------------------------------------
End(how, i) == /\ outcome' = [how |-> how, at |-> i]
               /\ awaiting' = "none"
               /\ UNCHANGED <<changesetIndex, link>>

\* the caller of a search that found nothing: undefined, or an error for V1
NothingFound == End(IF query.kind = "v1" THEN "notFound" ELSE "undefined", 0)

\* toV2CheckpointAccessProps throws for access information it cannot use
Found(i) == End(IF query.kind = "v2" /\ checkpoint[i].v2 = "invalid" THEN "invalid"
                                                                     ELSE "found", i)

ExactAnsweredDefect ==
    /\ awaiting = "exact"
    /\ IF Present(query, query.target) THEN Found(query.target)
       ELSE IF checkpoint[query.target] = Missing /\ query.allowPreceding
            THEN /\ awaiting' = FirstOfSearch(query)
                 /\ UNCHANGED <<changesetIndex, link, outcome>>
            ELSE NothingFound
    /\ UNCHANGED <<query, checkpoint, atStart>>

\* the checkpoint of the very changeset; CheckpointNotFound is no error here
ExactAnswered ==
    /\ awaiting = "exact"
    /\ IF Present(query, query.target) THEN Found(query.target)
       ELSE IF query.allowPreceding
            THEN /\ awaiting' = FirstOfSearch(query)
                 /\ UNCHANGED <<changesetIndex, link, outcome>>
            ELSE NothingFound
    /\ UNCHANGED <<query, checkpoint, atStart>>

\* getBaselineCheckpoint: here CheckpointNotFound is thrown
BaselineAnswered ==
    /\ awaiting = "baseline"
    /\ IF checkpoint[0] = Missing THEN End("notFound", 0)
       ELSE IF Present(query, 0) THEN Found(0) ELSE NothingFound
    /\ UNCHANGED <<query, checkpoint, atStart>>

ChangesetByIdAnswered ==
    /\ awaiting = "changesetById"
    /\ awaiting' = "changeset"
    /\ UNCHANGED <<query, checkpoint, changesetIndex, link, outcome, atStart>>

Preceding(i) == {j \in 0..i : checkpoint[j] # Missing}

\* the changeset, with a link to the checkpoint at it or before it
ChangesetAnswered ==
    /\ awaiting = "changeset"
    /\ IF Preceding(changesetIndex) = {} THEN NothingFound
       ELSE /\ link' \in Preceding(changesetIndex)
            /\ \A j \in Preceding(changesetIndex) : j <= link'
            /\ awaiting' = "checkpoint"
            /\ UNCHANGED <<changesetIndex, outcome>>
    /\ UNCHANGED <<query, checkpoint, atStart>>

PreviousIndexDefect == link - 2

PreviousIndexSameDefect == link

\* previousChangesetIndex: the changeset before the unusable checkpoint
PreviousIndex == link - 1

SearchOn == /\ changesetIndex' = PreviousIndex
            /\ awaiting' = "changeset"
            /\ UNCHANGED <<link, outcome>>

CheckpointAnsweredDefect ==
    /\ awaiting = "checkpoint"
    /\ IF Present(query, link) THEN Found(link)
       ELSE IF PreviousIndex <= 1 THEN NothingFound ELSE SearchOn
    /\ UNCHANGED <<query, checkpoint, atStart>>

\* the checkpoint the link led to; a search from index 0 ends before it begins
CheckpointAnswered ==
    /\ awaiting = "checkpoint"
    /\ IF Present(query, link) THEN Found(link)
       ELSE IF PreviousIndex <= 0 THEN NothingFound ELSE SearchOn
    /\ UNCHANGED <<query, checkpoint, atStart>>

\* a request fails, and its error is thrown
RequestFails ==
    /\ awaiting # "none"
    /\ End("failed", 0)
    /\ UNCHANGED <<query, checkpoint, atStart>>
-------------------------------------------------------------------------------
\* The service: a checkpoint is scheduled, its file or its blocks become available.
Generate(i) ==
    /\ \E c \in Checkpoints :
           /\ IF checkpoint[i] = Missing THEN c = Scheduled
              ELSE /\ checkpoint[i].v1 => c.v1
                   /\ checkpoint[i].v2 # "null" => c.v2 = checkpoint[i].v2
           /\ checkpoint' = [checkpoint EXCEPT ![i] = c]
           /\ checkpoint' # checkpoint
    /\ UNCHANGED <<query, awaiting, changesetIndex, link, outcome, atStart>>

Proceed == \/ ExactAnswered \/ BaselineAnswered \/ ChangesetByIdAnswered
           \/ ChangesetAnswered \/ CheckpointAnswered

Done == awaiting = "none" /\ UNCHANGED vars

Next == \/ Proceed
        \/ RequestFails
        \/ awaiting # "none" /\ \E i \in ChangesetIndices : Generate(i)
        \/ Done

Spec == Init /\ [][Next]_vars

\* Every request is answered or fails; the service need not generate anything.
FairSpec == Spec /\ WF_vars(Proceed \/ RequestFails)
-------------------------------------------------------------------------------
\* Every variable has its type.
TypeOK ==
    /\ query \in Queries
    /\ checkpoint \in [ChangesetIndices -> Checkpoints \union {Missing}]
    /\ awaiting \in {"none", "exact", "baseline", "changesetById", "changeset", "checkpoint"}
    /\ changesetIndex \in ChangesetIndices
    /\ link \in ChangesetIndices
    /\ outcome \in [how : {"pending", "found", "undefined", "notFound", "invalid", "failed"},
                    at : ChangesetIndices]
    /\ atStart \subseteq ChangesetIndices

\* What a query ends with is of the kind asked for, is not of a later changeset,
\* and none of the checkpoints that were there when it began is nearer: not even
\* if others appear between the two requests of a step of the search.
FoundIsLatest ==
    outcome.how \in {"found", "invalid"} =>
        /\ Present(query, outcome.at)
        /\ outcome.at <= query.target
        /\ query.allowPreceding \/ outcome.at = query.target
        /\ \A i \in atStart : i <= query.target => i <= outcome.at

\* A query that finds nothing has not overlooked a checkpoint that was there when
\* it began, but for the baseline, and that only if the first changeset has one too.
NothingOverlooked ==
    outcome.how \in {"undefined", "notFound"} =>
        \A i \in atStart :
            IF query.allowPreceding
            THEN i > query.target \/ (i = 0 /\ query.target > 0 /\ checkpoint[1] # Missing)
            ELSE i # query.target

\* Every query ends, however many checkpoints turn out to be of no use.
QuerySettles == <>(awaiting = "none")
===============================================================================
