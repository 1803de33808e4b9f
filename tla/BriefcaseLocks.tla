----------------------------- MODULE BriefcaseLocks -----------------------------
(***************************************************************************)
(* Briefcases and locks, as BackendIModelsAccess works with them for       *)
(* several users at once.  A request that the rest client repeats after a  *)
(* lost connection leaves a copy behind, which the service may perform     *)
(* once at any later time; two equal copies count as one.  The request in  *)
(* hand is performed and answered in one step, since an answer that is     *)
(* lost is such a repetition.  Any request may be refused; by which error  *)
(* is told by ErrorAdapter, and nothing here depends on it.                *)
(* Definitions called ...Defect are mistakes the properties must catch.    *)
(***************************************************************************)
EXTENDS Naturals, FiniteSets

CONSTANTS Users,          \* processes, each with a briefcase or none
          Objects,
          LockMaps,       \* what users ask acquireLocks for: from objects to LockStates
          MaxRetries,     \* what the rest client allows a request
          MaxBriefcases,  \* what the service allows an iModel
          MaxStray,       \* requests left behind: bounds the model
          MaxCalls,       \* calls of all users: bounds the model
          MaxChangesets   \* changesets pushed: bounds the model

\* None, Shared and Exclusive of the platform
LockStates == 0..2

ASSUME LocksAssumption ==
    /\ MaxRetries \in Nat /\ MaxBriefcases \in Nat /\ MaxStray \in Nat
    /\ MaxCalls \in Nat /\ MaxChangesets \in Nat
    /\ \A locks \in LockMaps : DOMAIN locks \subseteq Objects
                                  /\ \A o \in DOMAIN locks : locks[o] \in LockStates

LockLevels == {"none", "shared", "exclusive"}
LockedObjects == [lockLevel : LockLevels, objectIds : SUBSET Objects]
BriefcaseIds == 1..MaxBriefcases
NoBriefcase == 0

Operations == {"acquireBriefcase", "releaseBriefcase", "getBriefcaseList",
               "updateLocks", "getLockList", "releaseLocksChunk"}

Requests == [what : Operations,
             user : Users, briefcase : BriefcaseIds \union {NoBriefcase},
             locked : SUBSET LockedObjects, changeset : 0..MaxChangesets]

VARIABLES briefcases, \* the service: [Users -> the briefcases that are theirs]
          issued,     \* the number of briefcases ever issued
          holds,      \* [BriefcaseIds -> [Objects -> the level of the lock]]
          releasedAt, \* [Objects -> the changeset they were last released with]
          latest,     \* the latest changeset
          stray,      \* requests ever left behind
          arrived,    \* those of them that have been performed
          step,       \* [Users -> the await the user stands at]
          request,    \* [Users -> the latest request]
          retries,    \* [Users -> retries of it]
          calls,      \* calls so far
          known,      \* [Users -> the briefcases it was told of]
          mine,       \* [Users -> the briefcase it works with]
          believed,   \* [Users -> [Objects -> the lock it may rely on]]
          pulled,     \* [Users -> the changeset its briefcase is at]
          released,   \* [Users -> it has released all locks and got none since]
          edited      \* [Objects -> the changeset of the latest edit]

service == <<briefcases, issued, holds, releasedAt>>
network == <<stray, arrived>>
client == <<step, request, retries, calls, known, mine, believed, released>>
versions == <<latest, pulled, edited>>
vars == <<service, network, client, versions>>

NoLocks == [o \in Objects |-> 0]
NoRequest(u) == [what |-> "acquireBriefcase", user |-> u, briefcase |-> NoBriefcase,
                 locked |-> {}, changeset |-> 0]

\* Some users have a briefcase from an earlier run.
Init == /\ mine \in [Users -> BriefcaseIds \union {NoBriefcase}]
        /\ issued \in 0..MaxBriefcases
        /\ \A b \in 1..issued : \E u \in Users : mine[u] = b
        /\ \A u \in Users : mine[u] <= issued
                              /\ \A v \in Users \ {u} : mine[u] = mine[v] => mine[u] = NoBriefcase
        /\ known = [u \in Users |-> {mine[u]} \ {NoBriefcase}]
        /\ briefcases = known
        /\ holds = [b \in BriefcaseIds |-> [o \in Objects |-> "none"]]
        /\ releasedAt = NoLocks /\ latest = 0
        /\ stray = {} /\ arrived = {}
        /\ step = [u \in Users |-> "idle"]
        /\ request = [u \in Users |-> NoRequest(u)]
        /\ retries = [u \in Users |-> 0] /\ calls = 0
        /\ believed = [u \in Users |-> NoLocks]
        /\ pulled = [u \in Users |-> 0]
        /\ released = [u \in Users |-> FALSE]
        /\ edited = NoLocks
-------------------------------------------------------------------------------
(* The adapters.                                                           *)

ToLockLevel(state) == CASE state = 0 -> "none" [] state = 1 -> "shared" [] state = 2 -> "exclusive"

ToLockStateDefect(level) == CASE level = "none" -> 0 [] level = "shared" -> 2 [] level = "exclusive" -> 2

ToLockState(level) == CASE level = "none" -> 0 [] level = "shared" -> 1 [] level = "exclusive" -> 2

GroupLocksByLockLevel(locks) ==
    [level \in {ToLockLevel(locks[o]) : o \in DOMAIN locks} |->
        {o \in DOMAIN locks : ToLockLevel(locks[o]) = level}]

\* toLockedObjects with convertGroupedLocksToLockedObjects
ToLockedObjects(locks) ==
    LET grouped == GroupLocksByLockLevel(locks)
    IN  {[lockLevel |-> level, objectIds |-> grouped[level]] : level \in DOMAIN grouped}

\* an object that no group names is not locked
ToLockProps(locked) ==
    [o \in Objects |->
        IF \E group \in locked : o \in group.objectIds
        THEN ToLockState((CHOOSE group \in locked : o \in group.objectIds).lockLevel)
        ELSE 0]
-------------------------------------------------------------------------------
(* The service.                                                            *)

Exists(b) == \E u \in Users : b \in briefcases[u]

LevelAskedFor(r, o) ==
    IF \E group \in r.locked : o \in group.objectIds
    THEN (CHOOSE group \in r.locked : o \in group.objectIds).lockLevel
    ELSE holds[r.briefcase][o]

Conflicts(r) ==
    {o \in Objects : LevelAskedFor(r, o) # holds[r.briefcase][o]
        /\ \E b \in BriefcaseIds \ {r.briefcase} :
            \/ holds[b][o] = "exclusive" /\ LevelAskedFor(r, o) # "none"
            \/ holds[b][o] = "shared" /\ LevelAskedFor(r, o) = "exclusive"}

\* objects that were released with changes the briefcase does not have
Outdated(r) ==
    {o \in Objects : LevelAskedFor(r, o) \notin {"none", holds[r.briefcase][o]}
                        /\ releasedAt[o] > r.changeset}

Rank == [none |-> 0, shared |-> 1, exclusive |-> 2]

\* Locks of a briefcase become those of levels; what is lowered is noted with its changeset.
SetLocks(b, levels, changeset) ==
    /\ holds' = [holds EXCEPT ![b] = levels]
    /\ releasedAt' = [o \in Objects |->
            IF Rank[levels[o]] < Rank[holds[b][o]] /\ changeset > releasedAt[o]
            THEN changeset ELSE releasedAt[o]]

PerformUpdate(r) ==
    /\ Exists(r.briefcase) /\ Conflicts(r) = {} /\ Outdated(r) = {}
    /\ SetLocks(r.briefcase, [o \in Objects |-> LevelAskedFor(r, o)], r.changeset)
    /\ UNCHANGED <<briefcases, issued>>

Held(b) == {o \in Objects : holds[b][o] # "none"}

\* as many as the service likes, but some
PerformChunk(r, chunk) ==
    /\ Exists(r.briefcase)
    /\ chunk \subseteq Held(r.briefcase)
    /\ chunk = {} => Held(r.briefcase) = {}
    /\ SetLocks(r.briefcase,
                [o \in Objects |-> IF o \in chunk THEN "none" ELSE holds[r.briefcase][o]],
                r.changeset)
    /\ UNCHANGED <<briefcases, issued>>

PerformAcquire(r) ==
    /\ issued < MaxBriefcases
    /\ issued' = issued + 1
    /\ briefcases' = [briefcases EXCEPT ![r.user] = @ \union {issued + 1}]
    /\ UNCHANGED <<holds, releasedAt>>

\* Its locks go with it, as if released with all there is.
PerformRelease(r) ==
    /\ Exists(r.briefcase)
    /\ briefcases' = [u \in Users |-> briefcases[u] \ {r.briefcase}]
    /\ SetLocks(r.briefcase, [o \in Objects |-> "none"], latest)
    /\ UNCHANGED issued

Perform(r) == \/ r.what = "acquireBriefcase" /\ PerformAcquire(r)
              \/ r.what = "releaseBriefcase" /\ PerformRelease(r)
              \/ r.what = "updateLocks" /\ PerformUpdate(r)
              \/ r.what = "releaseLocksChunk" /\ \E chunk \in SUBSET Objects : PerformChunk(r, chunk)

\* A request that was left behind arrives; one that is refused may as well never come.
Arrive(r) == /\ r \in stray \ arrived
             /\ arrived' = arrived \union {r}
             /\ Perform(r)
             /\ UNCHANGED <<stray, client, versions>>
-------------------------------------------------------------------------------
(* The calls of a user.                                                    *)

Lower(a, b) == IF a < b THEN a ELSE b

\* Until the call returns, the user relies on no more than holds however it ends.
Begin(u, r, briefcase, reliable) ==
    /\ step[u] = "idle" /\ calls < MaxCalls
    /\ step' = [step EXCEPT ![u] = r.what]
    /\ request' = [request EXCEPT ![u] = r]
    /\ calls' = calls + 1
    /\ mine' = [mine EXCEPT ![u] = briefcase]
    /\ believed' = [believed EXCEPT ![u] = reliable]
    /\ UNCHANGED <<service, network, versions, retries, released>>

AcquireNewBriefcaseId(u) ==
    /\ mine[u] = NoBriefcase
    /\ Begin(u, NoRequest(u), NoBriefcase, NoLocks)
    /\ UNCHANGED known

\* Any briefcase the user was told of, the one it works with too.
ReleaseBriefcase(u) ==
    \E b \in known[u] :
        /\ Begin(u, [NoRequest(u) EXCEPT !.what = "releaseBriefcase", !.briefcase = b],
                 IF b = mine[u] THEN NoBriefcase ELSE mine[u],
                 IF b = mine[u] THEN NoLocks ELSE believed[u])
        /\ known' = [known EXCEPT ![u] = @ \ {b}]

GetMyBriefcaseIds(u) ==
    Begin(u, [NoRequest(u) EXCEPT !.what = "getBriefcaseList"], mine[u], believed[u])
        /\ UNCHANGED known

LockRequestDefect(u, what, locks) ==
    [what |-> what, user |-> u, briefcase |-> mine[u], locked |-> ToLockedObjects(locks), changeset |-> 0]

\* with the changeset the briefcase is at
LockRequest(u, what, locks) ==
    [what |-> what, user |-> u, briefcase |-> mine[u],
     locked |-> ToLockedObjects(locks), changeset |-> pulled[u]]

AcquireLocks(u, locks) ==
    /\ mine[u] # NoBriefcase
    /\ Begin(u, LockRequest(u, "updateLocks", locks), mine[u],
             [o \in Objects |-> IF o \in DOMAIN locks THEN Lower(locks[o], believed[u][o])
                                ELSE believed[u][o]])
    /\ UNCHANGED known

QueryAllLocks(u) ==
    /\ mine[u] # NoBriefcase
    /\ Begin(u, LockRequest(u, "getLockList", <<>>), mine[u], believed[u])
    /\ UNCHANGED known

ReleaseAllLocks(u) ==
    /\ mine[u] # NoBriefcase
    /\ Begin(u, LockRequest(u, "releaseLocksChunk", <<>>), mine[u], NoLocks)
    /\ UNCHANGED known

Return(u) == /\ step' = [step EXCEPT ![u] = "idle"]
             /\ request' = [request EXCEPT ![u] = NoRequest(u)]
             /\ retries' = [retries EXCEPT ![u] = 0]
             /\ UNCHANGED calls

\* a refusal, or a connection given up
Throw(u) == Return(u) /\ UNCHANGED <<service, known, mine, believed, released>>

BriefcaseAcquired(u) ==
    /\ step[u] = "acquireBriefcase"
    /\ \/ /\ PerformAcquire(request[u])
          /\ Return(u)
          /\ known' = [known EXCEPT ![u] = @ \union {issued + 1}]
          /\ mine' = [mine EXCEPT ![u] = issued + 1]
          /\ UNCHANGED <<believed, released>>
       \/ Throw(u)
    /\ UNCHANGED <<network, versions>>

BriefcaseReleased(u) ==
    /\ step[u] = "releaseBriefcase"
    /\ \/ PerformRelease(request[u]) /\ Return(u) /\ UNCHANGED <<known, mine, believed, released>>
       \/ Throw(u)
    /\ UNCHANGED <<network, versions>>

\* A user without a briefcase may go on with one that it finds.
BriefcasesListed(u) ==
    /\ step[u] = "getBriefcaseList"
    /\ \/ /\ UNCHANGED service
          /\ Return(u)
          /\ known' = [known EXCEPT ![u] = briefcases[u]]
          /\ \/ /\ mine[u] = NoBriefcase
                /\ \E b \in briefcases[u] : mine' = [mine EXCEPT ![u] = b]
                /\ released' = [released EXCEPT ![u] = FALSE]
             \/ UNCHANGED <<mine, released>>
          /\ UNCHANGED believed
       \/ Throw(u)
    /\ UNCHANGED <<network, versions>>

\* The user now relies on what the request asked for.
LocksUpdated(u) ==
    /\ step[u] = "updateLocks"
    /\ \/ /\ PerformUpdate(request[u])
          /\ Return(u)
          /\ believed' = [believed EXCEPT ![u] =
                 [o \in Objects |-> IF \E group \in request[u].locked : o \in group.objectIds
                                    THEN ToLockProps(request[u].locked)[o] ELSE @[o]]]
          /\ released' = [released EXCEPT ![u] = FALSE]
          /\ UNCHANGED <<known, mine>>
       \/ Throw(u)
    /\ UNCHANGED <<network, versions>>

\* The service tells the locks of the briefcase by level.
LocksListed(u) ==
    /\ step[u] = "getLockList"
    /\ \/ /\ UNCHANGED service
          /\ Return(u)
          /\ believed' = [believed EXCEPT ![u] = ToLockProps(
                 {[lockLevel |-> level,
                   objectIds |-> {o \in Objects : holds[mine[u]][o] = level}] : level \in LockLevels})]
          /\ UNCHANGED <<known, mine, released>>
       \/ Throw(u)
    /\ UNCHANGED <<network, versions>>

AsksAgainOnceDefect(isLastChunk) == FALSE

AsksAgainInvertedDefect(isLastChunk) == isLastChunk

\* while (!isLastChunk)
AsksAgain(isLastChunk) == ~isLastChunk

\* Each turn of the loop is a request of its own.  The service may tell by one without
\* locks that there is nothing left.
ChunkReleased(u) ==
    /\ step[u] = "releaseLocksChunk"
    /\ \/ \E chunk \in SUBSET Objects, isLastChunk \in BOOLEAN :
            /\ PerformChunk(request[u], chunk)
            /\ isLastChunk => chunk = Held(request[u].briefcase)
            /\ chunk = {} => isLastChunk
            /\ \/ /\ AsksAgain(isLastChunk)
                  /\ retries' = [retries EXCEPT ![u] = 0]
                  /\ UNCHANGED <<step, request, calls, released>>
               \/ /\ ~AsksAgain(isLastChunk)
                  /\ Return(u)
                  /\ released' = [released EXCEPT ![u] = TRUE]
            /\ UNCHANGED <<known, mine, believed>>
       \/ Throw(u)
    /\ UNCHANGED <<network, versions>>
-------------------------------------------------------------------------------
(* The connection.                                                         *)

\* Reading again changes nothing, so a copy of a GET is not kept.
LeaveBehind(u) ==
    IF step[u] \in {"getBriefcaseList", "getLockList"} THEN UNCHANGED network
    ELSE /\ stray' = stray \union {request[u]} /\ Cardinality(stray') <= MaxStray
         /\ arrived' = arrived \ {request[u]}

\* the connection is lost, and the rest client sends the request again
Resend(u) ==
    /\ step[u] # "idle" /\ retries[u] < MaxRetries
    /\ retries' = [retries EXCEPT ![u] = @ + 1]
    /\ LeaveBehind(u)
    /\ UNCHANGED <<service, versions, step, request, calls, known, mine, believed, released>>

\* it is lost once too often
GiveUp(u) ==
    /\ step[u] # "idle" /\ retries[u] = MaxRetries
    /\ LeaveBehind(u)
    /\ Throw(u)
    /\ UNCHANGED versions
-------------------------------------------------------------------------------
(* What a user does with its locks.  Pushing is the component ChangesetPush. *)

Pull(u) == /\ step[u] = "idle" /\ mine[u] # NoBriefcase /\ pulled[u] < latest
           /\ pulled' = [pulled EXCEPT ![u] = latest]
           /\ UNCHANGED <<service, network, client, latest, edited>>

\* Only what is locked exclusively is edited; the push needs the latest changeset.
Edit(u, objects) ==
    /\ step[u] = "idle" /\ mine[u] # NoBriefcase
    /\ objects # {} /\ \A o \in objects : believed[u][o] = 2
    /\ pulled[u] = latest /\ latest < MaxChangesets
    /\ latest' = latest + 1
    /\ pulled' = [pulled EXCEPT ![u] = latest + 1]
    /\ edited' = [o \in Objects |-> IF o \in objects THEN latest + 1 ELSE edited[o]]
    /\ UNCHANGED <<service, network, client>>
-------------------------------------------------------------------------------
Call(u) == \/ AcquireNewBriefcaseId(u) \/ ReleaseBriefcase(u) \/ GetMyBriefcaseIds(u)
           \/ \E locks \in LockMaps : AcquireLocks(u, locks)
           \/ QueryAllLocks(u) \/ ReleaseAllLocks(u)

Answer(u) == \/ BriefcaseAcquired(u) \/ BriefcaseReleased(u) \/ BriefcasesListed(u)
             \/ LocksUpdated(u) \/ LocksListed(u) \/ ChunkReleased(u)

Proceed(u) == Answer(u) \/ Resend(u) \/ GiveUp(u)

Next == \/ \E u \in Users : Call(u) \/ Proceed(u) \/ Pull(u)
                              \/ \E objects \in SUBSET Objects : Edit(u, objects)
        \/ \E r \in stray : Arrive(r)

Spec == Init /\ [][Next]_vars

\* Every await of a call ends.
FairSpec == Spec /\ \A u \in Users : WF_vars(Proceed(u))
-------------------------------------------------------------------------------
\* Every variable has its type.
TypeOK ==
    /\ briefcases \in [Users -> SUBSET BriefcaseIds] /\ issued \in 0..MaxBriefcases
    /\ holds \in [BriefcaseIds -> [Objects -> LockLevels]]
    /\ releasedAt \in [Objects -> 0..MaxChangesets]
    /\ edited \in [Objects -> 0..MaxChangesets]
    /\ latest \in 0..MaxChangesets /\ pulled \in [Users -> 0..MaxChangesets]
    /\ stray \subseteq Requests /\ arrived \subseteq stray
    /\ request \in [Users -> Requests]
    /\ step \in [Users -> {"idle"} \union Operations]
    /\ retries \in [Users -> 0..MaxRetries] /\ calls \in 0..MaxCalls
    /\ known \in [Users -> SUBSET BriefcaseIds]
    /\ mine \in [Users -> BriefcaseIds \union {NoBriefcase}]
    /\ believed \in [Users -> [Objects -> LockStates]]
    /\ released \in [Users -> BOOLEAN]

LowersTo(r, o) ==
    IF r.what = "updateLocks"
    THEN IF \E group \in r.locked : o \in group.objectIds THEN ToLockProps(r.locked)[o] ELSE 2
    ELSE IF r.what \in {"releaseBriefcase", "releaseLocksChunk"} THEN 0 ELSE 2

\* What acquireLocks granted, or queryAllLocks told, holds at the service until the user
\* gives it up, unless a request was left behind that gives it up too.
GrantedMeansHeld ==
    \A u \in Users, o \in Objects :
        mine[u] # NoBriefcase
            /\ (\A r \in stray : r.briefcase = mine[u] => LowersTo(r, o) >= believed[u][o])
        => Rank[holds[mine[u]][o]] >= believed[u][o]

\* After releaseAllLocks returned the briefcase has no lock, in however many chunks they
\* went, unless a request for locks was left behind.
ReleasedMeansFree ==
    \A u \in Users :
        mine[u] # NoBriefcase /\ released[u]
            /\ (\A r \in stray : r.briefcase = mine[u] => r.what # "updateLocks")
        => Held(mine[u]) = {}

\* Whoever may rely on an exclusive lock has every earlier edit of the object, as long
\* as no request was left behind that gives up a lock on it.
EditsBuildOnEachOther ==
    \A u \in Users, o \in Objects :
        believed[u][o] = 2 /\ (\A r \in stray : LowersTo(r, o) = 2) => pulled[u] >= edited[o]

\* Every call ends, the loop over the chunks too.
CallsSettle == \A u \in Users : step[u] # "idle" ~> step[u] = "idle"
===============================================================================
