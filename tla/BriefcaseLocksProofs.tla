------------------------- MODULE BriefcaseLocksProofs -------------------------
(***************************************************************************)
(* Proofs about BriefcaseLocks.  LocksInv is inductive.  Its parts about   *)
(* one user say what the user may rely on; the ones about briefcases say   *)
(* whose they are, so that what one user does leaves the locks of another  *)
(* as they are; EditInv says where the latest edit of an object is.  The   *)
(* steps that change locks are instances of Relocks, and every answer is   *)
(* one of AnswerKeeps.                                                     *)
(***************************************************************************)
EXTENDS BriefcaseLocks, TLAPS

\* A request speaks for its user and, when it is about locks, of the briefcase the user
\* works with at the changeset that is at.
RequestInv(u) ==
    /\ request[u].user = u
    /\ request[u].changeset <= pulled[u]
    /\ step[u] = "idle" => request[u] = NoRequest(u)
    /\ step[u] # "idle" => request[u].what = step[u]
    /\ step[u] \in {"updateLocks", "releaseLocksChunk"} =>
          /\ mine[u] # NoBriefcase /\ request[u].briefcase = mine[u]
          /\ request[u].changeset = pulled[u]
    /\ step[u] = "releaseBriefcase" => request[u].briefcase # mine[u]
    /\ step[u] = "acquireBriefcase" => mine[u] = NoBriefcase
    /\ step[u] = "getLockList" => mine[u] # NoBriefcase
    /\ step[u] = "releaseLocksChunk" \/ mine[u] = NoBriefcase =>
          \A o \in Objects : believed[u][o] = 0

\* A briefcase is a matter of one user, for the service, the users and the requests.
OwnedBy(b, u) == \/ b = mine[u] \/ b \in known[u] \/ b \in briefcases[u]
                 \/ b = request[u].briefcase
                 \/ \E r \in stray : r.user = u /\ r.briefcase = b

OwnerInv == \A b \in BriefcaseIds, u \in Users : OwnedBy(b, u) =>
               /\ b <= issued
               /\ \A v \in Users : OwnedBy(b, v) => u = v

StrayInv == \A r \in stray : r.changeset <= pulled[r.user]

\* Only briefcases there are have locks, and an exclusive lock is the only one.
LockInv == /\ \A b \in BriefcaseIds, o \in Objects : holds[b][o] # "none" => Exists(b)
           /\ \A b, c \in BriefcaseIds, o \in Objects :
                 holds[b][o] = "exclusive" /\ holds[c][o] # "none" => b = c

\* GrantedMeansHeld for every level that is believed: a request that was left behind and
\* lowers a lock leaves what it does not lower.
HeldInv(u) == mine[u] # NoBriefcase =>
    \A o \in Objects, level \in LockStates :
        /\ level <= believed[u][o]
        /\ \A r \in stray : r.briefcase = mine[u] => LowersTo(r, o) >= level
        => Rank[holds[mine[u]][o]] >= level

\* ReleasedMeansFree for one user.
FreeInv(u) == /\ mine[u] # NoBriefcase /\ released[u]
              /\ \A r \in stray : r.briefcase = mine[u] => r.what # "updateLocks"
              => Held(mine[u]) = {}

UserInv(u) == RequestInv(u) /\ HeldInv(u) /\ FreeInv(u)

NothingLowers(o) == \A r \in stray : LowersTo(r, o) = 2

\* An edit is with whoever holds the object exclusively, or was released with it.
EditInv(o) == NothingLowers(o) =>
    /\ \A u \in Users, b \in BriefcaseIds :
          b \in briefcases[u] /\ holds[b][o] = "exclusive" => pulled[u] >= edited[o]
    /\ edited[o] <= releasedAt[o] \/ \E b \in BriefcaseIds : holds[b][o] = "exclusive"

VersionInv == /\ \A o \in Objects : edited[o] <= latest
              /\ \A u \in Users : pulled[u] <= latest

LocksInv == /\ TypeOK /\ OwnerInv /\ StrayInv /\ VersionInv /\ LockInv
            /\ \A u \in Users : UserInv(u)
            /\ \A o \in Objects : EditInv(o)
-------------------------------------------------------------------------------
(* Levels and requests.                                                    *)

\* The levels of the API are in the order of the platform's.
LEMMA Ranks ==
    /\ \A level \in LockLevels : /\ Rank[level] \in LockStates /\ ToLockState(level) = Rank[level]
                                 /\ Rank[level] = 0 <=> level = "none"
                                 /\ Rank[level] = 2 <=> level = "exclusive"
    /\ Rank["none"] = 0 /\ Rank["shared"] = 1 /\ Rank["exclusive"] = 2
BY DEF LockLevels, Rank, ToLockState, LockStates

\* What an update makes of an object is what its requester then believes of it, if it names
\* the object, and what was there otherwise.
LEMMA LevelTypes ==
    ASSUME TypeOK, NEW r \in Requests, r.briefcase # NoBriefcase, NEW o \in Objects
    PROVE  /\ r.briefcase \in BriefcaseIds /\ LevelAskedFor(r, o) \in LockLevels
           /\ r.changeset \in 0..MaxChangesets /\ r.user \in Users
           /\ IF \E group \in r.locked : o \in group.objectIds
              THEN ToLockProps(r.locked)[o] = Rank[LevelAskedFor(r, o)]
              ELSE LevelAskedFor(r, o) = holds[r.briefcase][o]
<1>1. /\ r.briefcase \in BriefcaseIds /\ r.locked \in SUBSET LockedObjects
      /\ r.changeset \in 0..MaxChangesets /\ r.user \in Users
  BY DEF Requests
<1>2. CASE \E group \in r.locked : o \in group.objectIds
  <2> DEFINE g == CHOOSE group \in r.locked : o \in group.objectIds
  <2>1. g \in r.locked
    BY <1>2
  <2>2. g.lockLevel \in LockLevels
    BY <1>1, <2>1 DEF LockedObjects
  <2>3. LevelAskedFor(r, o) = g.lockLevel /\ ToLockProps(r.locked)[o] = ToLockState(g.lockLevel)
    BY <1>2 DEF LevelAskedFor, ToLockProps
  <2> HIDE DEF g
  <2> QED
    BY <1>1, <1>2, <2>2, <2>3, Ranks
<1>3. CASE ~ \E group \in r.locked : o \in group.objectIds
  BY <1>1, <1>3 DEF LevelAskedFor, TypeOK
<1> QED
  BY <1>1, <1>2, <1>3

LEMMA ToLockedObjectsType ==
    ASSUME NEW locks \in LockMaps
    PROVE  ToLockedObjects(locks) \in SUBSET LockedObjects
<1>1. DOMAIN locks \subseteq Objects /\ \A o \in DOMAIN locks : locks[o] \in LockStates
  BY LocksAssumption
<1>2. \A o \in DOMAIN locks : ToLockLevel(locks[o]) \in LockLevels
  BY <1>1 DEF LockStates, LockLevels, ToLockLevel
<1> DEFINE grouped == GroupLocksByLockLevel(locks)
<1>3. /\ DOMAIN grouped \subseteq LockLevels
      /\ \A level \in DOMAIN grouped : grouped[level] \in SUBSET Objects
  BY <1>1, <1>2 DEF GroupLocksByLockLevel
<1> HIDE DEF grouped
<1>4. {[lockLevel |-> level, objectIds |-> grouped[level]] : level \in DOMAIN grouped}
         \in SUBSET LockedObjects
  BY <1>3 DEF LockedObjects
<1> QED
  BY <1>4 DEF ToLockedObjects, grouped

LEMMA NoLockedObjects == ToLockedObjects(<<>>) = {}
<1>1. DOMAIN <<>> = {}
  OBVIOUS
<1>2. DOMAIN GroupLocksByLockLevel(<<>>) = {}
  BY <1>1 DEF GroupLocksByLockLevel
<1> QED
  BY <1>2 DEF ToLockedObjects

\* The requests users make.
LEMMA NoRequestType ==
    ASSUME NEW u \in Users
    PROVE  /\ NoRequest(u) \in Requests
           /\ NoRequest(u).what = "acquireBriefcase" /\ NoRequest(u).user = u
           /\ NoRequest(u).briefcase = NoBriefcase /\ NoRequest(u).changeset = 0
<1>1. 0 \in 0..MaxChangesets /\ {} \in SUBSET LockedObjects
  BY LocksAssumption
<1> QED
  BY <1>1 DEF NoRequest, Requests, Operations

LEMMA ListRequestType ==
    ASSUME NEW u \in Users, NEW r,
           r = [what |-> "getBriefcaseList", user |-> u, briefcase |-> NoBriefcase, locked |-> {},
                changeset |-> 0]
    PROVE  /\ r \in Requests /\ r.what = "getBriefcaseList" /\ r.user = u
           /\ r.briefcase = NoBriefcase /\ r.changeset = 0
<1>1. 0 \in 0..MaxChangesets /\ {} \in SUBSET LockedObjects
  BY LocksAssumption
<1> QED
  BY <1>1 DEF Requests, Operations, NoBriefcase

LEMMA LockRequestType ==
    ASSUME TypeOK, NEW u \in Users, NEW what \in {"updateLocks", "getLockList", "releaseLocksChunk"},
           NEW locks \in LockMaps \union {<<>>}, NEW r, r = LockRequest(u, what, locks)
    PROVE  /\ r \in Requests /\ r.what = what /\ r.user = u
           /\ r.briefcase = mine[u] /\ r.changeset = pulled[u]
<1>1. pulled[u] \in 0..MaxChangesets /\ mine[u] \in BriefcaseIds \union {NoBriefcase}
  BY DEF TypeOK
<1>2. ToLockedObjects(locks) \in SUBSET LockedObjects
  BY ToLockedObjectsType, NoLockedObjects
<1>3. what \in Operations
  BY DEF Operations
<1> QED
  BY <1>1, <1>2, <1>3 DEF LockRequest, Requests
-------------------------------------------------------------------------------
(* What requests do at the service.                                        *)

ServiceTypes ==
    /\ briefcases \in [Users -> SUBSET BriefcaseIds] /\ issued \in 0..MaxBriefcases
    /\ holds \in [BriefcaseIds -> [Objects -> LockLevels]]
    /\ releasedAt \in [Objects -> 0..MaxChangesets]

\* The locks of briefcase b become levels; those that rise are not in anybody's way, nor
\* were they released with a changeset later than c, and those that fall are noted with c.
Relocks(b, levels, c) ==
    /\ b \in BriefcaseIds /\ Exists(b)
    /\ levels \in [Objects -> LockLevels] /\ c \in 0..MaxChangesets
    /\ SetLocks(b, levels, c)
    /\ issued' = issued
    /\ \/ briefcases' = briefcases
       \/ /\ \A o \in Objects : levels[o] = "none"
          /\ briefcases' = [u \in Users |-> briefcases[u] \ {b}]
    /\ \A o \in Objects : levels[o] \notin {"none", holds[b][o]} =>
          /\ c >= releasedAt[o]
          /\ \A d \in BriefcaseIds \ {b} :
                /\ holds[d][o] # "exclusive"
                /\ levels[o] = "exclusive" => holds[d][o] = "none"

LEMMA ExistsTypes ==
    ASSUME TypeOK, NEW b, Exists(b) PROVE b \in BriefcaseIds /\ b # NoBriefcase
BY DEF TypeOK, Exists, BriefcaseIds, NoBriefcase

\* An update, a chunk of a release and the end of a briefcase are changes of locks.
LEMMA UpdateRelocks ==
    ASSUME TypeOK, NEW r \in Requests, PerformUpdate(r)
    PROVE  Relocks(r.briefcase, [o \in Objects |-> LevelAskedFor(r, o)], r.changeset)
<1> DEFINE b == r.briefcase
           levels == [o \in Objects |-> LevelAskedFor(r, o)]
<1>1. /\ Exists(b) /\ Conflicts(r) = {} /\ Outdated(r) = {}
      /\ SetLocks(b, levels, r.changeset) /\ UNCHANGED <<briefcases, issued>>
  BY DEF PerformUpdate
<1>2. b \in BriefcaseIds /\ b # NoBriefcase
  BY <1>1, ExistsTypes
<1>3. r.changeset \in 0..MaxChangesets /\ \A o \in Objects : LevelAskedFor(r, o) \in LockLevels
  <2>1. r.changeset \in 0..MaxChangesets /\ r.briefcase # NoBriefcase
    BY <1>2 DEF Requests
  <2>2. \A o \in Objects : LevelAskedFor(r, o) \in LockLevels
    BY <2>1, LevelTypes
  <2> QED
    BY <2>1, <2>2
<1>4. ASSUME NEW o \in Objects, LevelAskedFor(r, o) \notin {"none", holds[b][o]}
      PROVE  /\ r.changeset >= releasedAt[o]
             /\ \A d \in BriefcaseIds \ {b} :
                   /\ holds[d][o] # "exclusive"
                   /\ LevelAskedFor(r, o) = "exclusive" => holds[d][o] = "none"
  <2>1. ~(releasedAt[o] > r.changeset)
    BY <1>1, <1>4 DEF Outdated
  <2>2. \A d \in BriefcaseIds \ {b} :
           /\ holds[d][o] # "exclusive"
           /\ holds[d][o] = "shared" => LevelAskedFor(r, o) # "exclusive"
    BY <1>1, <1>4 DEF Conflicts
  <2>3. \A d \in BriefcaseIds : holds[d][o] \in LockLevels
    BY DEF TypeOK
  <2>4. releasedAt[o] \in 0..MaxChangesets
    BY DEF TypeOK
  <2>5. r.changeset >= releasedAt[o]
    BY <1>3, <2>1, <2>4, LocksAssumption
  <2> QED
    BY <2>2, <2>3, <2>5 DEF LockLevels
<1> QED
  BY <1>1, <1>2, <1>3, <1>4 DEF Relocks

LEMMA ChunkRelocks ==
    ASSUME TypeOK, NEW r \in Requests, NEW chunk \in SUBSET Objects, PerformChunk(r, chunk)
    PROVE  Relocks(r.briefcase,
                   [o \in Objects |-> IF o \in chunk THEN "none" ELSE holds[r.briefcase][o]],
                   r.changeset)
<1>1. r.briefcase \in BriefcaseIds /\ r.changeset \in 0..MaxChangesets
  BY ExistsTypes DEF PerformChunk, Requests
<1>2. \A o \in Objects : holds[r.briefcase][o] \in LockLevels /\ "none" \in LockLevels
  BY <1>1 DEF TypeOK, LockLevels
<1> QED
  BY <1>1, <1>2 DEF Relocks, PerformChunk

LEMMA ReleaseRelocks ==
    ASSUME TypeOK, NEW r \in Requests, PerformRelease(r)
    PROVE  Relocks(r.briefcase, [o \in Objects |-> "none"], latest)
<1>1. r.briefcase \in BriefcaseIds /\ latest \in 0..MaxChangesets /\ "none" \in LockLevels
  BY ExistsTypes DEF PerformRelease, TypeOK, LockLevels
<1> QED
  BY <1>1 DEF Relocks, PerformRelease

\* A change of locks is of one briefcase, and what was noted of releases only rises.
LEMMA RelocksHolds ==
    ASSUME TypeOK, NEW b, NEW levels, NEW c, Relocks(b, levels, c)
    PROVE  /\ ServiceTypes'
           /\ \A d \in BriefcaseIds : holds'[d] = IF d = b THEN levels ELSE holds[d]
           /\ \A o \in Objects : /\ releasedAt'[o] >= releasedAt[o]
                                 /\ Rank[levels[o]] < Rank[holds[b][o]] => releasedAt'[o] >= c
           /\ \A u \in Users : briefcases'[u] \subseteq briefcases[u]
<1>1. /\ b \in BriefcaseIds /\ levels \in [Objects -> LockLevels] /\ c \in 0..MaxChangesets
      /\ holds' = [holds EXCEPT ![b] = levels]
      /\ releasedAt' = [o \in Objects |->
            IF Rank[levels[o]] < Rank[holds[b][o]] /\ c > releasedAt[o]
            THEN c ELSE releasedAt[o]]
      /\ issued' = issued
      /\ \/ briefcases' = briefcases
         \/ briefcases' = [u \in Users |-> briefcases[u] \ {b}]
  BY DEF Relocks, SetLocks
<1>2. /\ briefcases \in [Users -> SUBSET BriefcaseIds] /\ issued \in 0..MaxBriefcases
      /\ holds \in [BriefcaseIds -> [Objects -> LockLevels]]
      /\ releasedAt \in [Objects -> 0..MaxChangesets] /\ MaxChangesets \in Nat
  BY LocksAssumption DEF TypeOK
<1>3. releasedAt' \in [Objects -> 0..MaxChangesets]
  BY <1>1, <1>2
<1>4. /\ briefcases' \in [Users -> SUBSET BriefcaseIds]
      /\ \A u \in Users : briefcases'[u] \subseteq briefcases[u]
  BY <1>1, <1>2
<1>5. \A d \in BriefcaseIds : holds'[d] = IF d = b THEN levels ELSE holds[d]
  BY <1>1, <1>2
<1>6. \A o \in Objects : /\ releasedAt'[o] >= releasedAt[o]
                         /\ Rank[levels[o]] < Rank[holds[b][o]] => releasedAt'[o] >= c
  BY <1>1, <1>2
<1>7. ServiceTypes'
  BY <1>1, <1>2, <1>3, <1>4 DEF ServiceTypes
<1> QED
  BY <1>4, <1>5, <1>6, <1>7

\* An exclusive lock stays the only one.
LEMMA RelocksLocks ==
    ASSUME TypeOK, LockInv, NEW b, NEW levels, NEW c, Relocks(b, levels, c)
    PROVE  LockInv'
<1>1. /\ b \in BriefcaseIds /\ Exists(b) /\ levels \in [Objects -> LockLevels]
      /\ \A d \in BriefcaseIds : holds'[d] = IF d = b THEN levels ELSE holds[d]
      /\ \A d \in BriefcaseIds, o \in Objects : holds[d][o] \in LockLevels
  <2>1. b \in BriefcaseIds /\ Exists(b) /\ levels \in [Objects -> LockLevels]
    BY DEF Relocks
  <2>2. \A d \in BriefcaseIds : holds'[d] = IF d = b THEN levels ELSE holds[d]
    BY RelocksHolds
  <2>3. \A d \in BriefcaseIds, o \in Objects : holds[d][o] \in LockLevels
    BY DEF TypeOK
  <2> QED
    BY <2>1, <2>2, <2>3
<1>2. ASSUME NEW d \in BriefcaseIds, NEW o \in Objects, holds'[d][o] # "none"
      PROVE  Exists(d)'
  <2>1. Exists(d)
    BY <1>1, <1>2 DEF LockInv
  <2>2. CASE briefcases' = briefcases
    BY <2>1, <2>2 DEF Exists
  <2>3. CASE /\ \A p \in Objects : levels[p] = "none"
             /\ briefcases' = [u \in Users |-> briefcases[u] \ {b}]
    <3>1. d # b
      BY <1>1, <1>2, <2>3
    <3> QED
      BY <2>1, <2>3, <3>1 DEF Exists
  <2> QED
    BY <2>2, <2>3 DEF Relocks
<1>3. ASSUME NEW d \in BriefcaseIds, NEW e \in BriefcaseIds, NEW o \in Objects,
             holds'[d][o] = "exclusive", holds'[e][o] # "none", d # e
      PROVE  FALSE
  <2>1. CASE d # b /\ e # b
    BY <1>1, <1>3, <2>1 DEF LockInv
  <2>2. CASE d = b
    <3>1. levels[o] = "exclusive" /\ holds[e][o] # "none"
      BY <1>1, <1>3, <2>2
    <3> QED
      BY <1>3, <2>2, <3>1 DEF LockInv, Relocks
  <2>3. CASE e = b
    <3>1. levels[o] # "none" /\ holds[d][o] = "exclusive"
      BY <1>1, <1>3, <2>3
    <3> QED
      BY <1>3, <2>3, <3>1 DEF LockInv, Relocks
  <2> QED
    BY <1>3, <2>1, <2>2, <2>3
<1> QED
  BY <1>2, <1>3 DEF LockInv

\* A lock that rises is taken by somebody who has what was released, and one that falls is
\* noted with a changeset that has what was edited.
LEMMA RelocksEdits ==
    ASSUME LocksInv, NEW b, NEW levels, NEW c, Relocks(b, levels, c),
           UNCHANGED <<stray, pulled, edited>>,
           NEW w \in Users, b \in briefcases[w], NEW o \in Objects,
           NothingLowers(o) /\ levels[o] = "exclusive" /\ holds[b][o] # "exclusive" => c <= pulled[w],
           NothingLowers(o) /\ levels[o] # "exclusive" /\ holds[b][o] = "exclusive" => c >= edited[o]
    PROVE  EditInv(o)'
<1> SUFFICES ASSUME NothingLowers(o)
             PROVE  /\ \A u \in Users, d \in BriefcaseIds :
                          d \in briefcases'[u] /\ holds'[d][o] = "exclusive" => pulled[u] >= edited[o]
                    /\ edited[o] <= releasedAt'[o] \/ \E d \in BriefcaseIds : holds'[d][o] = "exclusive"
  BY DEF EditInv, NothingLowers
<1>1. /\ TypeOK /\ EditInv(o) /\ OwnerInv /\ b \in BriefcaseIds
      /\ levels[o] \in LockLevels /\ holds[b][o] \in LockLevels
      /\ edited[o] \in Nat /\ c \in Nat /\ releasedAt[o] \in Nat /\ releasedAt'[o] \in Nat
      /\ \A u \in Users : pulled[u] \in Nat
  <2>1. TypeOK /\ EditInv(o) /\ OwnerInv
    BY DEF LocksInv
  <2>2. /\ b \in BriefcaseIds /\ levels \in [Objects -> LockLevels] /\ c \in 0..MaxChangesets
        /\ MaxChangesets \in Nat
    BY LocksAssumption DEF Relocks
  <2>3. releasedAt' \in [Objects -> 0..MaxChangesets]
    BY <2>1, RelocksHolds DEF ServiceTypes
  <2> QED
    BY <2>1, <2>2, <2>3 DEF TypeOK
<1>2. /\ \A d \in BriefcaseIds : holds'[d] = IF d = b THEN levels ELSE holds[d]
      /\ releasedAt'[o] >= releasedAt[o]
      /\ Rank[levels[o]] < Rank[holds[b][o]] => releasedAt'[o] >= c
      /\ \A u \in Users : briefcases'[u] \subseteq briefcases[u]
  BY <1>1, RelocksHolds
<1>3. ASSUME NEW u \in Users, NEW d \in BriefcaseIds, d \in briefcases'[u],
             holds'[d][o] = "exclusive"
      PROVE  pulled[u] >= edited[o]
  <2>1. d \in briefcases[u]
    BY <1>2, <1>3
  <2>2. CASE d # b
    BY <1>1, <1>2, <1>3, <2>1, <2>2 DEF EditInv
  <2>3. CASE d = b /\ holds[b][o] = "exclusive"
    BY <1>1, <2>1, <2>3 DEF EditInv
  <2>4. CASE d = b /\ holds[b][o] # "exclusive"
    <3>1. u = w
      BY <1>1, <2>1, <2>4 DEF OwnerInv, OwnedBy
    <3>2. levels[o] = "exclusive" /\ c <= pulled[w] /\ c >= releasedAt[o]
      BY <1>2, <1>3, <2>4 DEF Relocks
    <3>3. ~ \E e \in BriefcaseIds : holds[e][o] = "exclusive"
      BY <2>4, <3>2 DEF Relocks
    <3>4. edited[o] <= releasedAt[o]
      BY <1>1, <3>3 DEF EditInv
    <3> QED
      BY <1>1, <3>1, <3>2, <3>4
  <2> QED
    BY <2>2, <2>3, <2>4
<1>4. edited[o] <= releasedAt'[o] \/ \E d \in BriefcaseIds : holds'[d][o] = "exclusive"
  <2>1. CASE edited[o] <= releasedAt[o]
    BY <1>1, <1>2, <2>1
  <2>2. CASE \E d \in BriefcaseIds : holds[d][o] = "exclusive"
    <3>1. PICK d \in BriefcaseIds : holds[d][o] = "exclusive"
      BY <2>2
    <3>2. CASE d = b /\ levels[o] # "exclusive"
      <4>1. Rank[levels[o]] < Rank[holds[b][o]]
        BY <1>1, <3>1, <3>2 DEF LockLevels, Rank
      <4> QED
        BY <1>1, <1>2, <3>1, <3>2, <4>1
    <3>3. CASE d # b \/ levels[o] = "exclusive"
      BY <1>2, <3>1, <3>3
    <3> QED
      BY <3>2, <3>3
  <2> QED
    BY <1>1, <2>1, <2>2 DEF EditInv
<1> QED
  BY <1>3, <1>4
-------------------------------------------------------------------------------
(* What a step leaves as it is.                                            *)

\* A user whom the step of another one does not concern.
Bystander(v) == /\ UNCHANGED <<request[v], step[v], mine[v], believed[v], pulled[v], released[v]>>
                /\ mine[v] # NoBriefcase => holds'[mine[v]] = holds[mine[v]]

\* Who relies on less, or gives the briefcase up, still relies on what is held.
LEMMA HeldKept ==
    ASSUME TypeOK, NEW v \in Users, HeldInv(v), stray \subseteq stray',
           mine'[v] \in {mine[v], NoBriefcase},
           \A o \in Objects : believed'[v][o] \in LockStates /\ believed'[v][o] <= believed[v][o],
           mine[v] # NoBriefcase => holds'[mine[v]] = holds[mine[v]]
    PROVE  HeldInv(v)'
<1> SUFFICES ASSUME mine'[v] # NoBriefcase, NEW o \in Objects, NEW level \in LockStates,
                    level <= believed'[v][o],
                    \A r \in stray' : r.briefcase = mine'[v] => LowersTo(r, o) >= level
             PROVE  Rank[holds'[mine'[v]][o]] >= level
  BY DEF HeldInv, LowersTo
<1>1. mine'[v] = mine[v] /\ holds'[mine[v]] = holds[mine[v]]
  OBVIOUS
<1>2. level <= believed[v][o]
  <2>1. believed[v][o] \in LockStates
    BY DEF TypeOK
  <2>2. level <= believed'[v][o] /\ believed'[v][o] <= believed[v][o] /\ believed'[v][o] \in LockStates
    OBVIOUS
  <2> QED
    BY ONLY <2>1, <2>2, level \in LockStates DEF LockStates
<1> QED
  BY <1>1, <1>2 DEF HeldInv

\* A briefcase without locks gets none but by a request for some.
LEMMA FreeKept ==
    ASSUME NEW v \in Users, FreeInv(v), stray \subseteq stray',
           mine'[v] \in {mine[v], NoBriefcase}, released'[v] => released[v],
           mine[v] # NoBriefcase => holds'[mine[v]] = holds[mine[v]]
    PROVE  FreeInv(v)'
<1> SUFFICES ASSUME mine'[v] # NoBriefcase, released'[v],
                    \A r \in stray' : r.briefcase = mine'[v] => r.what # "updateLocks"
             PROVE  Held(mine[v])' = {}
  BY DEF FreeInv, Held
<1>1. mine'[v] = mine[v] /\ holds'[mine[v]] = holds[mine[v]]
  OBVIOUS
<1> QED
  BY <1>1 DEF FreeInv, Held

LEMMA BystanderKept ==
    ASSUME TypeOK, NEW v \in Users, UserInv(v), Bystander(v), stray \subseteq stray'
    PROVE  UserInv(v)'
<1>1. RequestInv(v)'
  BY DEF Bystander, UserInv, RequestInv, NoRequest
<1>2. HeldInv(v)'
  <2>1. \A o \in Objects : believed'[v][o] \in LockStates /\ believed'[v][o] <= believed[v][o]
    BY DEF Bystander, TypeOK, LockStates
  <2> QED
    BY <2>1, HeldKept DEF Bystander, UserInv
<1>3. FreeInv(v)'
  BY FreeKept DEF Bystander, UserInv
<1> QED
  BY <1>1, <1>2, <1>3 DEF UserInv

\* Edits stay where they are when locks and changesets do, though briefcases without
\* exclusive locks come and any go.
LEMMA EditsKept ==
    ASSUME NEW o \in Objects, EditInv(o), stray \subseteq stray',
           UNCHANGED <<holds, releasedAt, edited>>,
           \A u \in Users : /\ briefcases'[u] \subseteq briefcases[u] \union {b \in BriefcaseIds : holds[b][o] # "exclusive"}
                            /\ pulled'[u] = pulled[u]
    PROVE  EditInv(o)'
BY DEF EditInv, NothingLowers, LowersTo, ToLockProps

\* Briefcases go to another user only when they are new.
LEMMA OwnersKept ==
    ASSUME TypeOK, OwnerInv, NEW w \in Users, issued' \in {issued, issued + 1},
           \A b \in BriefcaseIds, u \in Users :
              OwnedBy(b, u)' => \/ OwnedBy(b, u)
                                \/ b = issued + 1 /\ u = w /\ issued' = issued + 1
    PROVE  OwnerInv'
<1>1. issued \in Nat /\ \A b \in BriefcaseIds : b \in Nat
  BY LocksAssumption DEF TypeOK, BriefcaseIds
<1>2. ASSUME NEW b \in BriefcaseIds, NEW u \in Users, OwnedBy(b, u)'
      PROVE  b <= issued' /\ \A v \in Users : OwnedBy(b, v)' => u = v
  BY <1>1, <1>2 DEF OwnerInv
<1> QED
  BY <1>2 DEF OwnerInv

\* A briefcase that one user has to do with is not the one of another.
LEMMA Strangers ==
    ASSUME TypeOK, OwnerInv, NEW u \in Users, NEW v \in Users, u # v, NEW b \in BriefcaseIds,
           OwnedBy(b, u)
    PROVE  b # mine[v]
BY DEF OwnerInv, OwnedBy
-------------------------------------------------------------------------------
(* The calls.                                                              *)

LEMMA InitLocksInv == Init => LocksInv
<1> SUFFICES ASSUME Init PROVE LocksInv
  OBVIOUS
<1>1. /\ mine \in [Users -> BriefcaseIds \union {NoBriefcase}] /\ issued \in 0..MaxBriefcases
      /\ known = [u \in Users |-> {mine[u]} \ {NoBriefcase}] /\ briefcases = known
      /\ holds = [b \in BriefcaseIds |-> [o \in Objects |-> "none"]]
      /\ releasedAt = NoLocks /\ latest = 0 /\ stray = {} /\ arrived = {}
      /\ step = [u \in Users |-> "idle"] /\ request = [u \in Users |-> NoRequest(u)]
      /\ retries = [u \in Users |-> 0] /\ calls = 0
      /\ believed = [u \in Users |-> NoLocks] /\ pulled = [u \in Users |-> 0]
      /\ released = [u \in Users |-> FALSE] /\ edited = NoLocks
      /\ \A u \in Users : mine[u] <= issued
              /\ \A v \in Users \ {u} : mine[u] = mine[v] => mine[u] = NoBriefcase
  BY DEF Init
<1>2. 0 \in 0..MaxChangesets /\ 0 \in 0..MaxRetries /\ 0 \in 0..MaxCalls /\ 0 \in LockStates
      /\ "none" \in LockLevels
  BY LocksAssumption DEF LockStates, LockLevels
<1>3. TypeOK
  <2>1. request \in [Users -> Requests]
    <3>1. \A u \in Users : NoRequest(u) \in Requests
      BY <1>2, LocksAssumption DEF NoRequest, Requests, Operations
    <3> QED
      BY <1>1, <3>1
  <2>2. known \in [Users -> SUBSET BriefcaseIds]
    BY <1>1
  <2> QED
    BY <1>1, <1>2, <2>1, <2>2 DEF TypeOK, NoLocks
<1>4. OwnerInv
  <2>1. \A b \in BriefcaseIds, u \in Users : OwnedBy(b, u) => b = mine[u] /\ b # NoBriefcase
    BY <1>1 DEF OwnedBy, NoRequest, BriefcaseIds, NoBriefcase
  <2> QED
    BY <1>1, <2>1 DEF OwnerInv
<1>5. StrayInv /\ VersionInv /\ LockInv
  BY <1>1 DEF StrayInv, VersionInv, LockInv, NoLocks
<1>6. ASSUME NEW u \in Users PROVE UserInv(u)
  <2>1. RequestInv(u)
    BY <1>1 DEF RequestInv, NoRequest, NoLocks
  <2>2. HeldInv(u)
    BY <1>1, Ranks DEF HeldInv, NoLocks, LockStates
  <2>3. FreeInv(u)
    BY <1>1 DEF FreeInv
  <2> QED
    BY <2>1, <2>2, <2>3 DEF UserInv
<1>7. ASSUME NEW o \in Objects PROVE EditInv(o)
  BY <1>1 DEF EditInv, NoLocks
<1> QED
  BY <1>3, <1>4, <1>5, <1>6, <1>7 DEF LocksInv

\* A call begins: the user relies on no more than before.
LEMMA BeginKeeps ==
    ASSUME LocksInv, NEW u \in Users, NEW r \in Requests, NEW briefcase \in {mine[u], NoBriefcase},
           NEW reliable \in [Objects -> LockStates], Begin(u, r, briefcase, reliable),
           known' \in [Users -> SUBSET BriefcaseIds], \A v \in Users : known'[v] \subseteq known[v],
           r.user = u, r.changeset <= pulled[u],
           r.briefcase # NoBriefcase => OwnedBy(r.briefcase, u),
           r.what \in {"updateLocks", "releaseLocksChunk"} =>
              briefcase # NoBriefcase /\ r.briefcase = briefcase /\ r.changeset = pulled[u],
           r.what = "releaseBriefcase" => r.briefcase # briefcase,
           r.what = "acquireBriefcase" => briefcase = NoBriefcase,
           r.what = "getLockList" => briefcase # NoBriefcase,
           r.what = "releaseLocksChunk" \/ briefcase = NoBriefcase => \A o \in Objects : reliable[o] = 0,
           \A o \in Objects : reliable[o] <= believed[u][o]
    PROVE  LocksInv'
<1>1. /\ TypeOK /\ calls < MaxCalls
      /\ step' = [step EXCEPT ![u] = r.what] /\ request' = [request EXCEPT ![u] = r]
      /\ calls' = calls + 1
      /\ mine' = [mine EXCEPT ![u] = briefcase] /\ believed' = [believed EXCEPT ![u] = reliable]
      /\ UNCHANGED <<briefcases, issued, holds, releasedAt, stray, arrived, latest, pulled, edited,
                     retries, released>>
  BY DEF LocksInv, Begin, service, network, versions
<1>2. r.what \in Operations /\ briefcase \in BriefcaseIds \union {NoBriefcase}
  BY <1>1 DEF Requests, TypeOK
<1>3. /\ step'[u] = r.what /\ request'[u] = r /\ mine'[u] = briefcase /\ believed'[u] = reliable
      /\ \A v \in Users : v # u => Bystander(v)
  BY <1>1 DEF TypeOK, Bystander
<1>4. TypeOK'
  <2>1. calls' \in 0..MaxCalls
    BY <1>1, LocksAssumption DEF TypeOK
  <2> QED
    BY <1>1, <1>2, <2>1 DEF TypeOK
<1>5. OwnerInv'
  <2>1. \A b \in BriefcaseIds, v \in Users : OwnedBy(b, v)' => OwnedBy(b, v)
    <3> SUFFICES ASSUME NEW b \in BriefcaseIds, NEW v \in Users, OwnedBy(b, v)'
                 PROVE  OwnedBy(b, v)
      OBVIOUS
    <3>1. b # NoBriefcase
      BY DEF BriefcaseIds, NoBriefcase
    <3> QED
      BY <1>1, <1>3, <3>1 DEF OwnedBy, Bystander
  <2> QED
    BY <1>1, <2>1, OwnersKept DEF LocksInv
<1>6. StrayInv' /\ VersionInv' /\ LockInv'
  BY <1>1 DEF LocksInv, StrayInv, VersionInv, LockInv, Exists
<1>7. UserInv(u)'
  <2>1. RequestInv(u)'
    BY <1>1, <1>2, <1>3 DEF RequestInv, Operations
  <2>2. HeldInv(u)' /\ FreeInv(u)'
    BY <1>1, <1>3, HeldKept, FreeKept DEF LocksInv, UserInv
  <2> QED
    BY <2>1, <2>2 DEF UserInv
<1>8. \A v \in Users : UserInv(v)'
  BY <1>1, <1>3, <1>7, BystanderKept DEF LocksInv
<1>9. \A o \in Objects : EditInv(o)'
  BY <1>1, EditsKept DEF LocksInv
<1> QED
  BY <1>4, <1>5, <1>6, <1>8, <1>9 DEF LocksInv

LEMMA CallKeeps == ASSUME LocksInv, NEW u \in Users, Call(u) PROVE LocksInv'
<1>1. /\ TypeOK /\ RequestInv(u)
      /\ pulled[u] \in Nat /\ mine[u] \in BriefcaseIds \union {NoBriefcase}
      /\ believed[u] \in [Objects -> LockStates]
      /\ NoLocks \in [Objects -> LockStates] /\ \A o \in Objects : NoLocks[o] = 0
      /\ mine[u] # NoBriefcase => OwnedBy(mine[u], u)
      /\ known \in [Users -> SUBSET BriefcaseIds]
  BY LocksAssumption DEF LocksInv, UserInv, TypeOK, NoLocks, LockStates, OwnedBy
<1> PICK own \in BriefcaseIds \union {NoBriefcase}, relied \in [Objects -> LockStates],
         none \in [Objects -> LockStates] : own = mine[u] /\ relied = believed[u] /\ none = NoLocks
  BY <1>1
<1>2. /\ \A o \in Objects : /\ none[o] = 0 /\ none[o] <= believed[u][o]
                            /\ relied[o] <= believed[u][o]
      /\ own = NoBriefcase => \A o \in Objects : relied[o] = 0
      /\ own # NoBriefcase => OwnedBy(own, u)
      /\ own \in {mine[u], NoBriefcase} /\ NoBriefcase \in {mine[u], NoBriefcase}
  BY <1>1 DEF RequestInv, LockStates
<1>3. CASE AcquireNewBriefcaseId(u)
  <2> PICK r \in Requests : r = NoRequest(u)
    BY NoRequestType
  <2>1. /\ r.what = "acquireBriefcase" /\ r.user = u /\ r.briefcase = NoBriefcase
        /\ r.changeset <= pulled[u]
    BY <1>1, NoRequestType
  <2>2. Begin(u, r, NoBriefcase, none) /\ known' = known
    BY <1>3 DEF AcquireNewBriefcaseId, Begin
  <2> QED
    BY <1>1, <1>2, <2>1, <2>2, BeginKeeps
<1>4. CASE ReleaseBriefcase(u)
  <2>1. PICK b \in known[u] :
            /\ Begin(u, [NoRequest(u) EXCEPT !.what = "releaseBriefcase", !.briefcase = b],
                     IF b = mine[u] THEN NoBriefcase ELSE mine[u],
                     IF b = mine[u] THEN NoLocks ELSE believed[u])
            /\ known' = [known EXCEPT ![u] = @ \ {b}]
    BY <1>4 DEF ReleaseBriefcase
  <2>2. b \in BriefcaseIds /\ b # NoBriefcase /\ OwnedBy(b, u)
    BY <1>1 DEF OwnedBy, BriefcaseIds, NoBriefcase
  <2>3. /\ known' \in [Users -> SUBSET BriefcaseIds]
        /\ \A v \in Users : known'[v] \subseteq known[v]
    BY <1>1, <2>1
  <2>4. ASSUME NEW r \in Requests, r.what = "releaseBriefcase", r.user = u, r.briefcase = b,
               r.changeset = 0,
               Begin(u, r, IF b = mine[u] THEN NoBriefcase ELSE mine[u],
                     IF b = mine[u] THEN NoLocks ELSE believed[u])
        PROVE  LocksInv'
    <3>1. r.changeset <= pulled[u]
      BY <1>1, <2>4
    <3>2. CASE b = mine[u]
      <4>1. Begin(u, r, NoBriefcase, none)
        BY <2>4, <3>2 DEF Begin
      <4> QED
        BY <1>1, <1>2, <2>2, <2>3, <2>4, <3>1, <4>1, BeginKeeps
    <3>3. CASE b # mine[u]
      <4>1. Begin(u, r, own, relied)
        BY <2>4, <3>3 DEF Begin
      <4> QED
        BY <1>1, <1>2, <2>2, <2>3, <2>4, <3>1, <3>3, <4>1, BeginKeeps
    <3> QED
      BY <3>2, <3>3
  <2>5. PICK q \in Requests : q = NoRequest(u) /\ q.user = u /\ q.changeset = 0
    BY NoRequestType
  <2>6. PICK r : r = [q EXCEPT !.what = "releaseBriefcase", !.briefcase = b]
    OBVIOUS
  <2>7. /\ r \in Requests /\ r.what = "releaseBriefcase" /\ r.user = u /\ r.briefcase = b
        /\ r.changeset = 0
    <3>1. /\ r \in Requests /\ r.what = "releaseBriefcase" /\ r.user = q.user
          /\ r.briefcase = b /\ r.changeset = q.changeset
      BY ONLY <2>2, <2>6, q \in Requests DEF Requests, Operations
    <3> QED
      BY ONLY <2>5, <3>1
  <2>8. Begin(u, r, IF b = mine[u] THEN NoBriefcase ELSE mine[u],
              IF b = mine[u] THEN NoLocks ELSE believed[u])
    BY <2>1, <2>5, <2>6, Zenon DEF Begin
  <2> QED
    BY <2>4, <2>7, <2>8
<1>5. CASE GetMyBriefcaseIds(u)
  <2> PICK r : r = [what |-> "getBriefcaseList", user |-> u, briefcase |-> NoBriefcase,
                    locked |-> {}, changeset |-> 0]
    OBVIOUS
  <2>1. /\ r \in Requests /\ r.what = "getBriefcaseList" /\ r.user = u /\ r.briefcase = NoBriefcase
        /\ r.changeset <= pulled[u]
    BY <1>1, ListRequestType
  <2>2. r = [NoRequest(u) EXCEPT !.what = "getBriefcaseList"]
    BY DEF NoRequest
  <2>3. Begin(u, r, mine[u], believed[u]) /\ known' = known
    BY <1>5, <2>2, Zenon DEF GetMyBriefcaseIds, Begin
  <2>4. Begin(u, r, own, relied)
    BY <2>3 DEF Begin
  <2> QED
    BY <1>1, <1>2, <2>1, <2>3, <2>4, BeginKeeps
<1>6. ASSUME NEW locks \in LockMaps, AcquireLocks(u, locks)
      PROVE  LocksInv'
  <2>1. ASSUME NEW o \in Objects, o \in DOMAIN locks
        PROVE  /\ Lower(locks[o], believed[u][o]) \in LockStates
               /\ Lower(locks[o], believed[u][o]) <= believed[u][o]
    <3>1. believed[u][o] \in LockStates /\ locks[o] \in LockStates
      BY <1>1, <2>1, LocksAssumption
    <3> QED
      BY <3>1 DEF Lower, LockStates
  <2> PICK reliable \in [Objects -> LockStates] :
           reliable = [o \in Objects |-> IF o \in DOMAIN locks
                                         THEN Lower(locks[o], believed[u][o])
                                         ELSE believed[u][o]]
    BY <1>1, <2>1
  <2>2. \A o \in Objects : reliable[o] <= believed[u][o]
    BY <1>1, <2>1 DEF LockStates
  <2> PICK r \in Requests : r = LockRequest(u, "updateLocks", locks)
    BY <1>1, LockRequestType
  <2>3. /\ r.what = "updateLocks" /\ r.user = u /\ r.briefcase = own
        /\ r.changeset = pulled[u] /\ r.changeset <= pulled[u]
    BY <1>1, LockRequestType
  <2>4. own # NoBriefcase /\ Begin(u, r, own, reliable) /\ known' = known
    BY <1>6 DEF AcquireLocks, Begin
  <2> QED
    BY <1>1, <1>2, <2>2, <2>3, <2>4, BeginKeeps
<1>7. ASSUME NEW what \in {"getLockList", "releaseLocksChunk"},
             NEW reliable \in {relied, none},
             what = "releaseLocksChunk" => reliable = none,
             mine[u] # NoBriefcase,
             Begin(u, LockRequest(u, what, <<>>), mine[u], reliable), known' = known
      PROVE  LocksInv'
  <2> PICK r \in Requests : r = LockRequest(u, what, <<>>)
    BY <1>1, LockRequestType
  <2>1. /\ r.what = what /\ r.user = u /\ r.briefcase = own
        /\ r.changeset = pulled[u] /\ r.changeset <= pulled[u]
    BY <1>1, LockRequestType
  <2>2. Begin(u, r, own, reliable)
    BY <1>7 DEF Begin
  <2> QED
    BY <1>1, <1>2, <1>7, <2>1, <2>2, BeginKeeps
<1>8. CASE QueryAllLocks(u)
  <2>1. mine[u] # NoBriefcase /\ known' = known
        /\ Begin(u, LockRequest(u, "getLockList", <<>>), mine[u], relied)
    BY <1>8 DEF QueryAllLocks, Begin
  <2> QED
    BY <1>7, <2>1
<1>9. CASE ReleaseAllLocks(u)
  <2>1. mine[u] # NoBriefcase /\ known' = known
        /\ Begin(u, LockRequest(u, "releaseLocksChunk", <<>>), mine[u], none)
    BY <1>9 DEF ReleaseAllLocks, Begin
  <2> QED
    BY <1>7, <2>1
<1> QED
  BY <1>3, <1>4, <1>5, <1>6, <1>8, <1>9 DEF Call
-------------------------------------------------------------------------------
(* The ends of calls, and the connection.                                  *)

\* The request of the user is over.
LEMMA ReturnRequest ==
    ASSUME TypeOK, NEW u \in Users, Return(u), pulled' = pulled,
           mine'[u] = NoBriefcase => \A o \in Objects : believed'[u][o] = 0
    PROVE  /\ step' \in [Users -> {"idle"} \union Operations] /\ request' \in [Users -> Requests]
           /\ retries' \in [Users -> 0..MaxRetries] /\ calls' \in 0..MaxCalls
           /\ RequestInv(u)' /\ request'[u] = NoRequest(u)
           /\ \A v \in Users : v # u => step'[v] = step[v] /\ request'[v] = request[v]
<1>1. /\ step' = [step EXCEPT ![u] = "idle"] /\ request' = [request EXCEPT ![u] = NoRequest(u)]
      /\ retries' = [retries EXCEPT ![u] = 0] /\ calls' = calls
  BY DEF Return
<1>2. NoRequest(u) \in Requests /\ 0 \in 0..MaxRetries
  BY NoRequestType, LocksAssumption
<1>3. step'[u] = "idle" /\ request'[u] = NoRequest(u) /\ NoRequest(u)' = NoRequest(u)
  BY <1>1 DEF TypeOK, NoRequest
<1>4. RequestInv(u)'
  <2>1. pulled'[u] \in Nat /\ NoRequest(u).changeset = 0 /\ NoRequest(u).user = u
    BY LocksAssumption DEF TypeOK, NoRequest
  <2> QED
    BY <1>3, <2>1 DEF RequestInv
<1> QED
  BY <1>1, <1>2, <1>3, <1>4 DEF TypeOK

\* What the network keeps is what the user has asked for.
LEMMA LeftBehind ==
    ASSUME LocksInv, NEW u \in Users, LeaveBehind(u), pulled' = pulled
    PROVE  /\ stray \subseteq stray' /\ stray' \subseteq Requests /\ arrived' \subseteq stray'
           /\ stray' \subseteq stray \union {request[u]} /\ StrayInv'
<1>1. /\ TypeOK /\ StrayInv /\ request[u] \in Requests
      /\ request[u].user = u /\ request[u].changeset <= pulled[u]
  BY DEF LocksInv, UserInv, RequestInv, TypeOK
<1>2. \/ UNCHANGED <<stray, arrived>>
      \/ stray' = stray \union {request[u]} /\ arrived' = arrived \ {request[u]}
  BY DEF LeaveBehind, network
<1>3. /\ stray \subseteq stray' /\ stray' \subseteq Requests /\ arrived' \subseteq stray'
      /\ stray' \subseteq stray \union {request[u]}
  BY <1>1, <1>2 DEF TypeOK
<1>4. StrayInv'
  BY <1>1, <1>3 DEF StrayInv
<1> QED
  BY <1>3, <1>4

\* A call that throws leaves things as they were.
LEMMA ThrowKeeps ==
    ASSUME LocksInv, NEW u \in Users, Throw(u), UNCHANGED versions,
           UNCHANGED network \/ LeaveBehind(u)
    PROVE  LocksInv'
<1>1. /\ TypeOK /\ Return(u)
      /\ UNCHANGED <<briefcases, issued, holds, releasedAt, known, mine, believed, released,
                     latest, pulled, edited>>
  BY DEF LocksInv, Throw, service, versions
<1>2. /\ stray \subseteq stray' /\ stray' \subseteq Requests /\ arrived' \subseteq stray'
      /\ stray' \subseteq stray \union {request[u]} /\ StrayInv'
  <2>1. CASE UNCHANGED network
    BY <1>1, <2>1 DEF network, TypeOK, LocksInv, StrayInv
  <2>2. CASE LeaveBehind(u)
    BY <1>1, <2>2, LeftBehind
  <2> QED
    BY <2>1, <2>2
<1>3. /\ step' \in [Users -> {"idle"} \union Operations] /\ request' \in [Users -> Requests]
      /\ retries' \in [Users -> 0..MaxRetries] /\ calls' \in 0..MaxCalls
      /\ RequestInv(u)' /\ request'[u] = NoRequest(u)
      /\ \A v \in Users : v # u => step'[v] = step[v] /\ request'[v] = request[v]
  <2>1. mine'[u] = NoBriefcase => \A o \in Objects : believed'[u][o] = 0
    BY <1>1 DEF LocksInv, UserInv, RequestInv
  <2> QED
    BY <1>1, <2>1, ReturnRequest
<1>4. TypeOK'
  BY <1>1, <1>2, <1>3 DEF TypeOK
<1>5. OwnerInv'
  <2>1. \A b \in BriefcaseIds, v \in Users : OwnedBy(b, v)' => OwnedBy(b, v)
    <3> SUFFICES ASSUME NEW b \in BriefcaseIds, NEW v \in Users, OwnedBy(b, v)'
                 PROVE  OwnedBy(b, v)
      OBVIOUS
    <3>1. b # NoRequest(u).briefcase
      BY DEF BriefcaseIds, NoBriefcase, NoRequest
    <3>2. request[u].user = u
      BY DEF LocksInv, UserInv, RequestInv
    <3> QED
      BY <1>1, <1>2, <1>3, <3>1, <3>2 DEF OwnedBy
  <2> QED
    BY <1>1, <2>1, OwnersKept DEF LocksInv
<1>6. VersionInv' /\ LockInv'
  BY <1>1 DEF LocksInv, VersionInv, LockInv, Exists
<1>7. UserInv(u)'
  <2>1. \A o \in Objects : believed'[u][o] \in LockStates /\ believed'[u][o] <= believed[u][o]
    BY <1>1 DEF TypeOK, LockStates
  <2> QED
    BY <1>1, <1>2, <1>3, <2>1, HeldKept, FreeKept DEF LocksInv, UserInv
<1>8. \A v \in Users : UserInv(v)'
  <2>1. \A v \in Users : v # u => Bystander(v)
    BY <1>1, <1>3 DEF Bystander
  <2> QED
    BY <1>1, <1>2, <1>7, <2>1, BystanderKept DEF LocksInv
<1>9. \A o \in Objects : EditInv(o)'
  BY <1>1, <1>2, EditsKept DEF LocksInv
<1> QED
  BY <1>2, <1>4, <1>5, <1>6, <1>8, <1>9 DEF LocksInv

LEMMA ResendKeeps == ASSUME LocksInv, NEW u \in Users, Resend(u) PROVE LocksInv'
<1>1. /\ TypeOK /\ step[u] # "idle" /\ LeaveBehind(u)
      /\ retries[u] < MaxRetries /\ retries' = [retries EXCEPT ![u] = @ + 1]
      /\ UNCHANGED <<briefcases, issued, holds, releasedAt, latest, pulled, edited, step, request,
                     calls, known, mine, believed, released>>
  BY DEF LocksInv, Resend, service, versions
<1>2. /\ stray \subseteq stray' /\ stray' \subseteq Requests /\ arrived' \subseteq stray'
      /\ stray' \subseteq stray \union {request[u]} /\ StrayInv'
  BY <1>1, LeftBehind
<1>3. TypeOK'
  <2>1. retries' \in [Users -> 0..MaxRetries]
    BY <1>1, LocksAssumption DEF TypeOK
  <2> QED
    BY <1>1, <1>2, <2>1 DEF TypeOK
<1>4. OwnerInv'
  <2>1. request[u].user = u
    BY DEF LocksInv, UserInv, RequestInv
  <2>2. \A b \in BriefcaseIds, v \in Users : OwnedBy(b, v)' => OwnedBy(b, v)
    BY <1>1, <1>2, <2>1 DEF OwnedBy
  <2> QED
    BY <1>1, <2>2, OwnersKept DEF LocksInv
<1>5. VersionInv' /\ LockInv'
  BY <1>1 DEF LocksInv, VersionInv, LockInv, Exists
<1>6. \A v \in Users : UserInv(v)'
  <2>1. \A v \in Users : Bystander(v)
    BY <1>1 DEF Bystander
  <2> QED
    BY <1>1, <1>2, <2>1, BystanderKept DEF LocksInv
<1>7. \A o \in Objects : EditInv(o)'
  BY <1>1, <1>2, EditsKept DEF LocksInv
<1> QED
  BY <1>2, <1>3, <1>4, <1>5, <1>6, <1>7 DEF LocksInv

LEMMA GiveUpKeeps == ASSUME LocksInv, NEW u \in Users, GiveUp(u) PROVE LocksInv'
BY ThrowKeeps DEF GiveUp
-------------------------------------------------------------------------------
(* Answers.                                                                *)

\* What an answer may do to the service and the user, and what it has to do.
LEMMA AnswerKeeps ==
    ASSUME LocksInv, NEW u \in Users, UNCHANGED network, UNCHANGED versions,
           step' \in [Users -> {"idle"} \union Operations], request' \in [Users -> Requests],
           retries' \in [Users -> 0..MaxRetries], calls' \in 0..MaxCalls, RequestInv(u)',
           request'[u].briefcase \in {request[u].briefcase, NoBriefcase},
           \A v \in Users : v # u => step'[v] = step[v] /\ request'[v] = request[v],
           ServiceTypes', issued' \in {issued, issued + 1},
           known' \in [Users -> SUBSET BriefcaseIds], released' \in [Users -> BOOLEAN],
           mine' \in [Users -> BriefcaseIds \union {NoBriefcase}],
           believed' \in [Users -> [Objects -> LockStates]],
           \A v \in Users : v # u =>
              /\ mine'[v] = mine[v] /\ believed'[v] = believed[v] /\ released'[v] = released[v]
              /\ mine[v] # NoBriefcase => holds'[mine[v]] = holds[mine[v]],
           \A b \in BriefcaseIds, v \in Users :
              b = mine'[v] \/ b \in known'[v] \/ b \in briefcases'[v] =>
                 OwnedBy(b, v) \/ (b = issued + 1 /\ v = u /\ issued' = issued + 1),
           HeldInv(u)', FreeInv(u)', LockInv', \A o \in Objects : EditInv(o)'
    PROVE  LocksInv'
<1>1. TypeOK /\ UNCHANGED <<stray, arrived, latest, pulled, edited>>
  BY DEF LocksInv, network, versions
<1>2. TypeOK'
  BY <1>1 DEF TypeOK, ServiceTypes
<1>3. OwnerInv'
  <2>1. \A b \in BriefcaseIds : b # NoBriefcase
    BY DEF BriefcaseIds, NoBriefcase
  <2>2. \A b \in BriefcaseIds, v \in Users :
           OwnedBy(b, v)' => OwnedBy(b, v) \/ (b = issued + 1 /\ v = u /\ issued' = issued + 1)
    <3> SUFFICES ASSUME NEW b \in BriefcaseIds, NEW v \in Users, OwnedBy(b, v)'
                 PROVE  OwnedBy(b, v) \/ (b = issued + 1 /\ v = u /\ issued' = issued + 1)
      OBVIOUS
    <3>1. CASE b = mine'[v] \/ b \in known'[v] \/ b \in briefcases'[v]
      BY <3>1
    <3>2. CASE b = request'[v].briefcase
      <4>1. b = request[v].briefcase
        BY <2>1, <3>2
      <4> QED
        BY ONLY <4>1 DEF OwnedBy
    <3>3. CASE \E r \in stray' : r.user = v /\ r.briefcase = b
      BY ONLY <1>1, <3>3 DEF OwnedBy
    <3> QED
      BY <3>1, <3>2, <3>3 DEF OwnedBy
  <2> QED
    BY <1>1, <2>2, OwnersKept DEF LocksInv
<1>4. StrayInv' /\ VersionInv'
  BY <1>1 DEF LocksInv, StrayInv, VersionInv
<1>5. \A v \in Users : UserInv(v)'
  <2>1. \A v \in Users : v # u => Bystander(v)
    BY <1>1 DEF Bystander
  <2> QED
    BY <1>1, <2>1, BystanderKept DEF LocksInv, UserInv
<1> QED
  BY <1>2, <1>3, <1>4, <1>5 DEF LocksInv

\* An answer changes locks with the changeset the user is at; the end of a briefcase, which
\* only lowers them, with the latest.
LEMMA RelocksEveryEdit ==
    ASSUME LocksInv, NEW b, NEW levels, NEW c, Relocks(b, levels, c), NEW u \in Users,
           OwnedBy(b, u), UNCHANGED <<stray, pulled, edited>>,
           c = pulled[u] \/ (c = latest /\ \A o \in Objects : levels[o] # "exclusive")
    PROVE  \A o \in Objects : EditInv(o)'
<1> SUFFICES ASSUME NEW o \in Objects PROVE EditInv(o)'
  OBVIOUS
<1>1. /\ TypeOK /\ OwnerInv /\ EditInv(o) /\ b \in BriefcaseIds /\ Exists(b)
      /\ edited[o] \in Nat /\ pulled[u] \in Nat /\ latest \in Nat /\ edited[o] <= latest
  BY LocksAssumption DEF LocksInv, Relocks, TypeOK, VersionInv
<1>2. b \in briefcases[u]
  BY <1>1 DEF Exists, OwnerInv, OwnedBy
<1>3. NothingLowers(o) /\ levels[o] = "exclusive" => c <= pulled[u]
  BY <1>1
<1>4. NothingLowers(o) /\ holds[b][o] = "exclusive" => c >= edited[o]
  BY <1>1, <1>2 DEF EditInv
<1> QED
  BY <1>1, <1>2, <1>3, <1>4, RelocksEdits

\* The locks of other users stay.
LEMMA RelocksOthers ==
    ASSUME TypeOK, OwnerInv, NEW b, NEW levels, NEW c, Relocks(b, levels, c), NEW u \in Users,
           OwnedBy(b, u)
    PROVE  \A v \in Users : v # u /\ mine[v] # NoBriefcase => holds'[mine[v]] = holds[mine[v]]
<1>1. b \in BriefcaseIds /\ \A d \in BriefcaseIds : d # b => holds'[d] = holds[d]
  BY RelocksHolds DEF Relocks
<1>2. \A v \in Users : mine[v] \in BriefcaseIds \union {NoBriefcase}
  BY DEF TypeOK
<1> QED
  BY <1>1, <1>2, Strangers

\* A briefcase that is new has no lock.
LEMMA NewBriefcase ==
    ASSUME LocksInv, NEW w \in Users, issued < MaxBriefcases, issued' = issued + 1,
           briefcases' = [briefcases EXCEPT ![w] = @ \union {issued + 1}],
           UNCHANGED <<holds, releasedAt>>
    PROVE  /\ issued + 1 \in BriefcaseIds /\ issued + 1 # NoBriefcase /\ ServiceTypes' /\ LockInv'
           /\ \A o \in Objects : holds[issued + 1][o] = "none"
           /\ \A v \in Users : briefcases'[v] = IF v = w THEN briefcases[v] \union {issued + 1}
                                                         ELSE briefcases[v]
<1>1. /\ TypeOK /\ OwnerInv /\ LockInv /\ issued \in Nat /\ issued' \in 0..MaxBriefcases
      /\ issued + 1 \in BriefcaseIds /\ issued + 1 # NoBriefcase
  BY LocksAssumption DEF LocksInv, TypeOK, BriefcaseIds, NoBriefcase
<1>2. /\ \A v \in Users : briefcases'[v] = IF v = w THEN briefcases[v] \union {issued + 1}
                                                    ELSE briefcases[v]
      /\ briefcases' \in [Users -> SUBSET BriefcaseIds]
  BY <1>1 DEF TypeOK
<1>3. ServiceTypes'
  BY <1>1, <1>2 DEF TypeOK, ServiceTypes
<1>4. ~Exists(issued + 1)
  BY <1>1 DEF Exists, OwnerInv, OwnedBy
<1>5. \A o \in Objects : holds[issued + 1][o] = "none"
  BY <1>1, <1>4 DEF LockInv
<1>6. LockInv'
  <2>1. \A b \in BriefcaseIds : Exists(b) => Exists(b)'
    BY <1>2 DEF Exists
  <2> QED
    BY <1>1, <2>1 DEF LockInv
<1> QED
  BY <1>1, <1>2, <1>3, <1>5, <1>6

\* Nor does it have anybody's edits.
LEMMA NewBriefcaseEdits ==
    ASSUME LocksInv, NEW w \in Users, issued < MaxBriefcases, issued' = issued + 1,
           briefcases' = [briefcases EXCEPT ![w] = @ \union {issued + 1}],
           UNCHANGED <<holds, releasedAt, stray, pulled, edited>>
    PROVE  \A o \in Objects : EditInv(o)'
<1> SUFFICES ASSUME NEW o \in Objects PROVE EditInv(o)'
  OBVIOUS
<1>1. \A v \in Users : briefcases'[v] \subseteq
                          briefcases[v] \union {b \in BriefcaseIds : holds[b][o] # "exclusive"}
  <2>1. /\ issued + 1 \in BriefcaseIds /\ holds[issued + 1][o] # "exclusive"
        /\ \A v \in Users : briefcases'[v] \subseteq briefcases[v] \union {issued + 1}
    BY NewBriefcase
  <2> QED
    BY <2>1
<1> QED
  BY <1>1, EditsKept DEF LocksInv

LEMMA BriefcaseAcquiredKeeps ==
    ASSUME LocksInv, NEW u \in Users, BriefcaseAcquired(u) PROVE LocksInv'
<1>1. /\ step[u] = "acquireBriefcase" /\ UNCHANGED network /\ UNCHANGED versions
      /\ UNCHANGED <<stray, pulled, edited>>
  BY DEF BriefcaseAcquired, network, versions
<1>2. CASE Throw(u)
  BY <1>1, <1>2, ThrowKeeps
<1>3. CASE /\ PerformAcquire(request[u]) /\ Return(u)
           /\ known' = [known EXCEPT ![u] = @ \union {issued + 1}]
           /\ mine' = [mine EXCEPT ![u] = issued + 1]
           /\ UNCHANGED <<believed, released>>
  <2>1. /\ TypeOK /\ RequestInv(u) /\ mine[u] = NoBriefcase /\ request[u].user = u
        /\ \A o \in Objects : believed[u][o] = 0
    BY <1>1 DEF LocksInv, UserInv, RequestInv
  <2>2. /\ issued < MaxBriefcases /\ issued' = issued + 1
        /\ briefcases' = [briefcases EXCEPT ![u] = @ \union {issued + 1}]
        /\ UNCHANGED <<holds, releasedAt>>
    BY <1>3, <2>1 DEF PerformAcquire
  <2>3. /\ issued + 1 \in BriefcaseIds /\ issued + 1 # NoBriefcase /\ ServiceTypes' /\ LockInv'
        /\ \A o \in Objects : holds[issued + 1][o] = "none"
        /\ \A v \in Users : briefcases'[v] = IF v = u THEN briefcases[v] \union {issued + 1}
                                                      ELSE briefcases[v]
    BY <2>2, NewBriefcase
  <2>4. \A o \in Objects : EditInv(o)'
    BY <1>1, <2>2, NewBriefcaseEdits
  <2>5. /\ mine'[u] = issued + 1 /\ believed' \in [Users -> [Objects -> LockStates]]
        /\ mine' \in [Users -> BriefcaseIds \union {NoBriefcase}]
        /\ known' \in [Users -> SUBSET BriefcaseIds] /\ released' \in [Users -> BOOLEAN]
        /\ \A v \in Users : v # u => mine'[v] = mine[v]
        /\ \A v \in Users : known'[v] = IF v = u THEN known[v] \union {issued + 1} ELSE known[v]
    BY <1>3, <2>1, <2>3 DEF TypeOK
  <2>6. /\ step' \in [Users -> {"idle"} \union Operations] /\ request' \in [Users -> Requests]
        /\ retries' \in [Users -> 0..MaxRetries] /\ calls' \in 0..MaxCalls
        /\ RequestInv(u)' /\ request'[u] = NoRequest(u)
        /\ \A v \in Users : v # u => step'[v] = step[v] /\ request'[v] = request[v]
    BY <1>1, <1>3, <2>1, <2>3, <2>5, ReturnRequest
  <2>7. HeldInv(u)'
    <3>1. \A o \in Objects : believed'[u][o] = 0 /\ Rank[holds'[mine'[u]][o]] \in LockStates
      BY <1>3, <2>1, <2>2, <2>3, <2>5, Ranks DEF LockStates
    <3> QED
      BY <3>1 DEF HeldInv, LockStates
  <2>8. FreeInv(u)'
    BY <2>2, <2>3, <2>5 DEF FreeInv, Held
  <2>9. \A b \in BriefcaseIds, v \in Users :
            b = mine'[v] \/ b \in known'[v] \/ b \in briefcases'[v] =>
               OwnedBy(b, v) \/ (b = issued + 1 /\ v = u /\ issued' = issued + 1)
    <3>1. \A b, v : b = mine[v] \/ b \in known[v] \/ b \in briefcases[v] => OwnedBy(b, v)
      BY DEF OwnedBy
    <3>2. \A v \in Users : mine'[v] = IF v = u THEN issued + 1 ELSE mine[v]
      BY <2>5
    <3> QED
      BY ONLY <2>2, <2>3, <2>5, <3>1, <3>2
  <2>10. request'[u].briefcase \in {request[u].briefcase, NoBriefcase}
    BY <2>6, NoRequestType
  <2> QED
    BY <1>1, <1>3, <2>2, <2>3, <2>4, <2>5, <2>6, <2>7, <2>8, <2>9, <2>10, AnswerKeeps
<1> QED
  BY <1>2, <1>3 DEF BriefcaseAcquired

LEMMA BriefcaseReleasedKeeps ==
    ASSUME LocksInv, NEW u \in Users, BriefcaseReleased(u) PROVE LocksInv'
<1>1. /\ step[u] = "releaseBriefcase" /\ UNCHANGED network /\ UNCHANGED versions
      /\ UNCHANGED <<stray, pulled, edited>>
  BY DEF BriefcaseReleased, network, versions
<1>2. CASE Throw(u)
  BY <1>1, <1>2, ThrowKeeps
<1>3. CASE /\ PerformRelease(request[u]) /\ Return(u)
           /\ UNCHANGED <<known, mine, believed, released>>
  <2> PICK r \in Requests : r = request[u]
    BY DEF LocksInv, TypeOK
  <2> PICK levels : levels = [o \in Objects |-> "none"]
    OBVIOUS
  <2> PICK c : c = latest
    OBVIOUS
  <2>1. /\ TypeOK /\ OwnerInv /\ LockInv /\ RequestInv(u) /\ r.briefcase # mine[u]
        /\ OwnedBy(r.briefcase, u) /\ HeldInv(u) /\ FreeInv(u)
    BY <1>1 DEF LocksInv, UserInv, RequestInv, OwnedBy
  <2>2. Relocks(r.briefcase, levels, c)
    <3>1. PerformRelease(r)
      BY <1>3 DEF PerformRelease
    <3>2. Relocks(r.briefcase, [o \in Objects |-> "none"], latest)
      BY <2>1, <3>1, ReleaseRelocks
    <3> QED
      BY <3>2 DEF Relocks
  <2>3. /\ ServiceTypes' /\ issued' = issued
        /\ \A v \in Users : briefcases'[v] \subseteq briefcases[v]
        /\ \A d \in BriefcaseIds : holds'[d] = IF d = r.briefcase THEN levels ELSE holds[d]
    BY <2>1, <2>2, RelocksHolds DEF Relocks
  <2>4. LockInv' /\ \A o \in Objects : EditInv(o)'
    BY <1>1, <2>1, <2>2, RelocksLocks, RelocksEveryEdit
  <2>5. \A v \in Users : v # u /\ mine[v] # NoBriefcase => holds'[mine[v]] = holds[mine[v]]
    BY <2>1, <2>2, RelocksOthers
  <2>6. mine[u] # NoBriefcase => holds'[mine[u]] = holds[mine[u]]
    BY <2>1, <2>3 DEF TypeOK
  <2>7. HeldInv(u)' /\ FreeInv(u)'
    <3>1. \A o \in Objects : believed'[u][o] \in LockStates /\ believed'[u][o] <= believed[u][o]
      BY <1>3, <2>1 DEF TypeOK, LockStates
    <3> QED
      BY <1>1, <1>3, <2>1, <2>6, <3>1, HeldKept, FreeKept
  <2>8. /\ step' \in [Users -> {"idle"} \union Operations] /\ request' \in [Users -> Requests]
        /\ retries' \in [Users -> 0..MaxRetries] /\ calls' \in 0..MaxCalls
        /\ RequestInv(u)' /\ request'[u] = NoRequest(u)
        /\ \A v \in Users : v # u => step'[v] = step[v] /\ request'[v] = request[v]
    <3>1. mine'[u] = NoBriefcase => \A o \in Objects : believed'[u][o] = 0
      BY <1>3, <2>1 DEF RequestInv
    <3> QED
      BY <1>1, <1>3, <2>1, <3>1, ReturnRequest
  <2>9. \A b \in BriefcaseIds, v \in Users :
            b = mine'[v] \/ b \in known'[v] \/ b \in briefcases'[v] => OwnedBy(b, v)
    BY <1>3, <2>3 DEF OwnedBy
  <2>10. request'[u].briefcase \in {request[u].briefcase, NoBriefcase}
    BY <2>8, NoRequestType
  <2>11. /\ known' \in [Users -> SUBSET BriefcaseIds] /\ released' \in [Users -> BOOLEAN]
         /\ mine' \in [Users -> BriefcaseIds \union {NoBriefcase}]
         /\ believed' \in [Users -> [Objects -> LockStates]]
    BY <1>3, <2>1 DEF TypeOK
  <2>12. \A v \in Users : v # u =>
            /\ mine'[v] = mine[v] /\ believed'[v] = believed[v] /\ released'[v] = released[v]
            /\ mine[v] # NoBriefcase => holds'[mine[v]] = holds[mine[v]]
    BY <1>3, <2>5
  <2>13. issued' \in {issued, issued + 1}
    BY <2>3
  <2> QED
    BY ONLY <1>1, <2>3, <2>4, <2>7, <2>8, <2>9, <2>10, <2>11, <2>12, <2>13, AnswerKeeps, LocksInv,
            u \in Users
<1> QED
  BY <1>2, <1>3 DEF BriefcaseReleased

LEMMA BriefcasesListedKeeps ==
    ASSUME LocksInv, NEW u \in Users, BriefcasesListed(u) PROVE LocksInv'
<1>1. /\ step[u] = "getBriefcaseList" /\ UNCHANGED network /\ UNCHANGED versions
      /\ UNCHANGED <<stray, pulled, edited>>
  BY DEF BriefcasesListed, network, versions
<1>2. CASE Throw(u)
  BY <1>1, <1>2, ThrowKeeps
<1>3. ASSUME UNCHANGED service, Return(u), known' = [known EXCEPT ![u] = briefcases[u]],
             \/ /\ mine[u] = NoBriefcase
                /\ \E b \in briefcases[u] : mine' = [mine EXCEPT ![u] = b]
                /\ released' = [released EXCEPT ![u] = FALSE]
             \/ UNCHANGED <<mine, released>>,
             UNCHANGED believed
      PROVE  LocksInv'
  <2>1. /\ TypeOK /\ RequestInv(u) /\ HeldInv(u) /\ FreeInv(u) /\ LockInv
        /\ \A o \in Objects : EditInv(o)
        /\ UNCHANGED <<briefcases, issued, holds, releasedAt>>
    BY <1>3 DEF LocksInv, UserInv, service
  <2>2. /\ mine'[u] \in {mine[u]} \union briefcases[u]
        /\ mine'[u] # mine[u] => mine[u] = NoBriefcase /\ ~released'[u]
        /\ mine' \in [Users -> BriefcaseIds \union {NoBriefcase}] /\ released' \in [Users -> BOOLEAN]
        /\ mine'[u] = mine[u] => (released'[u] => released[u])
        /\ \A v \in Users : v # u => mine'[v] = mine[v] /\ released'[v] = released[v]
    <3>1. CASE UNCHANGED <<mine, released>>
      BY <2>1, <3>1 DEF TypeOK
    <3>2. CASE /\ mine[u] = NoBriefcase
               /\ \E b \in briefcases[u] : mine' = [mine EXCEPT ![u] = b]
               /\ released' = [released EXCEPT ![u] = FALSE]
      BY <2>1, <3>2 DEF TypeOK
    <3> QED
      BY <1>3, <3>1, <3>2
  <2>3. /\ known' \in [Users -> SUBSET BriefcaseIds] /\ believed' \in [Users -> [Objects -> LockStates]]
        /\ \A v \in Users : known'[v] \subseteq known[v] \union briefcases[v]
    BY <1>3, <2>1 DEF TypeOK
  <2>4. ServiceTypes' /\ issued' \in {issued, issued + 1} /\ LockInv'
    BY <2>1 DEF TypeOK, ServiceTypes, LockInv, Exists
  <2>5. \A o \in Objects : EditInv(o)'
    BY <1>1, <2>1, EditsKept
  <2>6. /\ step' \in [Users -> {"idle"} \union Operations] /\ request' \in [Users -> Requests]
        /\ retries' \in [Users -> 0..MaxRetries] /\ calls' \in 0..MaxCalls
        /\ RequestInv(u)' /\ request'[u] = NoRequest(u)
        /\ \A v \in Users : v # u => step'[v] = step[v] /\ request'[v] = request[v]
    <3>1. mine'[u] = NoBriefcase => \A o \in Objects : believed'[u][o] = 0
      BY <1>3, <2>1, <2>2 DEF RequestInv
    <3> QED
      BY <1>1, <1>3, <2>1, <3>1, ReturnRequest
  <2>7. HeldInv(u)'
    <3>1. CASE mine'[u] = mine[u]
      BY <1>1, <1>3, <2>1, <3>1 DEF HeldInv, LowersTo
    <3>2. CASE mine'[u] # mine[u]
      <4>1. \A o \in Objects : believed'[u][o] = 0
        BY <1>3, <2>1, <2>2, <3>2 DEF RequestInv
      <4>2. \A o \in Objects : Rank[holds'[mine'[u]][o]] \in LockStates \/ mine'[u] = NoBriefcase
        BY <2>1, <2>2, Ranks DEF TypeOK
      <4> QED
        BY <4>1, <4>2 DEF HeldInv, LockStates
    <3> QED
      BY <3>1, <3>2
  <2>8. FreeInv(u)'
    BY <1>1, <2>1, <2>2 DEF FreeInv, Held
  <2>9. \A b \in BriefcaseIds, v \in Users :
            b = mine'[v] \/ b \in known'[v] \/ b \in briefcases'[v] => OwnedBy(b, v)
    BY <2>1, <2>2, <2>3 DEF OwnedBy
  <2>10. request'[u].briefcase \in {request[u].briefcase, NoBriefcase}
    BY <2>6, NoRequestType
  <2>11. \A v \in Users : v # u =>
            /\ mine'[v] = mine[v] /\ believed'[v] = believed[v] /\ released'[v] = released[v]
            /\ mine[v] # NoBriefcase => holds'[mine[v]] = holds[mine[v]]
    BY <1>3, <2>1, <2>2
  <2> QED
    BY ONLY <1>1, <2>2, <2>3, <2>4, <2>5, <2>6, <2>7, <2>8, <2>9, <2>10, <2>11, AnswerKeeps, LocksInv,
            u \in Users
<1> QED
  BY <1>1, <1>2, <1>3 DEF BriefcasesListed

LEMMA LocksUpdatedKeeps ==
    ASSUME LocksInv, NEW u \in Users, LocksUpdated(u) PROVE LocksInv'
<1>1. /\ step[u] = "updateLocks" /\ UNCHANGED network /\ UNCHANGED versions
      /\ UNCHANGED <<stray, pulled, edited>>
  BY DEF LocksUpdated, network, versions
<1>2. CASE Throw(u)
  BY <1>1, <1>2, ThrowKeeps
<1>3. CASE /\ PerformUpdate(request[u]) /\ Return(u)
           /\ believed' = [believed EXCEPT ![u] =
                 [o \in Objects |-> IF \E group \in request[u].locked : o \in group.objectIds
                                    THEN ToLockProps(request[u].locked)[o] ELSE @[o]]]
           /\ released' = [released EXCEPT ![u] = FALSE]
           /\ UNCHANGED <<known, mine>>
  <2> PICK r \in Requests : r = request[u]
    BY DEF LocksInv, TypeOK
  <2> PICK levels : levels = [o \in Objects |-> LevelAskedFor(r, o)]
    OBVIOUS
  <2> PICK c : c = r.changeset
    OBVIOUS
  <2>1. /\ TypeOK /\ OwnerInv /\ LockInv /\ RequestInv(u) /\ r.briefcase = mine[u]
        /\ mine[u] # NoBriefcase /\ OwnedBy(r.briefcase, u) /\ HeldInv(u) /\ c = pulled[u]
    BY <1>1 DEF LocksInv, UserInv, RequestInv, OwnedBy
  <2>2. Relocks(r.briefcase, levels, c)
    <3>1. PerformUpdate(r)
      BY <1>3 DEF PerformUpdate, LevelAskedFor, Conflicts, Outdated
    <3>2. Relocks(r.briefcase, [o \in Objects |-> LevelAskedFor(r, o)], r.changeset)
      BY <2>1, <3>1, UpdateRelocks
    <3> QED
      BY <3>2 DEF Relocks
  <2>3. /\ ServiceTypes' /\ issued' \in {issued, issued + 1}
        /\ \A v \in Users : briefcases'[v] \subseteq briefcases[v]
        /\ holds'[mine[u]] = levels
    BY <2>1, <2>2, RelocksHolds DEF Relocks
  <2>4. LockInv' /\ \A o \in Objects : EditInv(o)'
    BY <1>1, <2>1, <2>2, RelocksLocks, RelocksEveryEdit
  <2>5. \A v \in Users : v # u /\ mine[v] # NoBriefcase => holds'[mine[v]] = holds[mine[v]]
    BY <2>1, <2>2, RelocksOthers
  <2>6. ASSUME NEW o \in Objects
        PROVE  /\ believed'[u][o] \in LockStates /\ Rank[levels[o]] \in LockStates
               /\ IF \E group \in r.locked : o \in group.objectIds
                  THEN believed'[u][o] = Rank[levels[o]]
                  ELSE believed'[u][o] = believed[u][o] /\ levels[o] = holds[mine[u]][o]
    <3>1. believed'[u][o] = IF \E group \in r.locked : o \in group.objectIds
                            THEN ToLockProps(r.locked)[o] ELSE believed[u][o]
      BY <1>3, <2>1 DEF TypeOK
    <3>2. /\ LevelAskedFor(r, o) \in LockLevels
          /\ IF \E group \in r.locked : o \in group.objectIds
             THEN ToLockProps(r.locked)[o] = Rank[LevelAskedFor(r, o)]
             ELSE LevelAskedFor(r, o) = holds[r.briefcase][o]
      BY <2>1, LevelTypes
    <3>3. believed[u][o] \in LockStates /\ Rank[LevelAskedFor(r, o)] \in LockStates
      BY <2>1, <3>2, Ranks DEF TypeOK
    <3> QED
      BY <2>1, <3>1, <3>2, <3>3
  <2>7. HeldInv(u)'
    <3> SUFFICES ASSUME NEW o \in Objects, NEW level \in LockStates, level <= believed'[u][o],
                        \A q \in stray : q.briefcase = mine[u] => LowersTo(q, o) >= level
                 PROVE  Rank[levels[o]] >= level
      BY <1>1, <1>3, <2>3 DEF HeldInv, LowersTo
    <3>1. CASE \E group \in r.locked : o \in group.objectIds
      BY <2>6, <3>1 DEF LockStates
    <3>2. CASE ~ \E group \in r.locked : o \in group.objectIds
      BY <2>1, <2>6, <3>2 DEF HeldInv
    <3> QED
      BY <3>1, <3>2
  <2>8. released' \in [Users -> BOOLEAN] /\ FreeInv(u)'
    BY <1>3, <2>1 DEF TypeOK, FreeInv
  <2>9. /\ step' \in [Users -> {"idle"} \union Operations] /\ request' \in [Users -> Requests]
        /\ retries' \in [Users -> 0..MaxRetries] /\ calls' \in 0..MaxCalls
        /\ RequestInv(u)' /\ request'[u] = NoRequest(u)
        /\ \A v \in Users : v # u => step'[v] = step[v] /\ request'[v] = request[v]
    BY <1>1, <1>3, <2>1, ReturnRequest
  <2>10. \A b \in BriefcaseIds, v \in Users :
            b = mine'[v] \/ b \in known'[v] \/ b \in briefcases'[v] => OwnedBy(b, v)
    BY <1>3, <2>3 DEF OwnedBy
  <2>11. request'[u].briefcase \in {request[u].briefcase, NoBriefcase}
    BY <2>9, NoRequestType
  <2>12. /\ known' \in [Users -> SUBSET BriefcaseIds]
         /\ mine' \in [Users -> BriefcaseIds \union {NoBriefcase}]
    BY <1>3, <2>1 DEF TypeOK
  <2>13. believed' \in [Users -> [Objects -> LockStates]]
    <3>1. PICK relied \in [Objects -> LockStates] : believed' = [believed EXCEPT ![u] = relied]
      <4> DEFINE named == [o \in Objects |-> IF \E group \in request[u].locked : o \in group.objectIds
                                    THEN ToLockProps(request[u].locked)[o] ELSE believed[u][o]]
      <4>1. believed' = [believed EXCEPT ![u] = named] /\ believed'[u] = named
        BY <1>3, <2>1 DEF TypeOK
      <4>2. named \in [Objects -> LockStates]
        <5>1. \A o \in Objects : named[o] \in LockStates
          BY ONLY <2>6, <4>1
        <5> QED
          BY <5>1
      <4> QED
        BY <4>1, <4>2
    <3> QED
      BY <2>1, <3>1 DEF TypeOK
  <2>14. \A v \in Users : v # u =>
            /\ mine'[v] = mine[v] /\ believed'[v] = believed[v] /\ released'[v] = released[v]
            /\ mine[v] # NoBriefcase => holds'[mine[v]] = holds[mine[v]]
    BY <1>3, <2>1, <2>5 DEF TypeOK
  <2> QED
    BY ONLY <1>1, <2>3, <2>4, <2>7, <2>8, <2>9, <2>10, <2>11, <2>12, <2>13, <2>14, AnswerKeeps,
            LocksInv, u \in Users
<1> QED
  BY <1>2, <1>3 DEF LocksUpdated

\* What the service tells by level is the locks it has for the briefcase.
LEMMA ListedLocks ==
    ASSUME NEW levels \in [Objects -> LockLevels]
    PROVE  ToLockProps({[lockLevel |-> level, objectIds |-> {o \in Objects : levels[o] = level}] :
                            level \in LockLevels})
              = [o \in Objects |-> Rank[levels[o]]]
<1> DEFINE listed == {[lockLevel |-> level, objectIds |-> {o \in Objects : levels[o] = level}] :
                          level \in LockLevels}
<1>1. ASSUME NEW o \in Objects
      PROVE  /\ \E group \in listed : o \in group.objectIds
             /\ \A group \in listed : o \in group.objectIds => group.lockLevel = levels[o]
  <2>1. levels[o] \in LockLevels
    OBVIOUS
  <2>2. [lockLevel |-> levels[o], objectIds |-> {p \in Objects : levels[p] = levels[o]}] \in listed
    BY <2>1
  <2>3. \A group \in listed : o \in group.objectIds => group.lockLevel = levels[o]
    OBVIOUS
  <2>4. PICK group \in listed : group.objectIds = {p \in Objects : levels[p] = levels[o]}
    BY <2>2
  <2>5. o \in group.objectIds
    BY <2>4
  <2> QED
    BY ONLY <2>3, <2>4, <2>5
<1> HIDE DEF listed
<1>2. \A o \in Objects :
         /\ \E group \in listed : o \in group.objectIds
         /\ (CHOOSE group \in listed : o \in group.objectIds).lockLevel = levels[o]
         /\ ToLockState(levels[o]) = Rank[levels[o]]
  BY <1>1, Ranks
<1>3. ToLockProps(listed) = [o \in Objects |-> Rank[levels[o]]]
  BY <1>2 DEF ToLockProps
<1> QED
  BY <1>3 DEF listed

LEMMA LocksListedKeeps ==
    ASSUME LocksInv, NEW u \in Users, LocksListed(u) PROVE LocksInv'
<1>1. /\ step[u] = "getLockList" /\ UNCHANGED network /\ UNCHANGED versions
      /\ UNCHANGED <<stray, pulled, edited>>
  BY DEF LocksListed, network, versions
<1>2. CASE Throw(u)
  BY <1>1, <1>2, ThrowKeeps
<1>3. CASE /\ UNCHANGED service /\ Return(u)
           /\ believed' = [believed EXCEPT ![u] = ToLockProps(
                 {[lockLevel |-> level,
                   objectIds |-> {o \in Objects : holds[mine[u]][o] = level}] : level \in LockLevels})]
           /\ UNCHANGED <<known, mine, released>>
  <2>1. /\ TypeOK /\ RequestInv(u) /\ HeldInv(u) /\ FreeInv(u) /\ LockInv
        /\ mine[u] \in BriefcaseIds /\ mine[u] # NoBriefcase
        /\ \A o \in Objects : EditInv(o)
        /\ UNCHANGED <<briefcases, issued, holds, releasedAt>>
    BY <1>1, <1>3 DEF LocksInv, UserInv, service, RequestInv, TypeOK
  <2> PICK levels \in [Objects -> LockLevels] : levels = holds[mine[u]]
    BY <2>1 DEF TypeOK
  <2> PICK relied : relied = [o \in Objects |-> Rank[levels[o]]]
    OBVIOUS
  <2>2. believed' = [believed EXCEPT ![u] = relied] /\ relied \in [Objects -> LockStates]
    <3>1. ToLockProps({[lockLevel |-> level,
                        objectIds |-> {o \in Objects : holds[mine[u]][o] = level}] : level \in LockLevels})
             = [o \in Objects |-> Rank[holds[mine[u]][o]]]
      <4>1. holds[mine[u]] \in [Objects -> LockLevels]
        OBVIOUS
      <4> QED
        BY ONLY <4>1, ListedLocks
    <3>2. \A o \in Objects : Rank[levels[o]] \in LockStates
      BY Ranks
    <3> QED
      BY <1>3, <3>1, <3>2
  <2>3. ServiceTypes' /\ issued' \in {issued, issued + 1} /\ LockInv'
    BY <2>1 DEF TypeOK, ServiceTypes, LockInv, Exists
  <2>4. \A o \in Objects : EditInv(o)'
    BY <1>1, <2>1, EditsKept
  <2>5. /\ believed' \in [Users -> [Objects -> LockStates]] /\ believed'[u] = relied
        /\ \A v \in Users : v # u => believed'[v] = believed[v]
    BY <2>1, <2>2 DEF TypeOK
  <2>6. HeldInv(u)'
    <3>1. \A o \in Objects : believed'[u][o] = Rank[holds'[mine'[u]][o]]
      BY <1>3, <2>1, <2>5
    <3>2. \A o \in Objects : relied[o] \in LockStates
      BY <2>2
    <3> QED
      BY <2>5, <3>1, <3>2 DEF HeldInv, LockStates
  <2>7. FreeInv(u)'
    BY <1>1, <1>3, <2>1 DEF FreeInv, Held
  <2>8. /\ step' \in [Users -> {"idle"} \union Operations] /\ request' \in [Users -> Requests]
        /\ retries' \in [Users -> 0..MaxRetries] /\ calls' \in 0..MaxCalls
        /\ RequestInv(u)' /\ request'[u] = NoRequest(u)
        /\ \A v \in Users : v # u => step'[v] = step[v] /\ request'[v] = request[v]
    BY <1>1, <1>3, <2>1, ReturnRequest
  <2>9. \A b \in BriefcaseIds, v \in Users :
            b = mine'[v] \/ b \in known'[v] \/ b \in briefcases'[v] => OwnedBy(b, v)
    BY <1>3, <2>1 DEF OwnedBy
  <2>10. request'[u].briefcase \in {request[u].briefcase, NoBriefcase}
    BY <2>8, NoRequestType
  <2>11. /\ known' \in [Users -> SUBSET BriefcaseIds] /\ released' \in [Users -> BOOLEAN]
         /\ mine' \in [Users -> BriefcaseIds \union {NoBriefcase}]
    BY <1>3, <2>1 DEF TypeOK
  <2>12. \A v \in Users : v # u =>
            /\ mine'[v] = mine[v] /\ believed'[v] = believed[v] /\ released'[v] = released[v]
            /\ mine[v] # NoBriefcase => holds'[mine[v]] = holds[mine[v]]
    BY <1>3, <2>1, <2>5
  <2> QED
    BY ONLY <1>1, <2>3, <2>4, <2>5, <2>6, <2>7, <2>8, <2>9, <2>10, <2>11, <2>12, AnswerKeeps, LocksInv,
            u \in Users
<1> QED
  BY <1>2, <1>3 DEF LocksListed

LEMMA ChunkReleasedKeeps ==
    ASSUME LocksInv, NEW u \in Users, ChunkReleased(u) PROVE LocksInv'
<1>1. /\ step[u] = "releaseLocksChunk" /\ UNCHANGED network /\ UNCHANGED versions
      /\ UNCHANGED <<stray, pulled, edited>>
  BY DEF ChunkReleased, network, versions
<1>2. CASE Throw(u)
  BY <1>1, <1>2, ThrowKeeps
<1>3. ASSUME NEW chunk \in SUBSET Objects, NEW isLastChunk \in BOOLEAN,
             PerformChunk(request[u], chunk), isLastChunk => chunk = Held(request[u].briefcase),
             \/ /\ ~isLastChunk
                /\ retries' = [retries EXCEPT ![u] = 0]
                /\ UNCHANGED <<step, request, calls, released>>
             \/ /\ isLastChunk
                /\ Return(u)
                /\ released' = [released EXCEPT ![u] = TRUE],
             UNCHANGED <<known, mine, believed>>
      PROVE  LocksInv'
  <2> PICK r \in Requests : r = request[u]
    BY DEF LocksInv, TypeOK
  <2> PICK levels : levels = [o \in Objects |-> IF o \in chunk THEN "none" ELSE holds[r.briefcase][o]]
    OBVIOUS
  <2> PICK c : c = r.changeset
    OBVIOUS
  <2>1. /\ TypeOK /\ OwnerInv /\ LockInv /\ RequestInv(u) /\ r.briefcase = mine[u]
        /\ mine[u] # NoBriefcase /\ OwnedBy(r.briefcase, u) /\ FreeInv(u) /\ c = pulled[u]
        /\ \A o \in Objects : believed[u][o] = 0
    BY <1>1 DEF LocksInv, UserInv, RequestInv, OwnedBy
  <2>2. Relocks(r.briefcase, levels, c)
    <3>1. PerformChunk(r, chunk)
      BY <1>3
    <3>2. Relocks(r.briefcase,
                  [o \in Objects |-> IF o \in chunk THEN "none" ELSE holds[r.briefcase][o]],
                  r.changeset)
      BY <2>1, <3>1, ChunkRelocks
    <3> QED
      BY <3>2 DEF Relocks
  <2>3. /\ ServiceTypes' /\ issued' \in {issued, issued + 1}
        /\ \A v \in Users : briefcases'[v] \subseteq briefcases[v]
        /\ holds'[mine[u]] = levels
    BY <2>1, <2>2, RelocksHolds DEF Relocks
  <2>4. LockInv' /\ \A o \in Objects : EditInv(o)'
    BY <1>1, <2>1, <2>2, RelocksLocks, RelocksEveryEdit
  <2>5. \A v \in Users : v # u /\ mine[v] # NoBriefcase => holds'[mine[v]] = holds[mine[v]]
    BY <2>1, <2>2, RelocksOthers
  <2>6. HeldInv(u)'
    <3>1. \A o \in Objects : believed'[u][o] = 0 /\ Rank[levels[o]] \in LockStates
      BY <1>3, <2>1, <2>2, Ranks DEF Relocks
    <3> QED
      BY <1>3, <2>3, <3>1 DEF HeldInv, LockStates
  <2>7. Held(mine[u])' = Held(mine[u]) \ chunk
    BY <2>1, <2>3, <1>3 DEF Held
  <2>8. /\ step' \in [Users -> {"idle"} \union Operations] /\ request' \in [Users -> Requests]
        /\ retries' \in [Users -> 0..MaxRetries] /\ calls' \in 0..MaxCalls
        /\ RequestInv(u)' /\ request'[u].briefcase \in {request[u].briefcase, NoBriefcase}
        /\ \A v \in Users : v # u => step'[v] = step[v] /\ request'[v] = request[v]
        /\ released' \in [Users -> BOOLEAN] /\ FreeInv(u)'
        /\ \A v \in Users : v # u => released'[v] = released[v]
    <3>1. CASE /\ ~isLastChunk
               /\ retries' = [retries EXCEPT ![u] = 0]
               /\ UNCHANGED <<step, request, calls, released>>
      <4>1. retries' \in [Users -> 0..MaxRetries]
        BY <2>1, <3>1, LocksAssumption DEF TypeOK
      <4>2. RequestInv(u)'
        BY <1>1, <1>3, <2>1, <3>1 DEF RequestInv, NoRequest
      <4>3. FreeInv(u)'
        BY <1>1, <1>3, <2>1, <2>7, <3>1 DEF FreeInv
      <4> QED
        BY <2>1, <3>1, <4>1, <4>2, <4>3 DEF TypeOK
    <3>2. CASE isLastChunk /\ Return(u) /\ released' = [released EXCEPT ![u] = TRUE]
      <4>1. /\ step' \in [Users -> {"idle"} \union Operations] /\ request' \in [Users -> Requests]
            /\ retries' \in [Users -> 0..MaxRetries] /\ calls' \in 0..MaxCalls
            /\ RequestInv(u)' /\ request'[u] = NoRequest(u)
            /\ \A v \in Users : v # u => step'[v] = step[v] /\ request'[v] = request[v]
        BY <1>1, <1>3, <2>1, <3>2, ReturnRequest
      <4>2. FreeInv(u)'
        <5>1. Held(mine[u])' = {}
          BY <1>3, <2>1, <2>7, <3>2
        <5> QED
          BY <1>3, <5>1 DEF FreeInv, Held
      <4>3. request'[u].briefcase = NoBriefcase
        BY <4>1, NoRequestType
      <4>4. /\ released' \in [Users -> BOOLEAN]
            /\ \A v \in Users : v # u => released'[v] = released[v]
        BY <2>1, <3>2 DEF TypeOK
      <4> QED
        BY ONLY <4>1, <4>2, <4>3, <4>4
    <3> QED
      BY <1>3, <3>1, <3>2
  <2>9. \A b \in BriefcaseIds, v \in Users :
            b = mine'[v] \/ b \in known'[v] \/ b \in briefcases'[v] => OwnedBy(b, v)
    BY <1>3, <2>3 DEF OwnedBy
  <2>10. /\ known' \in [Users -> SUBSET BriefcaseIds]
         /\ mine' \in [Users -> BriefcaseIds \union {NoBriefcase}]
         /\ believed' \in [Users -> [Objects -> LockStates]]
    BY <1>3, <2>1 DEF TypeOK
  <2>11. \A v \in Users : v # u =>
            /\ mine'[v] = mine[v] /\ believed'[v] = believed[v] /\ released'[v] = released[v]
            /\ mine[v] # NoBriefcase => holds'[mine[v]] = holds[mine[v]]
    BY <1>3, <2>5, <2>8
  <2> QED
    BY ONLY <1>1, <2>3, <2>4, <2>6, <2>8, <2>9, <2>10, <2>11, AnswerKeeps, LocksInv, u \in Users
<1> QED
  BY <1>1, <1>2, <1>3 DEF ChunkReleased, AsksAgain
-------------------------------------------------------------------------------
(* What was left behind arrives.                                           *)

\* Users have nothing to do with it, but the locks are of one of them.
LEMMA StrayKeeps ==
    ASSUME LocksInv, UNCHANGED client, UNCHANGED versions, UNCHANGED stray, arrived' \subseteq stray,
           NEW w \in Users, ServiceTypes', issued' \in {issued, issued + 1},
           \A b \in BriefcaseIds, v \in Users : b \in briefcases'[v] =>
              OwnedBy(b, v) \/ (b = issued + 1 /\ v = w /\ issued' = issued + 1),
           \A v \in Users : v # w /\ mine[v] # NoBriefcase => holds'[mine[v]] = holds[mine[v]],
           HeldInv(w)', FreeInv(w)', LockInv', \A o \in Objects : EditInv(o)'
    PROVE  LocksInv'
<1>1. /\ TypeOK /\ OwnerInv
      /\ UNCHANGED <<step, request, retries, calls, known, mine, believed, released, latest, pulled,
                     edited, stray>>
  BY DEF LocksInv, client, versions
<1>2. TypeOK'
  BY <1>1 DEF TypeOK, ServiceTypes
<1>3. OwnerInv'
  <2>1. \A b \in BriefcaseIds, v \in Users :
           OwnedBy(b, v)' => OwnedBy(b, v) \/ (b = issued + 1 /\ v = w /\ issued' = issued + 1)
    BY <1>1 DEF OwnedBy
  <2> QED
    BY <1>1, <2>1, OwnersKept
<1>4. StrayInv' /\ VersionInv'
  BY <1>1 DEF LocksInv, StrayInv, VersionInv
<1>5. \A v \in Users : UserInv(v)'
  <2>1. \A v \in Users : v # w => Bystander(v)
    BY <1>1 DEF Bystander
  <2>2. RequestInv(w)'
    BY <1>1 DEF LocksInv, UserInv, RequestInv, NoRequest
  <2> QED
    BY <1>1, <2>1, <2>2, BystanderKept DEF LocksInv, UserInv
<1> QED
  BY <1>2, <1>3, <1>4, <1>5 DEF LocksInv

\* A request that was left behind lowers a lock to no less than LowersTo tells of it, and
\* only one for locks raises any.
LEMMA StrayLevels ==
    ASSUME LocksInv, NEW r \in stray, NEW b, NEW levels, NEW c, Relocks(b, levels, c), b = r.briefcase,
           \/ /\ r.what = "updateLocks" /\ PerformUpdate(r) /\ c = r.changeset
              /\ levels = [o \in Objects |-> LevelAskedFor(r, o)]
           \/ /\ r.what \in {"releaseBriefcase", "releaseLocksChunk"}
              /\ \A o \in Objects : levels[o] \in {"none", holds[b][o]},
           NEW o \in Objects
    PROVE  /\ r.what = "updateLocks" \/ levels[o] \in {"none", holds[b][o]}
           /\ LowersTo(r, o) \in LockStates
           /\ \A level \in LockStates :
                 level <= LowersTo(r, o) /\ level <= Rank[holds[b][o]] => level <= Rank[levels[o]]
<1>1. /\ TypeOK /\ r \in Requests /\ b \in BriefcaseIds /\ b # NoBriefcase
      /\ holds[b][o] \in LockLevels /\ Rank[holds[b][o]] \in LockStates
  <2>1. TypeOK /\ r \in Requests /\ b \in BriefcaseIds /\ b # NoBriefcase
    BY ExistsTypes DEF LocksInv, TypeOK, Relocks
  <2>2. holds[b][o] \in LockLevels
    BY <2>1 DEF TypeOK
  <2> QED
    BY <2>1, <2>2, Ranks
<1>2. CASE /\ r.what = "updateLocks" /\ PerformUpdate(r) /\ c = r.changeset
           /\ levels = [p \in Objects |-> LevelAskedFor(r, p)]
  <2>1. /\ levels[o] \in LockLevels
        /\ IF \E group \in r.locked : o \in group.objectIds
           THEN ToLockProps(r.locked)[o] = Rank[levels[o]]
           ELSE levels[o] = holds[b][o]
    BY <1>1, <1>2, LevelTypes
  <2>2. Rank[levels[o]] \in LockStates
    BY <2>1, Ranks
  <2> QED
    BY <1>1, <1>2, <2>1, <2>2 DEF LowersTo, LockStates
<1>3. CASE /\ r.what \in {"releaseBriefcase", "releaseLocksChunk"}
           /\ \A p \in Objects : levels[p] \in {"none", holds[b][p]}
  <2>1. LowersTo(r, o) = 0
    BY <1>3 DEF LowersTo
  <2> QED
    BY <1>1, <1>3, <2>1, Ranks DEF LockStates
<1> QED
  BY <1>2, <1>3

\* A late request for locks, or one that gives them up.
LEMMA StrayRelocksKeeps ==
    ASSUME LocksInv, UNCHANGED client, UNCHANGED versions, UNCHANGED stray, arrived' \subseteq stray,
           NEW r \in stray, NEW b, NEW levels, NEW c, Relocks(b, levels, c), b = r.briefcase,
           \/ /\ r.what = "updateLocks" /\ PerformUpdate(r) /\ c = r.changeset
              /\ levels = [o \in Objects |-> LevelAskedFor(r, o)]
           \/ /\ r.what \in {"releaseBriefcase", "releaseLocksChunk"}
              /\ \A o \in Objects : levels[o] \in {"none", holds[b][o]}
    PROVE  LocksInv'
<1>1. /\ TypeOK /\ OwnerInv /\ LockInv /\ StrayInv /\ r \in Requests /\ b \in BriefcaseIds
      /\ Exists(b) /\ b # NoBriefcase
      /\ UNCHANGED <<step, request, retries, calls, known, mine, believed, released, latest, pulled,
                     edited, stray>>
  BY ExistsTypes DEF LocksInv, TypeOK, Relocks, client, versions
<1> PICK w \in Users : w = r.user
  BY <1>1 DEF Requests
<1>2. OwnedBy(b, w) /\ b \in briefcases[w]
  <2>1. OwnedBy(b, w)
    BY DEF OwnedBy
  <2> QED
    BY <1>1, <2>1 DEF Exists, OwnerInv, OwnedBy
<1>3. /\ ServiceTypes' /\ issued' \in {issued, issued + 1}
      /\ \A v \in Users : briefcases'[v] \subseteq briefcases[v]
      /\ \A d \in BriefcaseIds : holds'[d] = IF d = b THEN levels ELSE holds[d]
  BY <1>1, RelocksHolds DEF Relocks
<1>4. LockInv' /\ \A v \in Users : v # w /\ mine[v] # NoBriefcase => holds'[mine[v]] = holds[mine[v]]
  BY <1>1, <1>2, RelocksLocks, RelocksOthers
<1>5. ASSUME NEW o \in Objects
      PROVE  /\ r.what = "updateLocks" \/ levels[o] \in {"none", holds[b][o]}
             /\ LowersTo(r, o) \in LockStates
             /\ \A level \in LockStates :
                   level <= LowersTo(r, o) /\ level <= Rank[holds[b][o]] => level <= Rank[levels[o]]
  BY StrayLevels
<1>6. \A o \in Objects : /\ Rank[levels[o]] \in LockStates /\ levels[o] \in LockLevels
                         /\ Rank[holds[b][o]] \in LockStates /\ holds[b][o] \in LockLevels
  BY <1>1, Ranks DEF Relocks, TypeOK
<1>7. HeldInv(w)'
  <2> SUFFICES ASSUME mine[w] # NoBriefcase, NEW o \in Objects, NEW level \in LockStates,
                      level <= believed[w][o],
                      \A q \in stray : q.briefcase = mine[w] => LowersTo(q, o) >= level
               PROVE  Rank[holds'[mine[w]][o]] >= level
    BY <1>1 DEF HeldInv, LowersTo
  <2>1. Rank[holds[mine[w]][o]] >= level
    BY DEF LocksInv, UserInv, HeldInv
  <2>2. CASE mine[w] = b
    <3>1. LowersTo(r, o) >= level
      BY <2>2
    <3>2. level <= LowersTo(r, o) /\ level <= Rank[holds[b][o]]
      BY <1>5, <1>6, <2>1, <2>2, <3>1 DEF LockStates
    <3>3. level <= Rank[levels[o]]
      BY <1>5, <3>2
    <3> QED
      BY <1>1, <1>3, <1>6, <2>2, <3>3 DEF LockStates
  <2>3. CASE mine[w] # b
    BY <1>1, <1>3, <2>1, <2>3 DEF TypeOK
  <2> QED
    BY <2>2, <2>3
<1>8. FreeInv(w)'
  <2> SUFFICES ASSUME mine[w] # NoBriefcase, released[w],
                      \A q \in stray : q.briefcase = mine[w] => q.what # "updateLocks"
               PROVE  Held(mine[w])' = {}
    BY <1>1 DEF FreeInv, Held
  <2>1. Held(mine[w]) = {}
    BY DEF LocksInv, UserInv, FreeInv
  <2>2. CASE mine[w] = b
    <3>1. \A o \in Objects : levels[o] \in {"none", holds[b][o]}
      BY <1>5, <2>2
    <3> QED
      BY <1>1, <1>3, <2>1, <2>2, <3>1 DEF Held
  <2>3. CASE mine[w] # b
    BY <1>1, <1>3, <2>1, <2>3 DEF TypeOK, Held
  <2> QED
    BY <2>2, <2>3
<1>9. ASSUME NEW o \in Objects PROVE EditInv(o)'
  <2>1. ASSUME NothingLowers(o), levels[o] = "exclusive", holds[b][o] # "exclusive"
        PROVE  c <= pulled[w]
    <3>1. r.what = "updateLocks" /\ c = r.changeset
      BY <1>5, <2>1
    <3> QED
      BY <1>1, <3>1 DEF StrayInv
  <2>2. ASSUME NothingLowers(o), levels[o] # "exclusive", holds[b][o] = "exclusive"
        PROVE  FALSE
    <3>1. LowersTo(r, o) = 2
      BY <2>2 DEF NothingLowers
    <3>2. 2 <= Rank[levels[o]]
      BY <1>5, <2>2, <3>1, Ranks DEF LockStates
    <3> QED
      BY <1>6, <2>2, <3>2, Ranks DEF LockStates
  <2> QED
    BY <1>1, <1>2, <2>1, <2>2, RelocksEdits
<1>10. \A d \in BriefcaseIds, v \in Users : d \in briefcases'[v] => OwnedBy(d, v)
  BY <1>3 DEF OwnedBy
<1> QED
  BY ONLY <1>3, <1>4, <1>7, <1>8, <1>9, <1>10, StrayKeeps, LocksInv, UNCHANGED client,
          UNCHANGED versions, UNCHANGED stray, arrived' \subseteq stray, w \in Users

LEMMA ArriveKeeps == ASSUME LocksInv, NEW r \in stray, Arrive(r) PROVE LocksInv'
<1>1. /\ TypeOK /\ r \in Requests /\ arrived' \subseteq stray /\ Perform(r)
      /\ UNCHANGED client /\ UNCHANGED versions /\ UNCHANGED stray
      /\ UNCHANGED <<pulled, edited, mine, believed, released>>
  BY DEF LocksInv, TypeOK, Arrive, client, versions
<1>2. CASE r.what = "acquireBriefcase" /\ PerformAcquire(r)
  <2> PICK w \in Users : w = r.user
    BY <1>1 DEF Requests
  <2>1. /\ issued < MaxBriefcases /\ issued' = issued + 1
        /\ briefcases' = [briefcases EXCEPT ![w] = @ \union {issued + 1}]
        /\ UNCHANGED <<holds, releasedAt>>
    BY <1>2 DEF PerformAcquire
  <2>2. /\ ServiceTypes' /\ LockInv'
        /\ \A v \in Users : briefcases'[v] = IF v = w THEN briefcases[v] \union {issued + 1}
                                                      ELSE briefcases[v]
    BY <2>1, NewBriefcase
  <2>3. \A o \in Objects : EditInv(o)'
    BY <1>1, <2>1, NewBriefcaseEdits
  <2>4. HeldInv(w)' /\ FreeInv(w)'
    <3>1. \A o \in Objects : believed'[w][o] \in LockStates /\ believed'[w][o] <= believed[w][o]
      BY <1>1 DEF TypeOK, LockStates
    <3> QED
      BY <1>1, <2>1, <3>1, HeldKept, FreeKept DEF LocksInv, UserInv
  <2>5. \A b \in BriefcaseIds, v \in Users : b \in briefcases'[v] =>
           OwnedBy(b, v) \/ (b = issued + 1 /\ v = w /\ issued' = issued + 1)
    BY <2>1, <2>2 DEF OwnedBy
  <2> QED
    BY <1>1, <2>1, <2>2, <2>3, <2>4, <2>5, StrayKeeps
<1>3. CASE r.what = "releaseBriefcase" /\ PerformRelease(r)
  <2> PICK levels : levels = [o \in Objects |-> "none"]
    OBVIOUS
  <2>1. Relocks(r.briefcase, levels, latest)
    BY <1>1, <1>3, ReleaseRelocks DEF Relocks
  <2> QED
    BY <1>1, <1>3, <2>1, StrayRelocksKeeps
<1>4. CASE r.what = "updateLocks" /\ PerformUpdate(r)
  <2> PICK levels : levels = [o \in Objects |-> LevelAskedFor(r, o)]
    OBVIOUS
  <2>1. Relocks(r.briefcase, levels, r.changeset)
    BY <1>1, <1>4, UpdateRelocks DEF Relocks
  <2> QED
    BY <1>1, <1>4, <2>1, StrayRelocksKeeps
<1>5. CASE r.what = "releaseLocksChunk" /\ \E chunk \in SUBSET Objects : PerformChunk(r, chunk)
  <2>1. PICK chunk \in SUBSET Objects : PerformChunk(r, chunk)
    BY <1>5
  <2> PICK levels : levels = [o \in Objects |-> IF o \in chunk THEN "none" ELSE holds[r.briefcase][o]]
    OBVIOUS
  <2>2. Relocks(r.briefcase, levels, r.changeset)
    BY <1>1, <2>1, ChunkRelocks DEF Relocks
  <2> QED
    BY <1>1, <1>5, <2>2, StrayRelocksKeeps
<1> QED
  BY <1>1, <1>2, <1>3, <1>4, <1>5 DEF Perform
-------------------------------------------------------------------------------
(* Changesets.                                                             *)

\* The changeset of a user who waits for nothing moves on.
LEMMA VersionsKeep ==
    ASSUME LocksInv, NEW u \in Users, step[u] = "idle", UNCHANGED <<service, network, client>>,
           latest' \in 0..MaxChangesets, latest' >= latest,
           pulled' = [pulled EXCEPT ![u] = latest'],
           edited' \in [Objects -> 0..MaxChangesets],
           \A o \in Objects : edited'[o] <= latest' /\ EditInv(o)'
    PROVE  LocksInv'
<1>1. /\ TypeOK /\ OwnerInv /\ UserInv(u) /\ latest \in Nat /\ latest' \in Nat
      /\ \A v \in Users : pulled[v] \in Nat /\ pulled[v] <= latest
      /\ UNCHANGED <<briefcases, issued, holds, releasedAt, stray, arrived, step, request, retries,
                     calls, known, mine, believed, released>>
  BY LocksAssumption DEF LocksInv, TypeOK, VersionInv, service, network, client
<1>2. \A v \in Users : pulled'[v] = (IF v = u THEN latest' ELSE pulled[v]) /\ pulled'[v] >= pulled[v]
                          /\ pulled'[v] \in Nat /\ pulled'[v] <= latest'
  BY <1>1 DEF TypeOK
<1>3. TypeOK'
  BY <1>1 DEF TypeOK
<1>4. OwnerInv'
  <2>1. \A b \in BriefcaseIds, v \in Users : OwnedBy(b, v)' => OwnedBy(b, v)
    BY <1>1 DEF OwnedBy
  <2> QED
    BY <1>1, <2>1, OwnersKept
<1>5. StrayInv' /\ VersionInv' /\ LockInv'
  <2>1. StrayInv'
    <3>1. \A r \in stray : r.user \in Users /\ r.changeset \in Nat
      BY <1>1, LocksAssumption DEF TypeOK, Requests
    <3> QED
      BY <1>1, <1>2, <3>1 DEF LocksInv, StrayInv
  <2> QED
    BY <1>1, <1>2, <2>1 DEF LocksInv, VersionInv, LockInv, Exists
<1>6. UserInv(u)'
  <2>1. RequestInv(u)'
    <3>1. request[u] = NoRequest(u) /\ NoRequest(u).changeset = 0
      BY <1>1 DEF UserInv, RequestInv, NoRequest
    <3> QED
      BY <1>1, <1>2, <3>1 DEF UserInv, RequestInv, NoRequest
  <2>2. \A o \in Objects : believed'[u][o] \in LockStates /\ believed'[u][o] <= believed[u][o]
    BY <1>1 DEF TypeOK, LockStates
  <2> QED
    BY <1>1, <2>1, <2>2, HeldKept, FreeKept DEF UserInv
<1>7. \A v \in Users : UserInv(v)'
  <2>1. \A v \in Users : v # u => Bystander(v)
    BY <1>1, <1>2 DEF Bystander
  <2> QED
    BY <1>1, <1>6, <2>1, BystanderKept DEF LocksInv
<1> QED
  BY <1>3, <1>4, <1>5, <1>7 DEF LocksInv

LEMMA PullKeeps == ASSUME LocksInv, NEW u \in Users, Pull(u) PROVE LocksInv'
<1>1. /\ TypeOK /\ step[u] = "idle" /\ UNCHANGED <<service, network, client>>
      /\ latest' = latest /\ edited' = edited /\ pulled' = [pulled EXCEPT ![u] = latest]
      /\ UNCHANGED <<briefcases, holds, releasedAt, stray>>
      /\ latest \in 0..MaxChangesets /\ MaxChangesets \in Nat
      /\ \A o \in Objects : edited[o] <= latest /\ edited[o] \in Nat
      /\ \A v \in Users : pulled[v] \in Nat /\ pulled[v] <= latest
  BY LocksAssumption DEF Pull, LocksInv, TypeOK, VersionInv, service, network
<1>2. \A v \in Users : pulled'[v] \in Nat /\ pulled'[v] >= pulled[v]
  BY <1>1 DEF TypeOK
<1>3. \A o \in Objects : EditInv(o)'
  <2> SUFFICES ASSUME NEW o \in Objects PROVE EditInv(o)'
    OBVIOUS
  <2>1. EditInv(o)
    BY DEF LocksInv
  <2> QED
    BY <1>1, <1>2, <2>1 DEF EditInv, NothingLowers, LowersTo
<1>4. /\ latest' \in 0..MaxChangesets /\ latest' >= latest /\ pulled' = [pulled EXCEPT ![u] = latest']
      /\ edited' \in [Objects -> 0..MaxChangesets] /\ \A o \in Objects : edited'[o] <= latest'
  BY <1>1 DEF TypeOK
<1> QED
  BY <1>1, <1>3, <1>4, VersionsKeep

\* Who relies on an exclusive lock has it, as long as no request lowers it.
LEMMA ReliedOn ==
    ASSUME LocksInv, NEW u \in Users, NEW o \in Objects, believed[u][o] = 2, NothingLowers(o)
    PROVE  mine[u] \in BriefcaseIds /\ mine[u] \in briefcases[u] /\ holds[mine[u]][o] = "exclusive"
<1>1. TypeOK /\ OwnerInv /\ LockInv /\ HeldInv(u) /\ RequestInv(u)
  BY DEF LocksInv, UserInv
<1>2. mine[u] # NoBriefcase /\ mine[u] \in BriefcaseIds
  BY <1>1 DEF RequestInv, TypeOK
<1>3. holds[mine[u]][o] \in LockLevels /\ Rank[holds[mine[u]][o]] \in LockStates
  BY <1>1, <1>2, Ranks DEF TypeOK
<1>4. Rank[holds[mine[u]][o]] >= 2
  BY <1>1, <1>2 DEF HeldInv, NothingLowers, LockStates
<1>5. holds[mine[u]][o] = "exclusive"
  BY <1>3, <1>4, Ranks DEF LockStates
<1>6. Exists(mine[u])
  BY <1>1, <1>2, <1>5 DEF LockInv
<1> QED
  BY <1>1, <1>2, <1>5, <1>6 DEF Exists, OwnerInv, OwnedBy

LEMMA EditKeeps ==
    ASSUME LocksInv, NEW u \in Users, NEW objects \in SUBSET Objects, Edit(u, objects) PROVE LocksInv'
<1>1. /\ TypeOK /\ OwnerInv /\ LockInv /\ step[u] = "idle" /\ UNCHANGED <<service, network, client>>
      /\ latest' = latest + 1 /\ pulled' = [pulled EXCEPT ![u] = latest + 1]
      /\ edited' = [o \in Objects |-> IF o \in objects THEN latest + 1 ELSE edited[o]]
      /\ UNCHANGED <<briefcases, holds, releasedAt, stray>>
      /\ latest \in 0..MaxChangesets /\ MaxChangesets \in Nat /\ latest < MaxChangesets
      /\ \A o \in Objects : edited[o] <= latest /\ edited[o] \in Nat
      /\ \A o \in objects : believed[u][o] = 2
      /\ \A v \in Users : pulled[v] \in Nat /\ pulled[v] <= latest
  BY LocksAssumption DEF Edit, LocksInv, TypeOK, VersionInv, service, network
<1>2. /\ latest' \in 0..MaxChangesets /\ latest' >= latest /\ edited' \in [Objects -> 0..MaxChangesets]
      /\ \A o \in Objects : edited'[o] <= latest'
      /\ \A o \in Objects : edited'[o] = IF o \in objects THEN latest + 1 ELSE edited[o]
  BY <1>1 DEF TypeOK
<1>3. \A v \in Users : pulled'[v] = (IF v = u THEN latest + 1 ELSE pulled[v]) /\ pulled'[v] >= pulled[v]
  BY <1>1 DEF TypeOK
<1>4. ASSUME NEW o \in Objects PROVE EditInv(o)'
  <2> SUFFICES ASSUME NothingLowers(o)
               PROVE  /\ \A v \in Users, b \in BriefcaseIds :
                            b \in briefcases[v] /\ holds[b][o] = "exclusive" => pulled'[v] >= edited'[o]
                      /\ edited'[o] <= releasedAt[o] \/ \E b \in BriefcaseIds : holds[b][o] = "exclusive"
    BY <1>1 DEF EditInv, NothingLowers, LowersTo
  <2>1. CASE o \in objects
    <3>1. mine[u] \in BriefcaseIds /\ mine[u] \in briefcases[u] /\ holds[mine[u]][o] = "exclusive"
      BY <1>1, <2>1, ReliedOn
    <3>2. ASSUME NEW v \in Users, NEW b \in BriefcaseIds, b \in briefcases[v],
                 holds[b][o] = "exclusive"
          PROVE  v = u
      <4>1. b = mine[u]
        BY <1>1, <3>1, <3>2 DEF LockInv
      <4> QED
        BY <1>1, <3>1, <3>2, <4>1 DEF OwnerInv, OwnedBy
    <3>3. edited'[o] = latest + 1 /\ pulled'[u] = latest + 1
      BY <1>2, <1>3, <2>1
    <3> QED
      BY <1>1, <3>1, <3>2, <3>3
  <2>2. CASE o \notin objects
    <3>1. EditInv(o) /\ edited'[o] = edited[o]
      BY <1>2, <2>2 DEF LocksInv
    <3>2. \A v \in Users : pulled'[v] \in Nat /\ pulled'[v] >= pulled[v]
      BY <1>1, <1>3
    <3> QED
      BY <1>1, <3>1, <3>2 DEF EditInv
  <2> QED
    BY <2>1, <2>2
<1> QED
  BY <1>1, <1>2, <1>4, VersionsKeep
-------------------------------------------------------------------------------
(* Every state.                                                            *)

LEMMA NextLocks == LocksInv /\ [Next]_vars => LocksInv'
<1> SUFFICES ASSUME LocksInv, [Next]_vars PROVE LocksInv'
  OBVIOUS
<1>1. ASSUME NEW u \in Users, Call(u) PROVE LocksInv'
  BY <1>1, CallKeeps
<1>2. ASSUME NEW u \in Users, Proceed(u) PROVE LocksInv'
  <2>1. CASE Answer(u)
    BY <2>1, BriefcaseAcquiredKeeps, BriefcaseReleasedKeeps, BriefcasesListedKeeps, LocksUpdatedKeeps,
       LocksListedKeeps, ChunkReleasedKeeps DEF Answer
  <2>2. CASE Resend(u) \/ GiveUp(u)
    BY <2>2, ResendKeeps, GiveUpKeeps
  <2> QED
    BY <1>2, <2>1, <2>2 DEF Proceed
<1>3. ASSUME NEW u \in Users, Pull(u) PROVE LocksInv'
  BY <1>3, PullKeeps
<1>4. ASSUME NEW u \in Users, NEW objects \in SUBSET Objects, Edit(u, objects) PROVE LocksInv'
  BY <1>4, EditKeeps
<1>5. ASSUME NEW r \in stray, Arrive(r) PROVE LocksInv'
  BY <1>5, ArriveKeeps
<1>6. CASE UNCHANGED vars
  <2>1. UNCHANGED <<briefcases, issued, holds, releasedAt, stray, arrived, step, request, retries,
                    calls, known, mine, believed, released, latest, pulled, edited>>
    BY <1>6 DEF vars, service, network, client, versions
  <2>2. TypeOK' /\ OwnerInv' /\ StrayInv' /\ VersionInv' /\ LockInv'
    BY <2>1 DEF LocksInv, TypeOK, OwnerInv, OwnedBy, StrayInv, VersionInv, LockInv, Exists
  <2>3. \A u \in Users : UserInv(u)'
    BY <2>1, BystanderKept DEF LocksInv, Bystander
  <2>4. \A o \in Objects : EditInv(o)'
    BY <2>1, EditsKept DEF LocksInv
  <2> QED
    BY <2>2, <2>3, <2>4 DEF LocksInv
<1> QED
  BY <1>1, <1>2, <1>3, <1>4, <1>5, <1>6 DEF Next

LEMMA AlwaysLocks == Spec => []LocksInv
BY InitLocksInv, NextLocks, PTL DEF Spec

\* Every variable has its type, whatever the service refuses and the network keeps.
THEOREM LocksTypeCorrect == Spec => []TypeOK
<1>1. LocksInv => TypeOK
  BY DEF LocksInv
<1> QED
  BY <1>1, AlwaysLocks, PTL

\* What acquireLocks granted or queryAllLocks told holds at the service until the user gives
\* it up, for any number of users, objects, repeated requests and late arrivals.
THEOREM GrantedLocksAreHeld == Spec => []GrantedMeansHeld
<1>1. LocksInv => GrantedMeansHeld
  <2> SUFFICES ASSUME LocksInv, NEW u \in Users, NEW o \in Objects, mine[u] # NoBriefcase,
                      \A r \in stray : r.briefcase = mine[u] => LowersTo(r, o) >= believed[u][o]
               PROVE  Rank[holds[mine[u]][o]] >= believed[u][o]
    BY DEF GrantedMeansHeld
  <2>1. HeldInv(u) /\ believed[u][o] \in LockStates /\ believed[u][o] <= believed[u][o]
    BY DEF LocksInv, UserInv, TypeOK, LockStates
  <2> QED
    BY <2>1 DEF HeldInv
<1> QED
  BY <1>1, AlwaysLocks, PTL

\* The loop over the chunks of releaseAllLocks returns only when the briefcase has no lock,
\* and it gets none unless a request for locks was left behind.
THEOREM ReleasedLocksAreFree == Spec => []ReleasedMeansFree
<1>1. LocksInv => ReleasedMeansFree
  BY DEF LocksInv, UserInv, FreeInv, ReleasedMeansFree
<1> QED
  BY <1>1, AlwaysLocks, PTL

\* Whoever may edit an object has all that was edited of it: the changeset sent along with a
\* request for locks is the one the briefcase is at.
THEOREM EditsFollowLocks == Spec => []EditsBuildOnEachOther
<1>1. LocksInv => EditsBuildOnEachOther
  <2> SUFFICES ASSUME LocksInv, NEW u \in Users, NEW o \in Objects, believed[u][o] = 2,
                      NothingLowers(o)
               PROVE  pulled[u] >= edited[o]
    BY DEF EditsBuildOnEachOther, NothingLowers
  <2>1. mine[u] \in BriefcaseIds /\ mine[u] \in briefcases[u] /\ holds[mine[u]][o] = "exclusive"
    BY ReliedOn
  <2> QED
    BY <2>1 DEF LocksInv, EditInv
<1> QED
  BY <1>1, AlwaysLocks, PTL

\* Nobody relies on a lock of an object that somebody else relies on exclusively.
ExclusiveExcludes ==
    \A u, v \in Users, o \in Objects :
        believed[u][o] = 2 /\ believed[v][o] # 0 /\ NothingLowers(o) => u = v

\* What two users were told of their locks agrees, at whatever times they were told: as long
\* as no request was left behind that gives up a lock on the object.
THEOREM ExclusiveLocksExclude == Spec => []ExclusiveExcludes
<1>1. LocksInv => ExclusiveExcludes
  <2> SUFFICES ASSUME LocksInv, NEW u \in Users, NEW v \in Users, NEW o \in Objects,
                      believed[u][o] = 2, believed[v][o] # 0, NothingLowers(o)
               PROVE  u = v
    BY DEF ExclusiveExcludes
  <2>1. TypeOK /\ OwnerInv /\ LockInv /\ HeldInv(v) /\ RequestInv(v)
    BY DEF LocksInv, UserInv
  <2>2. mine[u] \in BriefcaseIds /\ holds[mine[u]][o] = "exclusive"
    BY ReliedOn
  <2>3. mine[v] # NoBriefcase /\ mine[v] \in BriefcaseIds
    BY <2>1 DEF RequestInv, TypeOK
  <2>4. Rank[holds[mine[v]][o]] >= 1
    <3>1. believed[v][o] \in LockStates /\ 1 \in LockStates
      BY <2>1 DEF TypeOK, LockStates
    <3>2. 1 <= believed[v][o]
      BY <3>1 DEF LockStates
    <3>3. \A r \in stray : LowersTo(r, o) >= 1
      BY DEF NothingLowers
    <3> QED
      BY <2>1, <2>3, <3>1, <3>2, <3>3 DEF HeldInv
  <2>5. holds[mine[v]][o] # "none"
    BY <2>4, Ranks
  <2>6. mine[u] = mine[v]
    BY <2>1, <2>2, <2>3, <2>5 DEF LockInv
  <2> QED
    BY <2>1, <2>3, <2>6 DEF OwnerInv, OwnedBy
<1> QED
  BY <1>1, AlwaysLocks, PTL
===============================================================================
