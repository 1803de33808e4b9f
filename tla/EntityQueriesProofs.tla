-------------------------- MODULE EntityQueriesProofs --------------------------
(***************************************************************************)
(* Theorems about EntityQueries: its inductive invariant QueriesInv, with  *)
(* the parts each property needs besides it, HeadersInv, NamedInv,         *)
(* TakesInv, WholeInv and QuestionInv, and the properties that follow.     *)
(***************************************************************************)
EXTENDS EntityQueries, FiniteSetTheorems, SequenceTheorems, TLAPS

-------------------------------------------------------------------------------
(* Members in order.                                                       *)

\* One comes before the other, for any two.
TotalOrder(S, before) ==
    /\ \A p \in S : <<p, p>> \notin before
    /\ \A p, q \in S : p = q \/ <<p, q>> \in before \/ <<q, p>> \in before
    /\ \A p, q, r \in S : <<p, q>> \in before /\ <<q, r>> \in before => <<p, r>> \in before

Ahead(S, before, p) == {q \in S : <<q, p>> \in before}

\* How many are ahead of a member tells it from the others, so InOrder has every member
\* at one place.
LEMMA InOrderLists ==
    ASSUME NEW S, IsFiniteSet(S), NEW before, TotalOrder(S, before)
    PROVE  /\ Cardinality(S) \in Nat
           /\ InOrder(S, before) \in [1..Cardinality(S) -> S]
           /\ \A k \in 1..Cardinality(S) :
                  Cardinality(Ahead(S, before, InOrder(S, before)[k])) = k - 1
           /\ \A p \in S : \E k \in 1..Cardinality(S) : InOrder(S, before)[k] = p
           /\ \A i, j \in 1..Cardinality(S) : InOrder(S, before)[i] = InOrder(S, before)[j] => i = j
           /\ \A i, j \in 1..Cardinality(S) : i < j => <<InOrder(S, before)[i], InOrder(S, before)[j]>> \in before
<1> DEFINE n == Cardinality(S)
           A(p) == Ahead(S, before, p)
           s == InOrder(S, before)
           f == [p \in S |-> Cardinality(A(p)) + 1]
<1>1. n \in Nat
  BY FS_CardinalityType
<1>2. ASSUME NEW p \in S
      PROVE  IsFiniteSet(A(p)) /\ Cardinality(A(p)) \in 0..(n - 1)
  <2>1. A(p) \in SUBSET (S \ {p})
    BY DEF Ahead, TotalOrder
  <2>2. IsFiniteSet(S \ {p}) /\ Cardinality(S \ {p}) = n - 1
    BY FS_RemoveElement
  <2>3. IsFiniteSet(A(p)) /\ Cardinality(A(p)) <= n - 1
    BY <2>1, <2>2, FS_Subset
  <2> QED
    BY <2>3, <1>1, FS_CardinalityType
<1>3. ASSUME NEW p \in S, NEW q \in S, <<p, q>> \in before
      PROVE  Cardinality(A(p)) < Cardinality(A(q))
  <2>1. A(p) \union {p} \in SUBSET A(q) /\ p \notin A(p)
    BY <1>3 DEF Ahead, TotalOrder
  <2>2. Cardinality(A(p) \union {p}) = Cardinality(A(p)) + 1
    BY <1>2, <2>1, FS_AddElement
  <2>3. Cardinality(A(p) \union {p}) <= Cardinality(A(q))
    BY <1>2, <2>1, FS_Subset
  <2> QED
    BY <1>2, <2>2, <2>3
<1>4. ASSUME NEW p \in S, NEW q \in S, Cardinality(A(p)) = Cardinality(A(q))
      PROVE  p = q
  <2>1. Cardinality(A(p)) \in Nat /\ Cardinality(A(q)) \in Nat
    BY <1>1, <1>2
  <2>2. <<p, q>> \notin before /\ <<q, p>> \notin before
    BY <1>3, <1>4, <2>1
  <2> QED
    BY <2>2 DEF TotalOrder
<1>5. f \in [S -> 1..n]
  BY <1>1, <1>2
<1>6. f \in Injection(S, 1..n)
  BY <1>2, <1>4, <1>5 DEF Injection, IsInjective
<1>7. IsFiniteSet(1..n) /\ Cardinality(1..n) = n
  BY <1>1, FS_Interval
<1>8. f \in Surjection(S, 1..n)
  BY <1>6, <1>7, FS_Injection
<1>9. ASSUME NEW k \in 1..n
      PROVE  \E p \in S : Cardinality(A(p)) = k - 1
  <2>1. PICK p \in S : f[p] = k
    BY <1>8 DEF Surjection
  <2> QED
    BY <2>1, <1>1, <1>2
<1>10. ASSUME NEW k \in 1..n
       PROVE  s[k] \in S /\ Cardinality(A(s[k])) = k - 1
  <2>1. s[k] = CHOOSE p \in S : Cardinality(A(p)) = k - 1
    BY DEF InOrder, Ahead
  <2> QED
    BY <1>9, <2>1
<1>11. s \in [1..n -> S]
  BY <1>10 DEF InOrder
<1>12. ASSUME NEW p \in S
       PROVE  \E k \in 1..n : s[k] = p
  <2>1. f[p] \in 1..n /\ f[p] - 1 = Cardinality(A(p))
    BY <1>2, <1>5
  <2>2. s[f[p]] = p
    BY <2>1, <1>4, <1>10
  <2> QED
    BY <2>1, <2>2
<1>13. ASSUME NEW i \in 1..n, NEW j \in 1..n, s[i] = s[j]
       PROVE  i = j
  BY <1>1, <1>10, <1>13
<1>14. ASSUME NEW i \in 1..n, NEW j \in 1..n, i < j
       PROVE  <<s[i], s[j]>> \in before
  <2>1. s[i] \in S /\ s[j] \in S /\ s[i] # s[j]
    BY <1>1, <1>10, <1>13, <1>14
  <2>2. <<s[j], s[i]>> \notin before
    <3>1. SUFFICES ASSUME <<s[j], s[i]>> \in before PROVE FALSE
      OBVIOUS
    <3>2. Cardinality(A(s[j])) < Cardinality(A(s[i]))
      BY <2>1, <3>1, <1>3
    <3> QED
      BY <3>2, <1>1, <1>10, <1>14
  <2> QED
    BY <2>1, <2>2 DEF TotalOrder
<1> QED
  BY <1>1, <1>10, <1>11, <1>12, <1>13, <1>14

\* The order of numbers.
LEMMA LessIsTotal ==
    ASSUME NEW S \in SUBSET Nat PROVE TotalOrder(S, Less(S))
BY DEF TotalOrder, Less

\* The greatest of some numbers, and what has the greatest measure of some things.
LEMMA GreatestIsThere ==
    ASSUME NEW S \in SUBSET Nat, IsFiniteSet(S), S # {}
    PROVE  \E p \in S : \A q \in S : q <= p
<1> DEFINE n == Cardinality(S)
           s == InOrder(S, Less(S))
<1>1. TotalOrder(S, Less(S))
  BY LessIsTotal
<1>2. /\ n \in Nat /\ s \in [1..n -> S]
      /\ \A p \in S : \E k \in 1..n : s[k] = p
      /\ \A i, j \in 1..n : i < j => <<s[i], s[j]>> \in Less(S)
  BY <1>1, InOrderLists
<1>3. \A i, j \in 1..n : i < j => s[i] < s[j]
  BY <1>2 DEF Less
<1> HIDE DEF n, s
<1>4. n >= 1
  <2>1. PICK p \in S : TRUE
    OBVIOUS
  <2>2. PICK k \in 1..n : s[k] = p
    BY <1>2
  <2> QED
    BY <2>2, <1>2
<1>5. s[n] \in S /\ \A i \in 1..n : s[i] <= s[n]
  <2>1. n \in 1..n /\ \A i \in 1..n : i < n \/ i = n
    BY <1>2, <1>4
  <2>2. \A i \in 1..n : s[i] \in Nat /\ s[i] \in S
    BY <1>2
  <2>3. ASSUME NEW i \in 1..n PROVE s[i] <= s[n]
    <3>1. CASE i < n
      BY <3>1, <2>1, <2>2, <1>3
    <3>2. CASE i = n
      BY <3>2, <2>2
    <3> QED
      BY <3>1, <3>2, <2>1
  <2> QED
    BY <2>1, <2>2, <2>3
<1> QED
  BY <1>2, <1>5

\* A function to numbers has a greatest value on a finite set.
LEMMA GreatestOf ==
    ASSUME NEW S, IsFiniteSet(S), S # {}, NEW f \in [S -> Nat]
    PROVE  \E p \in S : \A q \in S : f[q] <= f[p]
<1> DEFINE T == {f[p] : p \in S}
<1>1. IsFiniteSet(T)
  <2>1. f \in Surjection(S, T)
    BY DEF Surjection
  <2> QED
    BY <2>1, FS_Surjection
<1>2. T \in SUBSET Nat /\ T # {}
  OBVIOUS
<1>3. PICK t \in T : \A u \in T : u <= t
  BY <1>1, <1>2, GreatestIsThere
<1> QED
  BY <1>3

\* A function on the first n numbers is a sequence of length n.
LEMMA FunctionIsList ==
    ASSUME NEW n \in Nat, NEW V, NEW f \in [1..n -> V]
    PROVE  f \in Seq(V) /\ Len(f) = n /\ DOMAIN f = 1..n
OBVIOUS

\* What is left of a list is what is not taken out of it.
LEMMA WithoutIsList ==
    ASSUME NEW V, NEW list \in Seq(V), NEW n,
           \A i, j \in DOMAIN list : list[i] = list[j] => i = j
    PROVE  LET w == Without(list, n)
           IN  /\ w \in Seq(V)
               /\ \A i \in DOMAIN w : w[i] # n /\ \E j \in DOMAIN list : w[i] = list[j]
               /\ \A j \in DOMAIN list : list[j] # n => \E i \in DOMAIN w : w[i] = list[j]
               /\ \A i, j \in DOMAIN w : w[i] = w[j] => i = j
<1> DEFINE left == {p \in DOMAIN list : list[p] # n}
           s == InOrder(left, Less(left))
           w == [k \in DOMAIN s |-> list[s[k]]]
<1>1. w = Without(list, n)
  BY DEF Without
<1>2. Len(list) \in Nat /\ DOMAIN list = 1..Len(list) /\ \A i \in DOMAIN list : list[i] \in V
  OBVIOUS
<1>3. IsFiniteSet(left) /\ left \in SUBSET Nat
  <2>1. IsFiniteSet(1..Len(list)) /\ left \in SUBSET (1..Len(list))
    BY <1>2, FS_Interval
  <2> QED
    BY <2>1, FS_Subset
<1>4. TotalOrder(left, Less(left))
  BY <1>3, LessIsTotal
<1>in. \A p \in DOMAIN list : list[p] # n <=> p \in left
  OBVIOUS
<1>to. left \subseteq DOMAIN list
  OBVIOUS
<1> HIDE DEF left
<1>5. /\ Cardinality(left) \in Nat
      /\ s \in [1..Cardinality(left) -> left]
      /\ \A p \in left : \E k \in 1..Cardinality(left) : s[k] = p
      /\ \A i, j \in 1..Cardinality(left) : s[i] = s[j] => i = j
  BY <1>3, <1>4, InOrderLists
<1>6. w \in [1..Cardinality(left) -> V]
  BY <1>2, <1>5, <1>to
<1>7. w \in Seq(V) /\ DOMAIN w = 1..Cardinality(left)
  BY <1>5, <1>6, FunctionIsList
<1>8. \A k \in DOMAIN w : s[k] \in left /\ w[k] = list[s[k]]
  BY <1>5
<1> HIDE DEF w, s
<1>9. /\ \A i \in DOMAIN w : w[i] # n /\ \E j \in DOMAIN list : w[i] = list[j]
      /\ \A j \in DOMAIN list : list[j] # n => \E i \in DOMAIN w : w[i] = list[j]
  BY <1>5, <1>7, <1>8, <1>in, <1>to
<1>10. \A i, j \in DOMAIN w : w[i] = w[j] => i = j
  BY <1>5, <1>7, <1>8, <1>to, <1>2
<1> QED
  BY <1>1, <1>7, <1>9, <1>10

-------------------------------------------------------------------------------
(* The service.                                                            *)

Listed == {"iModel", "favorite", "recent", "briefcase", "changeset", "changesetGroup",
           "extendedData", "namedVersion", "user", "releasedLock"}

\* The types of entities that a list or a single request is about.
LEMMA TypesAre == Types = Listed \union {"checkpoint", "permission", "thumbnail"}
<1> DEFINE T == Listed \union {"checkpoint", "permission", "thumbnail"}
<1>1. \A operation \in ListOperations : operation.on \in Listed
  BY DEF Listed, ListOperations, IModelGetMinimalList, IModelGetRepresentationList,
     FavoriteGetMinimalList, FavoriteGetRepresentationList, RecentGetMinimalList,
     RecentGetRepresentationList, BriefcaseGetMinimalList, BriefcaseGetRepresentationList,
     ChangesetGetMinimalList, ChangesetGetRepresentationList, ChangesetGroupGetList,
     ExtendedDataGetList, NamedVersionGetMinimalList, NamedVersionGetRepresentationList,
     UserGetMinimalList, UserGetRepresentationList, LockGetReleasedLockList,
     MinimalList, FullList, PlainList, Operation
<1>2. \A operation \in GetOperations : operation.on \in T
  BY DEF Listed, GetOperations, IModelGetSingle, BriefcaseGetSingle, ChangesetGetSingle,
     ChangesetGroupGetSingle, ExtendedDataGetSingle, NamedVersionGetSingle, CheckpointGetSingle,
     UserGetSingle, UserPermissionGet, ThumbnailDownload, Get, Operation
<1>3. \A on \in Listed : \E operation \in ListOperations : operation.on = on
  <2>1. /\ IModelGetMinimalList \in ListOperations /\ IModelGetMinimalList.on = "iModel"
        /\ FavoriteGetMinimalList \in ListOperations /\ FavoriteGetMinimalList.on = "favorite"
        /\ RecentGetMinimalList \in ListOperations /\ RecentGetMinimalList.on = "recent"
        /\ BriefcaseGetMinimalList \in ListOperations /\ BriefcaseGetMinimalList.on = "briefcase"
        /\ ChangesetGetRepresentationList \in ListOperations /\ ChangesetGetRepresentationList.on = "changeset"
        /\ ChangesetGroupGetList \in ListOperations /\ ChangesetGroupGetList.on = "changesetGroup"
        /\ ExtendedDataGetList \in ListOperations /\ ExtendedDataGetList.on = "extendedData"
        /\ NamedVersionGetMinimalList \in ListOperations /\ NamedVersionGetMinimalList.on = "namedVersion"
        /\ UserGetMinimalList \in ListOperations /\ UserGetMinimalList.on = "user"
        /\ LockGetReleasedLockList \in ListOperations /\ LockGetReleasedLockList.on = "releasedLock"
    BY DEF ListOperations, IModelGetMinimalList, FavoriteGetMinimalList, RecentGetMinimalList,
       BriefcaseGetMinimalList, ChangesetGetRepresentationList, ChangesetGroupGetList, ExtendedDataGetList,
       NamedVersionGetMinimalList, UserGetMinimalList, LockGetReleasedLockList,
       MinimalList, FullList, PlainList, Operation
  <2> QED
    BY <2>1 DEF Listed
<1>4. /\ CheckpointGetSingle \in GetOperations /\ CheckpointGetSingle.on = "checkpoint"
      /\ UserPermissionGet \in GetOperations /\ UserPermissionGet.on = "permission"
      /\ ThumbnailDownload \in GetOperations /\ ThumbnailDownload.on = "thumbnail"
  BY DEF GetOperations, CheckpointGetSingle, UserPermissionGet, ThumbnailDownload, Get, Operation
<1>5. T \subseteq Types
  BY <1>3, <1>4 DEF Types
<1>6. Types \subseteq T
  BY <1>1, <1>2 DEF Types
<1> QED
  BY <1>5, <1>6

\* Every list operation is about a type that the service lists.
LEMMA ListedOperations == \A operation \in ListOperations : operation.on \in Listed
  BY DEF Listed, ListOperations, IModelGetMinimalList, IModelGetRepresentationList,
     FavoriteGetMinimalList, FavoriteGetRepresentationList, RecentGetMinimalList,
     RecentGetRepresentationList, BriefcaseGetMinimalList, BriefcaseGetRepresentationList,
     ChangesetGetMinimalList, ChangesetGetRepresentationList, ChangesetGroupGetList,
     ExtendedDataGetList, NamedVersionGetMinimalList, NamedVersionGetRepresentationList,
     UserGetMinimalList, UserGetRepresentationList, LockGetReleasedLockList,
     MinimalList, FullList, PlainList, Operation

\* The places of a list, for the provers.
LEMMA ListFacts ==
    ASSUME NEW V, NEW s \in Seq(V)
    PROVE  Len(s) \in Nat /\ DOMAIN s = 1..Len(s) /\ \A i \in DOMAIN s : s[i] \in V
OBVIOUS

\* What is stored of a type.
LEMMA Stored ==
    ASSUME NEW now, Sound(now), NEW on \in Types
    PROVE  /\ now.store[on] \in Seq(0..MaxId)
           /\ Len(now.store[on]) \in Nat
           /\ DOMAIN now.store[on] = 1..Len(now.store[on])
           /\ There(now, on) \subseteq 0..MaxId
           /\ on # "checkpoint" => There(now, on) \subseteq Ids
           /\ \A i, j \in DOMAIN now.store[on] : now.store[on][i] = now.store[on][j] => i = j
           /\ \A i \in DOMAIN now.store[on] : now.store[on][i] \in There(now, on)
           /\ \A n \in There(now, on) : \E i \in DOMAIN now.store[on] : now.store[on][i] = n
<1>1. now.store[on] \in Seq(0..MaxId)
  BY DEF Sound, Contents
<1>2. /\ Len(now.store[on]) \in Nat
      /\ DOMAIN now.store[on] = 1..Len(now.store[on])
      /\ \A i \in DOMAIN now.store[on] : now.store[on][i] \in 0..MaxId
  BY <1>1, ListFacts
<1> QED
  BY <1>1, <1>2 DEF Sound, There

\* Every entity has a number to order it by, a named version that of its changeset.
LEMMA Ranked ==
    ASSUME NEW now, Sound(now), NEW on \in Types, NEW i \in DOMAIN now.store[on]
    PROVE  Rank(now, on, now.store[on][i]) \in Nat
<1>1. now.store[on][i] \in 0..MaxId /\ MaxId \in Nat
  BY Stored, QueriesAssumption
<1>2. CASE on = "namedVersion"
  <2>1. now.store[on][i] \in Ids
    BY Stored, <1>2
  <2>2. now.madeOn \in [Ids -> 0..MaxId]
    BY DEF Sound, Contents
  <2> QED
    BY <1>1, <1>2, <2>1, <2>2 DEF Rank
<1> QED
  BY <1>1, <1>2 DEF Rank

\* The order of a listing that begins with the latest leaves no two places undecided.
LEMMA LaterIsTotal ==
    ASSUME NEW now, Sound(now), NEW on \in Types, NEW S \in SUBSET DOMAIN now.store[on]
    PROVE  TotalOrder(S, Later(now, on))
<1> DEFINE places == DOMAIN now.store[on]
           r == [p \in places |-> Rank(now, on, now.store[on][p])]
           later == {pair \in places \X places :
                        \/ r[pair[1]] > r[pair[2]]
                        \/ r[pair[1]] = r[pair[2]] /\ pair[1] < pair[2]}
<1>1. later = Later(now, on)
  BY DEF Later
<1>2. \A p \in places : r[p] \in Nat /\ p \in Nat
  BY Ranked, Stored
<1>3. \A p, q \in S : <<p, q>> \in later <=> r[p] > r[q] \/ (r[p] = r[q] /\ p < q)
  OBVIOUS
<1> HIDE DEF r, later
<1> QED
  BY <1>1, <1>2, <1>3 DEF TotalOrder

\* A list is what passes its filter, in order, each once.
LEMMA ListingOf ==
    ASSUME NEW now, Sound(now), NEW on \in Types, NEW query
    PROVE  LET F == Filtered(now, on, query)
               o == InOrder(F, IF "orderBy" \in DOMAIN query THEN Later(now, on) ELSE Less(F))
               all == Listing(now, on, query)
           IN  /\ F \subseteq DOMAIN now.store[on] /\ IsFiniteSet(F)
               /\ TotalOrder(F, IF "orderBy" \in DOMAIN query THEN Later(now, on) ELSE Less(F))
               /\ Cardinality(F) \in Nat
               /\ o \in [1..Cardinality(F) -> F]
               /\ \A p \in F : \E k \in 1..Cardinality(F) : o[k] = p
               /\ \A i, j \in 1..Cardinality(F) : o[i] = o[j] => i = j
               /\ \A i, j \in 1..Cardinality(F) : i < j =>
                      <<o[i], o[j]>> \in IF "orderBy" \in DOMAIN query THEN Later(now, on) ELSE Less(F)
               /\ all \in Seq(There(now, on)) /\ Len(all) = Cardinality(F)
               /\ all = [k \in 1..Cardinality(F) |-> now.store[on][o[k]]]
<1> DEFINE F == Filtered(now, on, query)
           before == IF "orderBy" \in DOMAIN query THEN Later(now, on) ELSE Less(F)
           o == InOrder(F, before)
           all == Listing(now, on, query)
<1>1. F \subseteq DOMAIN now.store[on] /\ F \subseteq Nat
  BY Stored DEF Filtered
<1>2. IsFiniteSet(F)
  <2>1. IsFiniteSet(DOMAIN now.store[on])
    BY Stored, FS_Interval
  <2> QED
    BY <1>1, <2>1, FS_Subset
<1>3. TotalOrder(F, before)
  <2>1. TotalOrder(F, Less(F))
    BY <1>1, LessIsTotal
  <2>2. TotalOrder(F, Later(now, on))
    BY <1>1, LaterIsTotal
  <2> QED
    BY <2>1, <2>2
<1>4. all = [k \in DOMAIN o |-> now.store[on][o[k]]]
  BY DEF Listing
<1> HIDE DEF F, before
<1>5. /\ Cardinality(F) \in Nat
      /\ o \in [1..Cardinality(F) -> F]
      /\ \A p \in F : \E k \in 1..Cardinality(F) : o[k] = p
      /\ \A i, j \in 1..Cardinality(F) : o[i] = o[j] => i = j
      /\ \A i, j \in 1..Cardinality(F) : i < j => <<o[i], o[j]>> \in before
  BY <1>2, <1>3, InOrderLists
<1>6. all = [k \in 1..Cardinality(F) |-> now.store[on][o[k]]]
  BY <1>4, <1>5
<1>7. all \in [1..Cardinality(F) -> There(now, on)]
  BY <1>1, <1>5, <1>6, Stored
<1>8. all \in Seq(There(now, on)) /\ Len(all) = Cardinality(F)
  BY <1>5, <1>7, FunctionIsList
<1> QED
  BY <1>1, <1>2, <1>3, <1>5, <1>6, <1>8 DEF F, before

\* What no operation of these takes away: whom the service knows, what was pushed, the
\* versions that were named and what they were made on, and checkpoints.
Keeps(now, after) ==
    /\ after.store["user"] = now.store["user"]
    /\ \A on \in {"changeset", "namedVersion", "checkpoint"} : There(now, on) \subseteq There(after, on)
    /\ \A v \in There(now, "namedVersion") : after.madeOn[v] = now.madeOn[v]

\* What may take the place of a list.
Replaceable == {"iModel", "favorite", "recent", "changeset", "changesetGroup", "extendedData", "checkpoint"}

Replaces(now, on, list) ==
    /\ list \in Seq(0..MaxId)
    /\ \A i, j \in DOMAIN list : list[i] = list[j] => i = j
    /\ on # "checkpoint" => \A i \in DOMAIN list : list[i] \in Ids
    /\ on = "iModel" => \A i \in DOMAIN list : list[i] \in There(now, on)
    /\ on = "changeset" => \A i \in DOMAIN list : list[i] = i
    /\ on \in {"changeset", "checkpoint"} => \A n \in There(now, on) : \E i \in DOMAIN list : list[i] = n

Put(now, on, list) == [now EXCEPT !.store[on] = list]

\* A list of a type in place of another.
LEMMA Restored ==
    ASSUME NEW now, Sound(now), NEW on \in Replaceable, NEW list, Replaces(now, on, list),
           NEW after, after = Put(now, on, list)
    PROVE  /\ Sound(after) /\ Keeps(now, after)
           /\ after.store[on] = list /\ \A t \in Types \ {on} : after.store[t] = now.store[t]
           /\ after.names = now.names /\ after.madeOn = now.madeOn
<1>a. /\ on \in {"iModel", "favorite", "recent", "changeset", "changesetGroup", "extendedData", "checkpoint"}
      /\ list \in Seq(0..MaxId)
      /\ \A i, j \in DOMAIN list : list[i] = list[j] => i = j
      /\ on # "checkpoint" => \A i \in DOMAIN list : list[i] \in Ids
      /\ on = "iModel" => \A i \in DOMAIN list : list[i] \in There(now, on)
      /\ on = "changeset" => \A i \in DOMAIN list : list[i] = i
      /\ on \in {"changeset", "checkpoint"} => \A n \in There(now, on) : \E i \in DOMAIN list : list[i] = n
  BY DEF Replaceable, Replaces
<1>1. /\ now \in Contents /\ now.store \in [Types -> Seq(0..MaxId)]
      /\ now.names \in [{"iModel", "namedVersion"} -> [Ids -> Names]]
      /\ now.madeOn \in [Ids -> 0..MaxId]
  BY DEF Sound, Contents
<1>2. on \in Types /\ "user" \in Types /\ "namedVersion" \in Types /\ "changeset" \in Types
      /\ "iModel" \in Types /\ "checkpoint" \in Types
  BY <1>a, TypesAre DEF Listed
<1>3. /\ after.store = [now.store EXCEPT ![on] = list]
      /\ after.names = now.names /\ after.madeOn = now.madeOn
      /\ after \in Contents
  BY <1>a, <1>1, <1>2 DEF Contents, Put
<1>4. after.store[on] = list /\ \A t \in Types \ {on} : after.store[t] = now.store[t]
  BY <1>a, <1>1, <1>2, <1>3
<1>5. /\ There(after, on) = {list[i] : i \in DOMAIN list}
      /\ \A t \in Types \ {on} : There(after, t) = There(now, t)
  BY <1>4 DEF There
<1>6. Keeps(now, after)
  <2>1. after.store["user"] = now.store["user"]
    BY <1>a, <1>2, <1>4
  <2>2. ASSUME NEW t \in {"changeset", "namedVersion", "checkpoint"}
        PROVE  There(now, t) \subseteq There(after, t)
    BY <1>a, <1>2, <1>5
  <2> QED
    BY <2>1, <2>2, <1>3 DEF Keeps
<1>7. \A t \in Types : /\ t # "checkpoint" => There(after, t) \subseteq Ids
                       /\ \A i, j \in DOMAIN after.store[t] : after.store[t][i] = after.store[t][j] => i = j
  <2>1. ASSUME NEW t \in Types \ {on}
        PROVE  /\ t # "checkpoint" => There(after, t) \subseteq Ids
               /\ \A i, j \in DOMAIN after.store[t] : after.store[t][i] = after.store[t][j] => i = j
    <3>1. after.store[t] = now.store[t] /\ There(after, t) = There(now, t)
      BY <1>4, <1>5
    <3>2. /\ t # "checkpoint" => There(now, t) \subseteq Ids
          /\ \A i, j \in DOMAIN now.store[t] : now.store[t][i] = now.store[t][j] => i = j
      BY Stored
    <3> QED
      BY <3>1, <3>2
  <2> QED
    BY <1>a, <2>1, <1>4, <1>5
<1>8. \A i \in DOMAIN after.store["changeset"] : after.store["changeset"][i] = i
  BY <1>a, <1>2, <1>4 DEF Sound
<1>9. \A t \in {"iModel", "namedVersion"} : \A m, n \in There(after, t) :
          after.names[t][m] = after.names[t][n] => m = n
  <2>1. \A t \in {"iModel", "namedVersion"} : There(after, t) \subseteq There(now, t)
    BY <1>a, <1>2, <1>5
  <2> QED
    BY <2>1, <1>3 DEF Sound
<1>10. \A v \in There(after, "namedVersion") : after.madeOn[v] \in There(after, "changeset") \union {0}
  BY <1>a, <1>2, <1>3, <1>5, <1>6 DEF Sound, Keeps
<1>11. There(after, "user") # {}
  BY <1>a, <1>2, <1>5 DEF Sound
<1> QED
  BY <1>3, <1>4, <1>6, <1>7, <1>8, <1>9, <1>10, <1>11 DEF Sound

\* What one operation or another makes of what there is.
LEMMA EffectKinds ==
    ASSUME NEW now, NEW operation \in SendOperations \union {Push}, NEW effect \in Effects(now, operation)
    PROVE  LET on == operation.on
           IN  \/ /\ operation \in {IModelUpdate, NamedVersionUpdate}
                  /\ \E n \in There(now, on), name \in FreeNames(now, on) :
                         effect = <<Renamed(now, on, n, name), n>>
               \/ /\ operation = IModelDelete
                  /\ \E n \in There(now, "iModel") \ {1} :
                         effect = <<Removed(Removed(Removed(now, "iModel", n), "favorite", n), "recent", n), n>>
               \/ /\ operation = FavoriteAdd
                  /\ \E n \in There(now, "iModel") \ There(now, on) : effect = <<Added(now, on, n), n>>
               \/ /\ operation = RecentAdd
                  /\ \E n \in There(now, "iModel") :
                         effect = <<PutFirst(now, on, n), n>>
               \/ /\ operation \in {FavoriteRemove, RecentRemove}
                  /\ \E n \in There(now, on) : effect = <<Removed(now, on, n), n>>
               \/ /\ operation = NamedVersionCreate
                  /\ \E n \in Fresh(now, on), name \in FreeNames(now, on), c \in There(now, "changeset") \union {0} :
                         effect = <<MadeOn(Renamed(Added(now, on, n), on, n, name), n, c), n>>
               \/ /\ operation = CheckpointUpdate
                  /\ \E v \in There(now, "namedVersion") :
                         effect = <<IF now.madeOn[v] \in There(now, on) THEN now
                                    ELSE Added(now, on, now.madeOn[v]), now.madeOn[v]>>
               \/ /\ operation \in {ChangesetGroupCreate, ExtendedDataCreate, Push}
                  /\ \E n \in Fresh(now, on) : effect = <<Added(now, on, n), n>>
               \/ operation = ChangesetGroupUpdate /\ \E n \in There(now, on) : effect = <<now, n>>
               \/ operation = ThumbnailUpload /\ effect = <<now, 1>>
<1> DEFINE on == operation.on
           E1 == {<<Renamed(now, on, n, name), n>> : n \in There(now, on), name \in FreeNames(now, on)}
           E2 == {<<Removed(Removed(Removed(now, "iModel", n), "favorite", n), "recent", n), n>> : n \in There(now, "iModel") \ {1}}
           E3 == {<<Added(now, on, n), n>> : n \in There(now, "iModel") \ There(now, on)}
           E4 == {<<PutFirst(now, on, n), n>> : n \in There(now, "iModel")}
           E5 == {<<Removed(now, on, n), n>> : n \in There(now, on)}
           E6 == {<<MadeOn(Renamed(Added(now, on, n), on, n, name), n, c), n>> :
                     n \in Fresh(now, on), name \in FreeNames(now, on), c \in There(now, "changeset") \union {0}}
           E7 == {<<IF now.madeOn[v] \in There(now, on) THEN now ELSE Added(now, on, now.madeOn[v]), now.madeOn[v]>> :
                     v \in There(now, "namedVersion")}
           E8 == {<<Added(now, on, n), n>> : n \in Fresh(now, on)}
           E9 == {<<now, n>> : n \in There(now, on)}
           E10 == {<<now, 1>>}
<1>1. Effects(now, operation) =
          CASE operation \in {IModelUpdate, NamedVersionUpdate} -> E1
            [] operation = IModelDelete -> E2
            [] operation = FavoriteAdd -> E3
            [] operation = RecentAdd -> E4
            [] operation \in {FavoriteRemove, RecentRemove} -> E5
            [] operation = NamedVersionCreate -> E6
            [] operation = CheckpointUpdate -> E7
            [] operation \in {ChangesetGroupCreate, ExtendedDataCreate, Push} -> E8
            [] operation = ChangesetGroupUpdate -> E9
            [] operation = ThumbnailUpload -> E10
  BY DEF Effects
<1> HIDE DEF E1, E2, E3, E4, E5, E6, E7, E8, E9, E10
<1>2. \/ operation \in {IModelUpdate, NamedVersionUpdate} /\ effect \in E1
      \/ operation = IModelDelete /\ effect \in E2
      \/ operation = FavoriteAdd /\ effect \in E3
      \/ operation = RecentAdd /\ effect \in E4
      \/ operation \in {FavoriteRemove, RecentRemove} /\ effect \in E5
      \/ operation = NamedVersionCreate /\ effect \in E6
      \/ operation = CheckpointUpdate /\ effect \in E7
      \/ operation \in {ChangesetGroupCreate, ExtendedDataCreate, Push} /\ effect \in E8
      \/ operation = ChangesetGroupUpdate /\ effect \in E9
      \/ operation = ThumbnailUpload /\ effect \in E10
  BY <1>1 DEF SendOperations
<1> QED
  BY <1>2 DEF E1, E2, E3, E4, E5, E6, E7, E8, E9, E10

\* The types that the operations change which send.
LEMMA SentOn ==
    /\ IModelUpdate.on = "iModel" /\ NamedVersionUpdate.on = "namedVersion" /\ IModelDelete.on = "iModel"
    /\ FavoriteAdd.on = "favorite" /\ RecentAdd.on = "recent" /\ FavoriteRemove.on = "favorite"
    /\ RecentRemove.on = "recent" /\ NamedVersionCreate.on = "namedVersion" /\ CheckpointUpdate.on = "checkpoint"
    /\ ChangesetGroupCreate.on = "changesetGroup" /\ ExtendedDataCreate.on = "extendedData" /\ Push.on = "changeset"
    /\ ChangesetGroupUpdate.on = "changesetGroup" /\ ThumbnailUpload.on = "thumbnail"
  BY DEF IModelUpdate, NamedVersionUpdate, IModelDelete, FavoriteAdd, RecentAdd, FavoriteRemove, RecentRemove,
     NamedVersionCreate, CheckpointUpdate, ChangesetGroupCreate, ExtendedDataCreate, Push, ChangesetGroupUpdate,
     ThumbnailUpload, Send, Operation

\* An iModel deleted, or no favorite any more, leaves a sound service.
LEMMA RemovedIsSound ==
    ASSUME NEW now, Sound(now), NEW on \in {"iModel", "favorite", "recent"}, NEW n
    PROVE  Sound(Removed(now, on, n)) /\ Keeps(now, Removed(now, on, n))
<1>1. on \in Types
  BY TypesAre DEF Listed
<1>2. PICK list : list = now.store[on]
  OBVIOUS
<1>3. /\ list \in Seq(0..MaxId)
      /\ \A i, j \in DOMAIN list : list[i] = list[j] => i = j
      /\ \A i \in DOMAIN list : list[i] \in There(now, on)
      /\ There(now, on) \subseteq Ids
  BY <1>1, <1>2, Stored
<1>4. PICK w : w = Without(list, n)
  OBVIOUS
<1>5. /\ w \in Seq(0..MaxId)
      /\ \A i \in DOMAIN w : w[i] # n /\ \E j \in DOMAIN list : w[i] = list[j]
      /\ \A i, j \in DOMAIN w : w[i] = w[j] => i = j
  BY <1>3, <1>4, WithoutIsList
<1>6. \A i \in DOMAIN w : w[i] \in There(now, on)
  BY <1>3, <1>5
<1>7. Removed(now, on, n) = Put(now, on, w)
  BY <1>2, <1>4 DEF Removed, Put
<1>8. on \in Replaceable /\ on \notin {"changeset", "checkpoint"}
  BY DEF Replaceable
<1>9. Replaces(now, on, w)
  BY <1>3, <1>5, <1>6, <1>8 DEF Replaces
<1> QED
  BY <1>7, <1>8, <1>9, Restored

\* An iModel added to the recent ones moves to the front and is listed once.
LEMMA PutFirstIsSound ==
    ASSUME NEW now, Sound(now), NEW n \in There(now, "iModel")
    PROVE  Sound(PutFirst(now, "recent", n)) /\ Keeps(now, PutFirst(now, "recent", n))
<1>1. "recent" \in Types /\ "iModel" \in Types
  BY TypesAre DEF Listed
<1>2. PICK list : list = now.store["recent"]
  OBVIOUS
<1>3. /\ list \in Seq(0..MaxId)
      /\ \A i, j \in DOMAIN list : list[i] = list[j] => i = j
      /\ \A i \in DOMAIN list : list[i] \in Ids
  BY <1>1, <1>2, Stored
<1>n. n \in Ids /\ Ids \subseteq 0..MaxId
  <2>1. There(now, "iModel") \subseteq Ids
    BY <1>1, Stored
  <2> QED
    BY <2>1, QueriesAssumption DEF Ids
<1>4. PICK w : w = Without(list, n)
  OBVIOUS
<1>5. /\ w \in Seq(0..MaxId)
      /\ \A i \in DOMAIN w : w[i] # n /\ \E j \in DOMAIN list : w[i] = list[j]
      /\ \A i, j \in DOMAIN w : w[i] = w[j] => i = j
  BY <1>3, <1>4, WithoutIsList
<1>6. PICK s : s = <<n>> \o w
  OBVIOUS
<1>7. /\ s \in Seq(0..MaxId) /\ Len(s) = Len(w) + 1
      /\ Len(w) \in Nat /\ DOMAIN w = 1..Len(w) /\ DOMAIN s = 1..Len(s)
      /\ s[1] = n /\ \A i \in DOMAIN s : i # 1 => i - 1 \in DOMAIN w /\ s[i] = w[i - 1]
  BY <1>3, <1>5, <1>6, <1>n
<1>8. \A i, j \in DOMAIN s : s[i] = s[j] => i = j
  <2>1. \A i \in DOMAIN w : w[i] # n
    BY <1>5
  <2> QED
    BY <2>1, <1>5, <1>7
<1>9. \A i \in DOMAIN s : s[i] \in Ids
  <2>1. \A i \in DOMAIN w : w[i] \in Ids
    BY <1>3, <1>5
  <2> QED
    BY <2>1, <1>7, <1>n
<1>10. PICK on : on = "recent"
  OBVIOUS
<1>11. PutFirst(now, on, n) = Put(now, on, s)
  BY <1>2, <1>4, <1>6, <1>10 DEF PutFirst, Put
<1>12. on \in Replaceable /\ Replaces(now, on, s)
  BY <1>7, <1>8, <1>9, <1>10 DEF Replaceable, Replaces
<1> QED
  BY <1>10, <1>11, <1>12, Restored

\* What is added at the end of a list leaves a sound service, a changeset with the next index.
LEMMA AddedIsSound ==
    ASSUME NEW now, Sound(now),
           NEW on \in {"favorite", "changeset", "changesetGroup", "extendedData", "checkpoint"},
           NEW n \in (0..MaxId) \ There(now, on), on # "checkpoint" => n \in Ids,
           on = "changeset" => n = Len(now.store[on]) + 1
    PROVE  /\ Sound(Added(now, on, n)) /\ Keeps(now, Added(now, on, n))
           /\ There(Added(now, on, n), on) = There(now, on) \union {n}
<1>1. on \in Types
  BY TypesAre DEF Listed
<1>2. PICK list : list = now.store[on]
  OBVIOUS
<1>3. /\ list \in Seq(0..MaxId) /\ Len(list) \in Nat /\ DOMAIN list = 1..Len(list)
      /\ \A i, j \in DOMAIN list : list[i] = list[j] => i = j
      /\ on # "checkpoint" => There(now, on) \subseteq Ids
  BY <1>1, <1>2, Stored
<1>ch. on = "changeset" => \A i \in DOMAIN list : list[i] = i
  BY <1>2 DEF Sound
<1>th. There(now, on) = {list[i] : i \in DOMAIN list}
  BY <1>2 DEF There
<1>4. PICK s : s = Append(list, n)
  OBVIOUS
<1>5. /\ s \in Seq(0..MaxId) /\ DOMAIN s = 1..(Len(list) + 1)
      /\ s[Len(list) + 1] = n /\ \A i \in DOMAIN list : s[i] = list[i]
  BY <1>3, <1>4
<1>6. \A i, j \in DOMAIN s : s[i] = s[j] => i = j
  BY <1>3, <1>5, <1>th
<1>7. {s[i] : i \in DOMAIN s} = There(now, on) \union {n}
  BY <1>3, <1>5, <1>th
<1>8. /\ on # "checkpoint" => \A i \in DOMAIN s : s[i] \in Ids
      /\ on = "changeset" => \A i \in DOMAIN s : s[i] = i
      /\ \A m \in There(now, on) : \E i \in DOMAIN s : s[i] = m
  BY <1>3, <1>5, <1>7, <1>ch, <1>2
<1>9. Added(now, on, n) = Put(now, on, s)
  BY <1>2, <1>4 DEF Added, Put
<1>10. /\ Sound(Added(now, on, n)) /\ Keeps(now, Added(now, on, n))
       /\ Added(now, on, n).store[on] = s
  <2>1. on \in Replaceable /\ Replaces(now, on, s)
    BY <1>5, <1>6, <1>8 DEF Replaceable, Replaces
  <2> QED
    BY <1>9, <2>1, Restored
<1> QED
  BY <1>7, <1>10 DEF There

\* A free name leaves names unique.
LEMMA RenamedIsSound ==
    ASSUME NEW now, Sound(now), NEW on \in {"iModel", "namedVersion"},
           NEW n \in There(now, on), NEW name \in FreeNames(now, on)
    PROVE  /\ Sound(Renamed(now, on, n, name)) /\ Keeps(now, Renamed(now, on, n, name))
           /\ Renamed(now, on, n, name).store = now.store
<1>1. PICK after : after = Renamed(now, on, n, name)
  OBVIOUS
<1>2. /\ now \in Contents /\ now.store \in [Types -> Seq(0..MaxId)]
      /\ now.names \in [{"iModel", "namedVersion"} -> [Ids -> Names]]
      /\ now.madeOn \in [Ids -> 0..MaxId]
  BY DEF Sound, Contents
<1>3. on \in Types /\ n \in Ids /\ name \in Names
  BY TypesAre, Stored DEF Listed, FreeNames
<1>4. /\ after.store = now.store /\ after.madeOn = now.madeOn
      /\ after.names = [now.names EXCEPT ![on][n] = name]
      /\ after \in Contents
  BY <1>1, <1>2, <1>3 DEF Contents, Renamed
<1>5. \A t \in Types : There(after, t) = There(now, t)
  BY <1>4 DEF There
<1>6. \A t \in {"iModel", "namedVersion"} : \A k, m \in There(after, t) :
          after.names[t][k] = after.names[t][m] => k = m
  <2>1. "iModel" \in Types /\ "namedVersion" \in Types
    BY TypesAre DEF Listed
  <2>2. \A t \in {"iModel", "namedVersion"} : \A k \in Ids :
            after.names[t][k] = IF t = on /\ k = n THEN name ELSE now.names[t][k]
    BY <1>2, <1>3, <1>4
  <2>3. \A k \in There(now, on) : now.names[on][k] # name
    BY DEF FreeNames
  <2>4. \A t \in {"iModel", "namedVersion"} : There(now, t) \subseteq Ids
    BY <2>1, Stored
  <2> QED
    BY <2>1, <2>2, <2>3, <2>4, <1>5 DEF Sound
<1>7. "user" \in Types /\ "namedVersion" \in Types /\ "changeset" \in Types /\ "checkpoint" \in Types
  BY TypesAre DEF Listed
<1>8. Sound(after)
  BY <1>4, <1>5, <1>6, <1>7 DEF Sound
<1>9. Keeps(now, after)
  BY <1>4, <1>5, <1>7 DEF Keeps
<1> QED
  BY <1>1, <1>4, <1>8, <1>9

\* A named version that is created has a free name and a changeset that was pushed.
LEMMA VersionIsSound ==
    ASSUME NEW now, Sound(now), NEW n \in Ids \ There(now, "namedVersion"),
           NEW name \in FreeNames(now, "namedVersion"), NEW c \in There(now, "changeset") \union {0}
    PROVE  LET after == MadeOn(Renamed(Added(now, "namedVersion", n), "namedVersion", n, name), n, c)
           IN  /\ Sound(after) /\ Keeps(now, after) /\ n \in There(after, "namedVersion")
<1>1. PICK after : after = MadeOn(Renamed(Added(now, "namedVersion", n), "namedVersion", n, name), n, c)
  OBVIOUS
<1>2. /\ now \in Contents /\ now.store \in [Types -> Seq(0..MaxId)]
      /\ now.names \in [{"iModel", "namedVersion"} -> [Ids -> Names]]
      /\ now.madeOn \in [Ids -> 0..MaxId]
  BY DEF Sound, Contents
<1>3. /\ "user" \in Types /\ "namedVersion" \in Types /\ "changeset" \in Types
      /\ "checkpoint" \in Types /\ "iModel" \in Types
      /\ name \in Names
  BY TypesAre DEF Listed, FreeNames
<1>4. PICK list : list = now.store["namedVersion"]
  OBVIOUS
<1>5. /\ list \in Seq(0..MaxId) /\ Len(list) \in Nat /\ DOMAIN list = 1..Len(list)
      /\ \A i, j \in DOMAIN list : list[i] = list[j] => i = j
      /\ There(now, "namedVersion") \subseteq Ids
  BY <1>3, <1>4, Stored
<1>th. There(now, "namedVersion") = {list[i] : i \in DOMAIN list}
  BY <1>4 DEF There
<1>c. Ids \subseteq 0..MaxId /\ c \in 0..MaxId
  <2>1. There(now, "changeset") \subseteq Ids
    BY <1>3, Stored
  <2> QED
    BY <2>1, QueriesAssumption DEF Ids
<1>6. PICK s : s = Append(list, n)
  OBVIOUS
<1>7. /\ s \in Seq(0..MaxId) /\ DOMAIN s = 1..(Len(list) + 1)
      /\ s[Len(list) + 1] = n /\ \A i \in DOMAIN list : s[i] = list[i]
  BY <1>5, <1>6, <1>c
<1>8. PICK added : added = Added(now, "namedVersion", n)
  OBVIOUS
<1>9. /\ added.store = [now.store EXCEPT !["namedVersion"] = s] /\ added.names = now.names
      /\ added.madeOn = now.madeOn /\ added \in Contents
  BY <1>2, <1>3, <1>4, <1>6, <1>7, <1>8 DEF Added, Contents
<1>10. PICK renamed : renamed = Renamed(added, "namedVersion", n, name)
  OBVIOUS
<1>11. /\ renamed.store = added.store /\ renamed.madeOn = added.madeOn
       /\ renamed.names = [now.names EXCEPT !["namedVersion"][n] = name]
       /\ renamed \in Contents
  BY <1>3, <1>9, <1>10 DEF Renamed, Contents
<1>12. /\ after.store = [now.store EXCEPT !["namedVersion"] = s]
       /\ after.names = [now.names EXCEPT !["namedVersion"][n] = name]
       /\ after.madeOn = [now.madeOn EXCEPT ![n] = c]
       /\ after \in Contents
  <2>1. after = MadeOn(renamed, n, c)
    BY <1>1, <1>8, <1>10
  <2> QED
    BY <2>1, <1>c, <1>9, <1>11 DEF MadeOn, Contents
<1>13. /\ after.store["namedVersion"] = s
       /\ \A t \in Types \ {"namedVersion"} : after.store[t] = now.store[t]
  BY <1>2, <1>3, <1>12
<1>14. /\ There(after, "namedVersion") = There(now, "namedVersion") \union {n}
       /\ \A t \in Types \ {"namedVersion"} : There(after, t) = There(now, t)
  <2>1. {s[i] : i \in DOMAIN s} = There(now, "namedVersion") \union {n}
    BY <1>5, <1>7, <1>th
  <2> QED
    BY <2>1, <1>13 DEF There
<1>15. \A v \in There(now, "namedVersion") : after.madeOn[v] = now.madeOn[v]
  BY <1>2, <1>5, <1>12
<1>16. after.madeOn[n] = c
  BY <1>2, <1>12
<1>17. Keeps(now, after)
  BY <1>3, <1>13, <1>14, <1>15 DEF Keeps
<1>18. \A t \in Types : /\ t # "checkpoint" => There(after, t) \subseteq Ids
                        /\ \A i, j \in DOMAIN after.store[t] : after.store[t][i] = after.store[t][j] => i = j
  <2>1. ASSUME NEW t \in Types \ {"namedVersion"}
        PROVE  /\ t # "checkpoint" => There(after, t) \subseteq Ids
               /\ \A i, j \in DOMAIN after.store[t] : after.store[t][i] = after.store[t][j] => i = j
    BY <1>13, <1>14, Stored
  <2>2. \A i, j \in DOMAIN s : s[i] = s[j] => i = j
    BY <1>5, <1>7, <1>th
  <2> QED
    BY <2>1, <2>2, <1>5, <1>13, <1>14
<1>19. \A t \in {"iModel", "namedVersion"} : \A k, m \in There(after, t) :
           after.names[t][k] = after.names[t][m] => k = m
  <2>1. \A k \in Ids : /\ after.names["iModel"][k] = now.names["iModel"][k]
                       /\ after.names["namedVersion"][k] = IF k = n THEN name ELSE now.names["namedVersion"][k]
    BY <1>2, <1>12
  <2>2. \A k \in There(now, "namedVersion") : now.names["namedVersion"][k] # name
    BY DEF FreeNames
  <2>3. There(now, "iModel") \subseteq Ids
    BY <1>3, Stored
  <2>4. \A k, m \in There(after, "iModel") : after.names["iModel"][k] = after.names["iModel"][m] => k = m
    BY <1>3, <1>14, <2>1, <2>3 DEF Sound
  <2>5. \A k, m \in There(now, "namedVersion") \union {n} :
            after.names["namedVersion"][k] = after.names["namedVersion"][m] => k = m
    BY <1>5, <2>1, <2>2 DEF Sound
  <2> QED
    BY <1>14, <2>4, <2>5
<1>20. \A v \in There(after, "namedVersion") : after.madeOn[v] \in There(after, "changeset") \union {0}
  BY <1>3, <1>14, <1>15, <1>16 DEF Sound
<1>21. \A i \in DOMAIN after.store["changeset"] : after.store["changeset"][i] = i
  BY <1>3, <1>13 DEF Sound
<1>22. There(after, "user") # {}
  BY <1>3, <1>14 DEF Sound
<1>23. Sound(after)
  BY <1>12, <1>18, <1>19, <1>20, <1>21, <1>22 DEF Sound
<1> QED
  BY <1>1, <1>14, <1>17, <1>23

\* Operations whose answer has no functions attached.
LEMMA SentAttached ==
    /\ IModelDelete.attached = {} /\ FavoriteAdd.attached = {} /\ RecentAdd.attached = {}
    /\ FavoriteRemove.attached = {} /\ RecentRemove.attached = {} /\ CheckpointUpdate.attached = {}
    /\ ExtendedDataCreate.attached = {} /\ Push.attached = {} /\ ThumbnailUpload.attached = {}
  BY DEF IModelDelete, FavoriteAdd, RecentAdd, FavoriteRemove, RecentRemove, CheckpointUpdate,
     ExtendedDataCreate, Push, ThumbnailUpload, Send, Operation

\* Nothing done keeps what a link may stand for.
LEMMA KeepsAll ==
    ASSUME NEW now PROVE Keeps(now, now)
  BY DEF Keeps

\* Changesets are numbered as they come.
LEMMA Pushed ==
    ASSUME NEW now, Sound(now)
    PROVE  /\ Len(now.store["changeset"]) \in 0..MaxId
           /\ There(now, "changeset") = 1..Len(now.store["changeset"])
           /\ \A n \in Fresh(now, "changeset") : n = Len(now.store["changeset"]) + 1
<1>1. "changeset" \in Types
  BY TypesAre DEF Listed
<1>2. PICK list : list = now.store["changeset"]
  OBVIOUS
<1>3. /\ Len(list) \in Nat /\ DOMAIN list = 1..Len(list) /\ There(now, "changeset") \subseteq Ids
  BY <1>1, <1>2, Stored
<1>4. \A i \in DOMAIN list : list[i] = i
  BY <1>2 DEF Sound
<1>5. There(now, "changeset") = 1..Len(list)
  BY <1>2, <1>3, <1>4 DEF There
<1>6. Len(list) <= MaxId
  <2>1. CASE Len(list) = 0
    BY <2>1, QueriesAssumption
  <2>2. CASE Len(list) # 0
    <3>1. Len(list) \in There(now, "changeset")
      BY <1>3, <1>5, <2>2
    <3> QED
      BY <3>1, <1>3, QueriesAssumption DEF Ids
  <2> QED
    BY <2>1, <2>2
<1>7. ASSUME NEW n \in Fresh(now, "changeset")
      PROVE  n = Len(list) + 1
  <2>1. n \in Ids \ There(now, "changeset") /\ \A m \in Ids \ There(now, "changeset") : n <= m
    BY DEF Fresh
  <2>2. n \in Nat /\ n > Len(list) /\ n <= MaxId
    BY <2>1, <1>3, <1>5, QueriesAssumption DEF Ids
  <2>3. Len(list) + 1 \in Ids \ There(now, "changeset")
    BY <2>2, <1>3, <1>5, QueriesAssumption DEF Ids
  <2>4. n <= Len(list) + 1
    BY <2>1, <2>3
  <2> QED
    BY <2>2, <2>4, <1>3
<1> QED
  BY <1>2, <1>3, <1>5, <1>6, <1>7, QueriesAssumption

\* Whatever is sent leaves a sound service, and what links may stand for stays there.
LEMMA EffectsKeep ==
    ASSUME NEW now, Sound(now),
           NEW operation \in SendOperations \union {Push}, NEW effect \in Effects(now, operation)
    PROVE  /\ Sound(effect[1]) /\ Keeps(now, effect[1]) /\ effect[2] \in 0..MaxId
           /\ operation.attached # {} => effect[2] \in There(effect[1], operation.on)
<1> DEFINE on == operation.on
           Goal == /\ Sound(effect[1]) /\ Keeps(now, effect[1]) /\ effect[2] \in 0..MaxId
                   /\ operation.attached # {} => effect[2] \in There(effect[1], operation.on)
<1>0. /\ {"iModel", "favorite", "recent", "namedVersion", "changeset", "changesetGroup",
          "extendedData", "checkpoint", "thumbnail"} \subseteq Types
      /\ Ids \subseteq 0..MaxId
  BY TypesAre, QueriesAssumption DEF Listed, Ids
<1>t. \A t \in Types : There(now, t) \subseteq 0..MaxId
  BY Stored
<1>1. CASE operation \in {IModelUpdate, NamedVersionUpdate}
           /\ \E n \in There(now, on), name \in FreeNames(now, on) : effect = <<Renamed(now, on, n, name), n>>
  <2>1. PICK n \in There(now, on), name \in FreeNames(now, on) : effect = <<Renamed(now, on, n, name), n>>
    BY <1>1
  <2>2. on \in {"iModel", "namedVersion"}
    BY <1>1, SentOn
  <2>3. /\ Sound(Renamed(now, on, n, name)) /\ Keeps(now, Renamed(now, on, n, name))
        /\ Renamed(now, on, n, name).store = now.store
    BY <2>2, RenamedIsSound
  <2>4. n \in There(Renamed(now, on, n, name), on)
    BY <2>3 DEF There
  <2>5. n \in 0..MaxId
    BY <2>2, <1>0, <1>t
  <2> QED
    BY <2>1, <2>3, <2>4, <2>5
<1>2. CASE operation = IModelDelete
           /\ \E n \in There(now, "iModel") \ {1} :
                 effect = <<Removed(Removed(Removed(now, "iModel", n), "favorite", n), "recent", n), n>>
  <2>1. PICK n \in There(now, "iModel") \ {1} :
            effect = <<Removed(Removed(Removed(now, "iModel", n), "favorite", n), "recent", n), n>>
    BY <1>2
  <2>2. PICK a : a = Removed(now, "iModel", n)
    OBVIOUS
  <2>3. PICK b : b = Removed(a, "favorite", n)
    OBVIOUS
  <2>4. PICK c : c = Removed(b, "recent", n)
    OBVIOUS
  <2>5. Sound(a) /\ Keeps(now, a)
    BY <2>2, RemovedIsSound
  <2>6. Sound(b) /\ Keeps(a, b)
    BY <2>3, <2>5, RemovedIsSound
  <2>7. Sound(c) /\ Keeps(b, c)
    BY <2>4, <2>6, RemovedIsSound
  <2>8. Keeps(now, c)
    BY <2>5, <2>6, <2>7 DEF Keeps
  <2>9. effect[1] = c /\ effect[2] = n
    BY <2>1, <2>2, <2>3, <2>4
  <2> QED
    BY <2>7, <2>8, <2>9, <1>2, <1>0, <1>t, SentAttached
<1>3. CASE operation = FavoriteAdd
           /\ \E n \in There(now, "iModel") \ There(now, on) : effect = <<Added(now, on, n), n>>
  <2>1. PICK n \in There(now, "iModel") \ There(now, on) : effect = <<Added(now, on, n), n>>
    BY <1>3
  <2>2. on = "favorite"
    BY <1>3, SentOn
  <2>3. n \in Ids /\ n \in 0..MaxId
    BY <1>0, Stored
  <2>4. Sound(Added(now, on, n)) /\ Keeps(now, Added(now, on, n))
    BY <2>1, <2>2, <2>3, AddedIsSound
  <2> QED
    BY <2>1, <2>3, <2>4, <1>3, SentAttached
<1>4. CASE operation = RecentAdd /\ \E n \in There(now, "iModel") : effect = <<PutFirst(now, on, n), n>>
  <2>1. PICK n \in There(now, "iModel") : effect = <<PutFirst(now, on, n), n>>
    BY <1>4
  <2>2. on = "recent"
    BY <1>4, SentOn
  <2>3. Sound(PutFirst(now, on, n)) /\ Keeps(now, PutFirst(now, on, n))
    BY <2>2, PutFirstIsSound
  <2> QED
    BY <2>1, <2>3, <1>4, <1>0, <1>t, SentAttached
<1>5. CASE operation \in {FavoriteRemove, RecentRemove}
           /\ \E n \in There(now, on) : effect = <<Removed(now, on, n), n>>
  <2>1. PICK n \in There(now, on) : effect = <<Removed(now, on, n), n>>
    BY <1>5
  <2>2. on \in {"favorite", "recent"}
    BY <1>5, SentOn
  <2>3. Sound(Removed(now, on, n)) /\ Keeps(now, Removed(now, on, n))
    BY <2>2, RemovedIsSound
  <2>4. n \in 0..MaxId
    BY <2>2, <1>0, <1>t
  <2> QED
    BY <2>1, <2>3, <2>4, <1>5, SentAttached
<1>6. CASE operation = NamedVersionCreate
           /\ \E n \in Fresh(now, on), name \in FreeNames(now, on), c \in There(now, "changeset") \union {0} :
                 effect = <<MadeOn(Renamed(Added(now, on, n), on, n, name), n, c), n>>
  <2>1. PICK n \in Fresh(now, on), name \in FreeNames(now, on), c \in There(now, "changeset") \union {0} :
            effect = <<MadeOn(Renamed(Added(now, on, n), on, n, name), n, c), n>>
    BY <1>6
  <2>2. on = "namedVersion"
    BY <1>6, SentOn
  <2>3. n \in Ids \ There(now, "namedVersion") /\ name \in FreeNames(now, "namedVersion")
    BY <2>2 DEF Fresh
  <2>4. PICK after : after = MadeOn(Renamed(Added(now, "namedVersion", n), "namedVersion", n, name), n, c)
    OBVIOUS
  <2>5. Sound(after) /\ Keeps(now, after) /\ n \in There(after, "namedVersion")
    BY <2>3, <2>4, VersionIsSound
  <2>6. effect = <<after, n>>
    BY <2>1, <2>2, <2>4
  <2> QED
    BY <2>2, <2>3, <2>5, <2>6, <1>0
<1>7. CASE operation = CheckpointUpdate
           /\ \E v \in There(now, "namedVersion") :
                 effect = <<IF now.madeOn[v] \in There(now, on) THEN now
                            ELSE Added(now, on, now.madeOn[v]), now.madeOn[v]>>
  <2>1. PICK v \in There(now, "namedVersion") :
            effect = <<IF now.madeOn[v] \in There(now, on) THEN now
                       ELSE Added(now, on, now.madeOn[v]), now.madeOn[v]>>
    BY <1>7
  <2>2. on = "checkpoint"
    BY <1>7, SentOn
  <2>3. PICK c : c = now.madeOn[v]
    OBVIOUS
  <2>4. c \in 0..MaxId
    <3>1. v \in Ids
      BY <1>0, Stored
    <3> QED
      BY <3>1, <2>3 DEF Sound, Contents
  <2>5. CASE c \in There(now, on)
    BY <2>1, <2>3, <2>4, <2>5, <1>7, KeepsAll, SentAttached
  <2>6. CASE c \notin There(now, on)
    <3>1. Sound(Added(now, on, c)) /\ Keeps(now, Added(now, on, c))
      BY <2>2, <2>4, <2>6, AddedIsSound
    <3> QED
      BY <3>1, <2>1, <2>3, <2>4, <2>6, <1>7, SentAttached
  <2> QED
    BY <2>5, <2>6
<1>8. CASE operation \in {ChangesetGroupCreate, ExtendedDataCreate, Push}
           /\ \E n \in Fresh(now, on) : effect = <<Added(now, on, n), n>>
  <2>1. PICK n \in Fresh(now, on) : effect = <<Added(now, on, n), n>>
    BY <1>8
  <2>2. on \in {"changeset", "changesetGroup", "extendedData"}
    BY <1>8, SentOn
  <2>3. n \in Ids /\ n \in (0..MaxId) \ There(now, on)
    BY <1>0 DEF Fresh
  <2>4. on = "changeset" => n = Len(now.store[on]) + 1
    BY <2>1, Pushed
  <2>5. /\ Sound(Added(now, on, n)) /\ Keeps(now, Added(now, on, n))
        /\ There(Added(now, on, n), on) = There(now, on) \union {n}
    BY <2>2, <2>3, <2>4, AddedIsSound
  <2> QED
    BY <2>1, <2>3, <2>5
<1>9. CASE operation = ChangesetGroupUpdate /\ \E n \in There(now, on) : effect = <<now, n>>
  <2>1. on = "changesetGroup"
    BY <1>9, SentOn
  <2> QED
    BY <2>1, <1>9, <1>0, <1>t, KeepsAll
<1>10. CASE operation = ThumbnailUpload /\ effect = <<now, 1>>
  <2>1. 1 \in 0..MaxId
    <3>1. MaxId # 0
      <4>1. There(now, "user") # {} /\ There(now, "user") \subseteq Ids
        BY Stored, TypesAre DEF Sound, Listed
      <4> QED
        BY <4>1, QueriesAssumption DEF Ids
    <3> QED
      BY <3>1, QueriesAssumption
  <2> QED
    BY <2>1, <1>10, KeepsAll, SentAttached
<1> QED
  <2> HIDE DEF Goal, on
  <2>1. Goal
    BY <1>1, <1>2, <1>3, <1>4, <1>5, <1>6, <1>7, <1>8, <1>9, <1>10, EffectKinds DEF Goal, on
  <2> QED
    BY <2>1 DEF Goal

-------------------------------------------------------------------------------
(* Operations, queries and pages.                                          *)

\* What the operations that send are about, and what their answers have attached.
LEMMA SentTypes ==
    \A operation \in SendOperations :
        /\ operation.verb \notin {"list", "get"} /\ operation.on \in Types
        /\ operation.on = "namedVersion" => operation \in {NamedVersionCreate, NamedVersionUpdate}
        /\ operation.attached \subseteq {"getCreator", "getChangeset"}
        /\ "getChangeset" \in operation.attached => operation.on = "namedVersion"
<1>1. /\ {"iModel", "favorite", "recent", "namedVersion", "changesetGroup", "extendedData",
          "checkpoint", "thumbnail"} \subseteq Types
  BY TypesAre DEF Listed
<1> QED
  BY <1>1 DEF SendOperations, IModelUpdate, IModelDelete, FavoriteAdd, FavoriteRemove, RecentAdd, RecentRemove,
     ChangesetGroupCreate, ChangesetGroupUpdate, ExtendedDataCreate, NamedVersionCreate, NamedVersionUpdate,
     CheckpointUpdate, ThumbnailUpload, Send, Operation, IModelCallbacks, ChangesetGroupCallbacks,
     NamedVersionCallbacks

AttachedNames == {"getCreator", "getOwner", "getChangeset", "getNamedVersion", "getCheckpoint",
                  "getCurrentOrPrecedingCheckpoint"}

\* What the list operations are about, and what the entities of their pages have attached.
LEMMA ListTypes ==
    \A operation \in ListOperations :
        /\ operation.verb = "list" /\ operation.attached \subseteq AttachedNames
        /\ "getChangeset" \in operation.attached => operation.on = "namedVersion"
  BY DEF ListOperations, IModelGetMinimalList, IModelGetRepresentationList,
     FavoriteGetMinimalList, FavoriteGetRepresentationList, RecentGetMinimalList,
     RecentGetRepresentationList, BriefcaseGetMinimalList, BriefcaseGetRepresentationList,
     ChangesetGetMinimalList, ChangesetGetRepresentationList, ChangesetGroupGetList,
     ExtendedDataGetList, NamedVersionGetMinimalList, NamedVersionGetRepresentationList,
     UserGetMinimalList, UserGetRepresentationList, LockGetReleasedLockList,
     MinimalList, FullList, PlainList, Operation, AttachedNames, IModelCallbacks, BriefcaseCallbacks,
     MinimalChangesetCallbacks, ChangesetCallbacks, NamedVersionCallbacks, ChangesetGroupCallbacks

\* What the other operations are about, and what the entities they return have attached.
LEMMA GetTypes ==
    \A operation \in GetOperations :
        /\ operation.verb = "get" /\ operation.attached \subseteq AttachedNames
        /\ "getChangeset" \in operation.attached => operation.on = "namedVersion"
        /\ operation.on \in Types
        /\ operation.on = "checkpoint" <=> operation = CheckpointGetSingle
        /\ operation.on = "changeset" <=> operation = ChangesetGetSingle
        /\ operation = CheckpointGetSingle => operation.attached = {}
  BY TypesAre DEF Listed, GetOperations, IModelGetSingle, BriefcaseGetSingle, ChangesetGetSingle,
     ChangesetGroupGetSingle, ExtendedDataGetSingle, NamedVersionGetSingle, CheckpointGetSingle,
     UserGetSingle, UserPermissionGet, ThumbnailDownload, Get, Operation, AttachedNames, IModelCallbacks,
     BriefcaseCallbacks, MinimalChangesetCallbacks, ChangesetCallbacks, NamedVersionCallbacks, ChangesetGroupCallbacks

\* The kind of an operation is told by its verb.
LEMMA Verbs ==
    ASSUME NEW operation \in Operations
    PROVE  /\ operation.verb = "list" <=> operation \in ListOperations
           /\ operation.verb = "get" <=> operation \in GetOperations
           /\ operation \in SendOperations => operation \notin ListOperations \union GetOperations
           /\ operation \in ListOperations => operation \notin GetOperations
           /\ operation.on \in Types /\ operation.attached \subseteq AttachedNames
           /\ "getChangeset" \in operation.attached => operation.on = "namedVersion"
<1>1. /\ Listed \subseteq Types /\ {"getCreator", "getChangeset"} \subseteq AttachedNames
  BY TypesAre DEF AttachedNames
<1> QED
  BY <1>1, SentTypes, ListTypes, GetTypes, ListedOperations DEF Operations

\* The attached functions, with the links they follow.
LEMMA AttachedAre ==
    /\ DOMAIN AttachedFunction = AttachedNames
    /\ \A f \in AttachedNames :
           /\ AttachedFunction[f].operation \in GetOperations
           /\ AttachedFunction[f].link \in {"creator", "owner", "changeset", "namedVersion", "checkpoint",
                                            "currentOrPrecedingCheckpoint"}
    /\ AttachedFunction["getCreator"] = GetCreator /\ AttachedFunction["getOwner"] = GetOwner
    /\ AttachedFunction["getChangeset"] = GetChangeset /\ AttachedFunction["getNamedVersion"] = GetNamedVersion
    /\ AttachedFunction["getCheckpoint"] = GetCheckpoint
    /\ AttachedFunction["getCurrentOrPrecedingCheckpoint"] = GetCurrentOrPrecedingCheckpoint
<1>1. UserGetSingle \in GetOperations /\ ChangesetGetSingle \in GetOperations
      /\ NamedVersionGetSingle \in GetOperations /\ CheckpointGetSingle \in GetOperations
  BY DEF GetOperations
<1> HIDE DEF GetOperations
<1>2. /\ DOMAIN AttachedFunction = AttachedNames
      /\ AttachedFunction["getCreator"] = GetCreator /\ AttachedFunction["getOwner"] = GetOwner
      /\ AttachedFunction["getChangeset"] = GetChangeset /\ AttachedFunction["getNamedVersion"] = GetNamedVersion
      /\ AttachedFunction["getCheckpoint"] = GetCheckpoint
      /\ AttachedFunction["getCurrentOrPrecedingCheckpoint"] = GetCurrentOrPrecedingCheckpoint
  BY DEF AttachedFunction, AttachedNames
<1>3. \A f \in AttachedNames :
           /\ AttachedFunction[f].operation \in GetOperations
           /\ AttachedFunction[f].link \in {"creator", "owner", "changeset", "namedVersion", "checkpoint",
                                            "currentOrPrecedingCheckpoint"}
  BY <1>1, <1>2 DEF AttachedNames, GetCreator, GetOwner, GetChangeset, GetNamedVersion, GetCheckpoint,
     GetCurrentOrPrecedingCheckpoint
<1> QED
  BY <1>2, <1>3

\* No parameters are no query string.
LEMMA NoQuery == FormQueryString(<<>>) = <<>>
<1>1. DOMAIN <<>> = {}
  OBVIOUS
<1>2. FormQueryString(<<>>) = [key \in {} |-> <<>>[key][1]]
  BY <1>1 DEF FormQueryString
<1> QED
  BY <1>1, <1>2

\* How many entities a page has is a number.
LEMMA TopIsNumber ==
    ASSUME NEW query \in AnyQuery, "top" \in DOMAIN query
    PROVE  query.top \in Nat
<1>1. PICK params \in {<<>>, ByChangesetIndex} \union {list.params : list \in Lists}
                          \union {[name |-> q.name] : q \in Questions}
                          \union {ToChangesetRangeUrlParams(q.range) : q \in Questions} :
          query = FormQueryString(params)
  BY DEF AnyQuery
<1>2. "top" \in DOMAIN params /\ params.top # <<>> /\ query.top = params.top[1]
  BY <1>1 DEF FormQueryString
<1>3. params.top \in Seq(Nat)
  <2>1. CASE params = <<>>
    BY <2>1, <1>2
  <2>2. CASE params = ByChangesetIndex
    BY <2>2 DEF ByChangesetIndex
  <2>3. CASE params \in {list.params : list \in Lists}
    BY <2>3, <1>2, QueriesAssumption
  <2>4. CASE params \in {[name |-> q.name] : q \in Questions}
    BY <2>4, <1>2
  <2>5. CASE params \in {ToChangesetRangeUrlParams(q.range) : q \in Questions}
    BY <2>5, <1>2 DEF ToChangesetRangeUrlParams
  <2> QED
    BY <1>1, <2>1, <2>2, <2>3, <2>4, <2>5
<1> QED
  BY <1>2, <1>3

\* A page is what the list has from the place asked for on, and its link leads to the place
\* after it; without a link there is no more.
LEMMA PageIs ==
    ASSUME NEW now, Sound(now), NEW on \in Listed, NEW query \in AnyQuery, NEW skip \in Nat
    PROVE  LET all == Listing(now, on, query)
               page == PageOf(now, on, query, skip)
           IN  /\ all \in Seq(Ids) /\ page.entities \in Seq(Ids)
               /\ page.next \subseteq {skip + Len(page.entities)}
               /\ page.next = {} => skip + Len(page.entities) >= Len(all)
               /\ skip <= Len(all) => skip + Len(page.entities) <= Len(all)
               /\ \A i \in 1..Len(page.entities) :
                      /\ skip + i \in 1..Len(all) /\ page.entities[i] = all[skip + i]
                      /\ page.entities[i] \in There(now, on)
<1> DEFINE page == PageOf(now, on, query, skip)
<1>1. PICK all : all = Listing(now, on, query)
  OBVIOUS
<1>2. PICK size : size = IF "top" \in DOMAIN query THEN query.top ELSE PageSize
  OBVIOUS
<1>3. size \in Nat
  BY <1>2, TopIsNumber, QueriesAssumption
<1>4. on \in Types /\ on # "checkpoint"
  BY TypesAre DEF Listed
<1>5. all \in Seq(There(now, on)) /\ There(now, on) \subseteq Ids
  <2>1. all \in Seq(There(now, on))
    BY <1>1, <1>4, ListingOf
  <2> QED
    BY <2>1, <1>4, Stored
<1>6. /\ all \in Seq(Ids) /\ Len(all) \in Nat /\ \A i \in 1..Len(all) : all[i] \in There(now, on)
  BY <1>5
<1>7. page = IF skip + size < Len(all)
             THEN [entities |-> SubSeq(all, skip + 1, skip + size), next |-> {skip + size}]
             ELSE [entities |-> SubSeq(all, skip + 1, Len(all)), next |-> {}]
  BY <1>1, <1>2 DEF PageOf
<1> HIDE DEF page
<1>8. CASE skip + size < Len(all)
  <2>1. page.entities = SubSeq(all, skip + 1, skip + size) /\ page.next = {skip + size}
    BY <1>7, <1>8
  <2>2. PICK s : s = SubSeq(all, skip + 1, skip + size)
    OBVIOUS
  <2>3. s \in Seq(Ids) /\ Len(s) = size /\ \A i \in 1..Len(s) : s[i] = all[skip + i]
    BY <2>2, <1>3, <1>6, <1>8
  <2>4. \A i \in 1..Len(s) : skip + i \in 1..Len(all)
    BY <2>3, <1>3, <1>6, <1>8
  <2> QED
    BY <2>1, <2>2, <2>3, <2>4, <1>1, <1>3, <1>6, <1>8 DEF page
<1>9. CASE ~(skip + size < Len(all))
  <2>1. page.entities = SubSeq(all, skip + 1, Len(all)) /\ page.next = {}
    BY <1>7, <1>9
  <2>2. PICK s : s = SubSeq(all, skip + 1, Len(all))
    OBVIOUS
  <2>3. /\ s \in Seq(Ids) /\ Len(s) = IF skip < Len(all) THEN Len(all) - skip ELSE 0
        /\ \A i \in 1..Len(s) : s[i] = all[skip + i]
    BY <2>2, <1>6
  <2>4. \A i \in 1..Len(s) : skip + i \in 1..Len(all)
    BY <2>3, <1>6
  <2> QED
    BY <2>1, <2>2, <2>3, <2>4, <1>1, <1>3, <1>6 DEF page
<1> QED
  BY <1>8, <1>9

-------------------------------------------------------------------------------
(* Links, urls and right answers.                                          *)

\* There is one latest checkpoint up to a changeset at most.
LEMMA PrecedingIs ==
    ASSUME NEW now, NEW c
    PROVE  /\ Preceding(now, c) \subseteq There(now, "checkpoint")
           /\ \A j, k \in Preceding(now, c) : j <= k /\ k <= j
  BY DEF Preceding

\* The type an attached function returns.
Target(f) == IF f \in {"getCreator", "getOwner"} THEN "user"
             ELSE IF f = "getChangeset" THEN "changeset"
             ELSE IF f = "getNamedVersion" THEN "namedVersion" ELSE "checkpoint"

\* A link leads to what there is.
LEMMA LinkedIsThere ==
    ASSUME NEW now, Sound(now), NEW on, NEW n, NEW f \in AttachedNames,
           f = "getChangeset" => n \in There(now, "namedVersion")
    PROVE  \A entity \in Linked(now, on, n, AttachedFunction[f].link) :
               entity \in Entities /\ entity[1] = Target(f) /\ entity[2] \in There(now, entity[1])
<1>1. /\ {"user", "changeset", "namedVersion", "checkpoint"} \subseteq Types
  BY TypesAre DEF Listed
<1>2. \A t \in Types : There(now, t) \subseteq 0..MaxId
  BY Stored
<1>3. SUFFICES ASSUME NEW entity \in Linked(now, on, n, AttachedFunction[f].link)
               PROVE  \E t \in Types : \E m \in There(now, t) : t = Target(f) /\ entity = <<t, m>>
  BY <1>2, <1>3 DEF Entities
<1>4. CASE f \in {"getCreator", "getOwner"}
  <2>1. AttachedFunction[f].link \in {"creator", "owner"} /\ Target(f) = "user"
    BY <1>4, AttachedAre DEF GetCreator, GetOwner, Target
  <2>2. entity = <<"user", IF n \in There(now, "user") THEN n ELSE now.store["user"][1]>>
    BY <2>1 DEF Linked
  <2>3. now.store["user"][1] \in There(now, "user")
    <3>1. 1 \in DOMAIN now.store["user"]
      BY <1>1, Stored DEF Sound
    <3> QED
      BY <3>1, <1>1, Stored
  <2> QED
    BY <1>1, <2>1, <2>2, <2>3
<1>5. CASE f = "getChangeset"
  <2>1. AttachedFunction[f].link = "changeset" /\ Target(f) = "changeset"
    BY <1>5, AttachedAre DEF GetChangeset, Target
  <2>2. entity = <<"changeset", now.madeOn[n]>> /\ now.madeOn[n] # 0
    BY <2>1 DEF Linked
  <2>3. now.madeOn[n] \in There(now, "changeset")
    BY <1>5, <2>2 DEF Sound
  <2> QED
    BY <1>1, <2>1, <2>2, <2>3
<1>6. CASE f = "getNamedVersion"
  <2>1. AttachedFunction[f].link = "namedVersion" /\ Target(f) = "namedVersion"
    BY <1>6, AttachedAre DEF GetNamedVersion, Target
  <2>2. PICK v \in There(now, "namedVersion") : entity = <<"namedVersion", v>>
    BY <2>1 DEF Linked
  <2> QED
    BY <1>1, <2>1, <2>2
<1>7. CASE f \in {"getCheckpoint", "getCurrentOrPrecedingCheckpoint"}
  <2>1. AttachedFunction[f].link \in {"checkpoint", "currentOrPrecedingCheckpoint"} /\ Target(f) = "checkpoint"
    BY <1>7, AttachedAre DEF GetCheckpoint, GetCurrentOrPrecedingCheckpoint, Target
  <2>2. \E c : \E k \in Preceding(now, c) : entity = <<"checkpoint", k>>
    BY <2>1 DEF Linked
  <2> QED
    BY <1>1, <2>1, <2>2, PrecedingIs
<1> QED
  BY <1>4, <1>5, <1>6, <1>7 DEF AttachedNames

\* What a url names has a type and a number.
LEMMA FoundIsThere ==
    ASSUME NEW now, Sound(now), NEW url \in AnyUrl, NEW entity \in Found(now, url)
    PROVE  /\ entity \in Entities
           /\ entity[2] \in There(now, entity[1]) \/ entity = <<"changeset", 0>>
           /\ url.under \in Types => entity[1] = url.under
           /\ url.under \notin Types => entity[1] = "checkpoint"
<1>1. {"changeset", "checkpoint"} \subseteq Types /\ 0 \in 0..MaxId
      /\ "changesets" \notin Types /\ "namedVersions" \notin Types /\ "briefcases" \notin Types
  BY TypesAre, QueriesAssumption DEF Listed
<1>2. \A t \in Types : There(now, t) \subseteq 0..MaxId
  BY Stored
<1>3. CASE url.under = "changeset"
  BY <1>1, <1>2, <1>3 DEF Found, Entities
<1>4. CASE url.under = "changesets"
  BY <1>1, <1>2, <1>4 DEF Found, Entities
<1>5. CASE url.under = "namedVersions"
  BY <1>1, <1>2, <1>5 DEF Found, Entities
<1>6. CASE url.under = "briefcases"
  BY <1>1, <1>2, <1>6, PrecedingIs DEF Found, Entities
<1>7. CASE url.under \notin {"changeset", "changesets", "namedVersions", "briefcases"}
  <2>1. url.under \in Types
    BY <1>7 DEF AnyUrl
  <2> QED
    BY <1>2, <1>7, <2>1 DEF Found, Entities
<1> QED
  BY <1>3, <1>4, <1>5, <1>6, <1>7

\* Urls of lists and of entities.
LEMMA UrlTypes ==
    /\ \A on \in Types : ListUrl(on) \in AnyUrl
    /\ \A on \in Types : \A n \in Nat : EntityUrl(on, Part(n)) \in AnyUrl /\ EntityUrl(on, Part(n)).under = on
  BY DEF AnyUrl, ListUrl, EntityUrl, Part

\* The latest changeset is one that there is.
LEMMA LatestIs ==
    ASSUME NEW now, Sound(now), There(now, "changeset") # {}
    PROVE  /\ LatestOf(There(now, "changeset")) \in There(now, "changeset")
           /\ \A d \in There(now, "changeset") : d <= LatestOf(There(now, "changeset"))
<1>1. \E c \in There(now, "changeset") : \A d \in There(now, "changeset") : d <= c
  <2>1. /\ Len(now.store["changeset"]) \in Nat
        /\ There(now, "changeset") = 1..Len(now.store["changeset"])
    BY Pushed
  <2>2. Len(now.store["changeset"]) \in There(now, "changeset")
    BY <2>1
  <2> QED
    BY <2>1, <2>2
<1> QED
  BY <1>1 DEF LatestOf

\* One of the named versions is made on the latest changeset any is made on.
LEMMA VersionsAre ==
    ASSUME NEW now, Sound(now)
    PROVE  /\ There(now, "namedVersion") \subseteq Ids /\ IsFiniteSet(There(now, "namedVersion"))
           /\ \A v \in There(now, "namedVersion") : now.madeOn[v] \in 0..MaxId
           /\ There(now, "namedVersion") # {} =>
                  \E v \in There(now, "namedVersion") :
                      \A w \in There(now, "namedVersion") : now.madeOn[w] <= now.madeOn[v]
<1>1. "namedVersion" \in Types
  BY TypesAre DEF Listed
<1>2. PICK S : S = There(now, "namedVersion")
  OBVIOUS
<1>3. S \subseteq Ids
  BY <1>1, <1>2, Stored
<1>4. IsFiniteSet(S)
  <2>1. IsFiniteSet(1..MaxId)
    BY QueriesAssumption, FS_Interval
  <2> QED
    BY <2>1, <1>3, FS_Subset DEF Ids
<1>5. \A v \in S : now.madeOn[v] \in 0..MaxId
  BY <1>3 DEF Sound, Contents
<1>6. ASSUME S # {} PROVE \E v \in S : \A w \in S : now.madeOn[w] <= now.madeOn[v]
  <2>1. PICK f : f = [v \in S |-> now.madeOn[v]]
    OBVIOUS
  <2>2. f \in [S -> Nat]
    BY <2>1, <1>5, QueriesAssumption
  <2>3. PICK v \in S : \A w \in S : f[w] <= f[v]
    BY <1>4, <1>6, <2>2, GreatestOf
  <2> QED
    BY <2>1, <2>3
<1> QED
  BY <1>2, <1>3, <1>4, <1>5, <1>6

Within(now, range) == {c \in There(now, "changeset") : c >= range.first
                          /\ (range.end # <<>> => c <= range.end[1])}

\* An answer has at most one entity, or the changesets of a range.
LEMMA RightAnswerIsList ==
    ASSUME NEW now, Sound(now), NEW q \in Questions
    PROVE  RightAnswer(now, q) \in AnyList
<1>1. /\ q.ask \in {"first", "latest", "changeset", "latestNamedVersion", "namedVersion", "iModel", "range"}
      /\ 0 \in 0..MaxId
  BY QuestionsAssumption, QueriesAssumption
<1>2. There(now, "changeset") \subseteq 0..MaxId /\ There(now, "iModel") \subseteq 0..MaxId
  BY Stored, TypesAre DEF Listed
<1>s. \A n \in 0..MaxId : <<n>> \in AnyList
  BY DEF AnyList
<1>e. <<>> \in AnyList
  BY DEF AnyList
<1>3. CASE q.ask = "first"
  BY <1>1, <1>3, <1>s DEF RightAnswer
<1>4. CASE q.ask = "latest"
  BY <1>1, <1>2, <1>4, <1>s, LatestIs DEF RightAnswer
<1>5. CASE q.ask = "changeset"
  BY <1>1, <1>2, <1>5, <1>s, <1>e DEF RightAnswer
<1>6. CASE q.ask = "latestNamedVersion"
  BY <1>6, <1>s, <1>e, VersionsAre DEF RightAnswer
<1>7. CASE q.ask = "namedVersion"
  BY <1>7, <1>s, <1>e, VersionsAre DEF RightAnswer
<1>8. CASE q.ask = "iModel"
  BY <1>2, <1>8, <1>s, <1>e DEF RightAnswer
<1>9. CASE q.ask = "range"
  <2>1. RightAnswer(now, q) = InOrder(Within(now, q.range), Less(Within(now, q.range)))
    BY <1>9 DEF RightAnswer, Within
  <2>2. PICK S : S = Within(now, q.range)
    OBVIOUS
  <2>3. S \subseteq 1..MaxId /\ S \subseteq Nat
    <3>1. "changeset" \in Types
      BY TypesAre DEF Listed
    <3>2. There(now, "changeset") \subseteq Ids
      BY <3>1, Stored
    <3> QED
      BY <2>2, <3>2, QueriesAssumption DEF Within, Ids
  <2>4. IsFiniteSet(S)
    <3>1. IsFiniteSet(1..MaxId)
      BY QueriesAssumption, FS_Interval
    <3> QED
      BY <3>1, <2>3, FS_Subset
  <2>5. TotalOrder(S, Less(S))
    BY <2>3, LessIsTotal
  <2>6. PICK s : s = InOrder(S, Less(S))
    OBVIOUS
  <2>7. Cardinality(S) \in Nat /\ s \in [1..Cardinality(S) -> S]
    BY <2>4, <2>5, <2>6, InOrderLists
  <2>8. s \in [1..Cardinality(S) -> 0..MaxId]
    <3>1. S \subseteq 0..MaxId
      BY <2>3, QueriesAssumption
    <3> QED
      BY <3>1, <2>7
  <2>9. s \in Seq(0..MaxId)
    BY <2>7, <2>8, FunctionIsList
  <2> QED
    BY <2>1, <2>2, <2>6, <2>9 DEF AnyList
<1> QED
  BY <1>1, <1>3, <1>4, <1>5, <1>6, <1>7, <1>8, <1>9

-------------------------------------------------------------------------------
(* What the call in progress waits for.                                    *)

ListAsks == {"latest", "namedVersion", "latestNamedVersion", "iModel", "range"}

Awaiting ==
    /\ call.what = "question" => call.wanted \in Questions
    /\ call.what = "take" => call.wanted = <<call.want>>
    /\ request.operation \in ListOperations =>
           /\ call.what \in {"take", "page", "question"}
           /\ request.operation = iterator.operation /\ request.query = iterator.query
           /\ request.skip = Len(iterator.fetched) /\ iterator.next = {request.skip}
           /\ call.what # "page" => iterator.buffer = <<>> /\ (call.want # 0 => Len(call.got) < call.want)
           /\ call.what = "question" => call.wanted.ask \in ListAsks
    /\ request.operation \in GetOperations =>
           /\ call.what \in {"get", "follow", "question"}
           /\ request.url.under = request.operation.on \/ request.operation = CheckpointGetSingle
    /\ request.operation \in SendOperations => call.what = "send"

AwaitInv ==
    /\ iterator.next \subseteq {Len(iterator.fetched)}
    /\ iterator.failed => iterator.next = {}
    /\ step = "idle" => call = NoCall /\ request = NoRequest
    /\ step # "idle" => Awaiting

CallsOK ==
    /\ step \in {"idle", "authorizing", "sent"}
    /\ call \in AnyCall /\ request \in AnyRequest /\ iterator \in AnyIterator /\ outcome \in AnyOutcome
    /\ AwaitInv

LinksLead(linked, now) ==
    \A f \in DOMAIN linked : \A entity \in linked[f] :
        entity[1] = Target(f) /\ entity[2] \in There(now, entity[1])

HandOK == hand \in AnyHand /\ LinksLead(hand.linked, content)

ServiceOK ==
    /\ Sound(content)
    /\ expired \in 0..MaxExpired /\ changes \in 0..MaxChanges /\ calls \in 0..MaxCalls
    /\ history \in [right : SUBSET AnyList, disturbed : BOOLEAN]

QueriesInv == ServiceOK /\ CallsOK /\ HandOK

\* The state between calls has its types.
LEMMA NothingIsTyped ==
    /\ Nobody \in AnyCaller /\ NoCall \in AnyCall /\ NoRequest \in AnyRequest
    /\ NoIterator \in AnyIterator /\ NoHand \in AnyHand /\ NoOutcome \in AnyOutcome
<1>1. Nobody \in AnyCaller
  BY DEF Nobody, AnyCaller
<1>2. <<>> \in Seq(Ids) /\ <<>> \in AnyList
  BY DEF AnyList
<1>3. NoCall \in AnyCall
  BY <1>1, <1>2 DEF NoCall, AnyCall, AnyWhat, AnyWanted
<1>4. <<>> \in AnyQuery
  BY NoQuery DEF AnyQuery
<1>5. IModelGetSingle \in Operations /\ IModelGetMinimalList \in ListOperations /\ IModelGetMinimalList \in Operations
  BY DEF Operations, ListOperations, GetOperations
<1>6. NoRequest \in AnyRequest
  <2>1. ListUrl("iModel") \in AnyUrl
    BY UrlTypes, TypesAre DEF Listed
  <2>2. 0 \in 0..MaxExpired
    BY QueriesAssumption
  <2> QED
    BY <2>1, <2>2, <1>4, <1>5 DEF NoRequest, AnyRequest
<1>7. NoIterator \in AnyIterator
  BY <1>1, <1>2, <1>4, <1>5 DEF NoIterator, AnyIterator
<1>8. NoHand \in AnyHand
  <2>1. <<>> \in [{} -> SUBSET Entities]
    OBVIOUS
  <2> QED
    BY <2>1, <1>1, <1>5 DEF NoHand, AnyHand
<1>9. NoOutcome \in AnyOutcome
  BY <1>2 DEF NoOutcome, AnyOutcome, AnyWhat, AnyWanted
<1> QED
  BY <1>1, <1>3, <1>6, <1>7, <1>8, <1>9

\* A call that ends leaves no request behind.
LEMMA ReturnIs ==
    ASSUME NEW c \in AnyCall,
           NEW came \in {"nothing", "returned", "undefined", "notFound", "unauthorized", "failed"},
           NEW got \in AnyList \union Entities, Return(c, came, got)
    PROVE  /\ step' = "idle" /\ call' = NoCall /\ request' = NoRequest
           /\ call' \in AnyCall /\ request' \in AnyRequest /\ outcome' \in AnyOutcome
  BY NothingIsTyped DEF Return, AnyOutcome, AnyCall

\* A request waits for its headers, and is for what it was made for.
LEMMA AskIs ==
    ASSUME NEW operation \in Operations, NEW url \in AnyUrl, NEW query \in AnyQuery, NEW skip \in Nat,
           request \in AnyRequest, Ask(operation, url, query, skip)
    PROVE  /\ step' = "authorizing" /\ request' \in AnyRequest
           /\ request'.operation = operation /\ request'.url = url
           /\ request'.query = query /\ request'.skip = skip
           /\ request'.formedAt = request.formedAt
  BY DEF Ask, AnyRequest

\* An entity that is returned has the links of the answer, which lead to what there is.
LEMMA HoldingIs ==
    ASSUME NEW now, Sound(now), NEW operation \in Operations, NEW n, call \in AnyCall,
           "getChangeset" \in operation.attached => n \in There(now, "namedVersion")
    PROVE  Holding(now, operation, n) \in AnyHand /\ LinksLead(Holding(now, operation, n).linked, now)
<1>1. operation.attached \subseteq AttachedNames /\ DOMAIN AttachedFunction = AttachedNames
  BY Verbs, AttachedAre
<1>2. PICK linked : linked = [f \in operation.attached |->
                    IF AttachedFunction[f].link \in LinksOf(operation.on, operation.prefer)
                    THEN Linked(now, operation.on, n, AttachedFunction[f].link) ELSE {}]
  OBVIOUS
<1>3. ASSUME NEW f \in operation.attached, NEW entity \in linked[f]
      PROVE  entity \in Entities /\ entity[1] = Target(f) /\ entity[2] \in There(now, entity[1])
  <2>1. entity \in Linked(now, operation.on, n, AttachedFunction[f].link)
    BY <1>2, <1>3
  <2> QED
    BY <2>1, <1>1, LinkedIsThere
<1>4. linked \in [operation.attached -> SUBSET Entities]
  BY <1>2, <1>3
<1>5. linked \in UNION {[names -> SUBSET Entities] : names \in SUBSET DOMAIN AttachedFunction}
  BY <1>1, <1>4
<1>6. Holding(now, operation, n) = [operation |-> operation, caller |-> call.caller, linked |-> linked]
  BY <1>2 DEF Holding
<1> QED
  BY <1>3, <1>4, <1>5, <1>6 DEF AnyHand, AnyCall, LinksLead

\* So does the entity at hand after any answer.
LEMMA HoldIs ==
    ASSUME NEW now, Sound(now), NEW operation \in Operations, NEW ns, call \in AnyCall,
           "getChangeset" \in operation.attached => ns \subseteq There(now, "namedVersion"),
           hand \in AnyHand, LinksLead(hand.linked, now), Hold(now, operation, ns)
    PROVE  hand' \in AnyHand /\ LinksLead(hand'.linked, now)
<1>1. CASE UNCHANGED hand
  BY <1>1
<1>2. CASE \E n \in ns : hand' = Holding(now, operation, n)
  <2>1. PICK n \in ns : hand' = Holding(now, operation, n)
    BY <1>2
  <2>2. "getChangeset" \in operation.attached => n \in There(now, "namedVersion")
    OBVIOUS
  <2>3. Holding(now, operation, n) \in AnyHand /\ LinksLead(Holding(now, operation, n).linked, now)
    BY <2>2, HoldingIs
  <2> QED
    BY <2>1, <2>3
<1> QED
  BY <1>1, <1>2 DEF Hold

\* Links that lead to what there is go on doing so.
LEMMA LinksStay ==
    ASSUME NEW now, NEW after, Keeps(now, after), NEW linked, DOMAIN linked \subseteq AttachedNames,
           LinksLead(linked, now)
    PROVE  LinksLead(linked, after)
<1>1. \A f \in AttachedNames : Target(f) \in {"user", "changeset", "namedVersion", "checkpoint"}
  BY DEF Target, AttachedNames
<1>2. \A on \in {"user", "changeset", "namedVersion", "checkpoint"} : There(now, on) \subseteq There(after, on)
  <2>1. There(now, "user") \subseteq There(after, "user")
    BY DEF Keeps, There
  <2>2. \A on \in {"changeset", "namedVersion", "checkpoint"} : There(now, on) \subseteq There(after, on)
    BY DEF Keeps
  <2> QED
    BY <2>1, <2>2
<1> QED
  BY <1>1, <1>2 DEF LinksLead

\* A page splits into what is taken and the rest.
LEMMA Split ==
    ASSUME NEW V, NEW s \in Seq(V), NEW n \in 0..Len(s)
    PROVE  /\ SubSeq(s, 1, n) \in Seq(V) /\ Len(SubSeq(s, 1, n)) = n
           /\ SubSeq(s, n + 1, Len(s)) \in Seq(V) /\ Len(SubSeq(s, n + 1, Len(s))) = Len(s) - n
           /\ \A i \in 1..n : SubSeq(s, 1, n)[i] = s[i]
           /\ \A i \in 1..(Len(s) - n) : SubSeq(s, n + 1, Len(s))[i] = s[n + i]
           /\ SubSeq(s, 1, n) \o SubSeq(s, n + 1, Len(s)) = s
<1>1. /\ SubSeq(s, 1, n) \in Seq(V) /\ Len(SubSeq(s, 1, n)) = n
      /\ SubSeq(s, n + 1, Len(s)) \in Seq(V) /\ Len(SubSeq(s, n + 1, Len(s))) = Len(s) - n
      /\ \A i \in 1..n : SubSeq(s, 1, n)[i] = s[i]
      /\ \A i \in 1..(Len(s) - n) : SubSeq(s, n + 1, Len(s))[i] = s[n + i]
  OBVIOUS
<1>2. PICK a : a = SubSeq(s, 1, n)
  OBVIOUS
<1>3. PICK b : b = SubSeq(s, n + 1, Len(s))
  OBVIOUS
<1>4. a \o b \in Seq(V) /\ Len(a \o b) = Len(s) /\ \A i \in 1..Len(s) : (a \o b)[i] = s[i]
  <2>1. a \in Seq(V) /\ b \in Seq(V) /\ Len(a) = n /\ Len(b) = Len(s) - n
    BY <1>1, <1>2, <1>3
  <2>2. /\ a \o b \in Seq(V) /\ Len(a \o b) = Len(a) + Len(b)
        /\ \A i \in 1..Len(a) + Len(b) : (a \o b)[i] = IF i <= Len(a) THEN a[i] ELSE b[i - Len(a)]
    BY <2>1, ConcatProperties
  <2>3. \A i \in 1..Len(s) : IF i <= n THEN a[i] = s[i] ELSE b[i - n] = s[i]
    <3>1. ASSUME NEW i \in 1..Len(s), i > n
          PROVE  b[i - n] = s[i]
      <4>1. i - n \in 1..(Len(s) - n) /\ n + (i - n) = i
        BY <3>1
      <4> QED
        BY <4>1, <1>1, <1>3
    <3> QED
      BY <3>1, <1>1, <1>2
  <2> QED
    BY <2>1, <2>2, <2>3
<1>5. a \o b = s
  BY <1>4, SeqEqual
<1> QED
  BY <1>1, <1>2, <1>3, <1>5

\* What awaits may become of the call: another page, the changeset of a named version, or
\* its return.
AsksOn(c, it, after, left) ==
    /\ step' = "authorizing"
    /\ ~Enough(after) /\ left.buffer = <<>>
    /\ \E skip \in it.next : AskForPage(it, skip)
    /\ iterator' = left /\ call' = after /\ outcome' = NoOutcome

HasRead(c, it, after, left) ==
    /\ Enough(after) \/ (it.next = {} /\ left.buffer = <<>>)
    /\ ListRead(after, left)

\* A step of for await takes some of the page and leaves the rest with the generator, then asks on or ends.
LEMMA ForAwaitStep ==
    ASSUME NEW c \in AnyCall, NEW it \in AnyIterator,
           c.want # 0 => Len(c.got) < c.want, ForAwait(c, it)
    PROVE  \E n \in 0..Len(it.buffer), after \in AnyCall, left \in AnyIterator :
               /\ after = [c EXCEPT !.got = c.got \o SubSeq(it.buffer, 1, n)]
               /\ left = [it EXCEPT !.buffer = SubSeq(it.buffer, n + 1, Len(it.buffer))]
               /\ after.got = c.got \o SubSeq(it.buffer, 1, n)
               /\ left.buffer = SubSeq(it.buffer, n + 1, Len(it.buffer))
               /\ Len(after.got) = Len(c.got) + n
               /\ c.want # 0 => Len(after.got) <= c.want
               /\ AsksOn(c, it, after, left) \/ HasRead(c, it, after, left)
<1>1. /\ c.want \in Nat /\ c.got \in Seq(Ids) /\ it.buffer \in Seq(Ids)
      /\ Len(c.got) \in Nat /\ Len(it.buffer) \in Nat
  BY DEF AnyCall, AnyIterator
<1>2. PICK n : n = Taken(c, it)
  OBVIOUS
<1>3. /\ n \in 0..Len(it.buffer)
      /\ n = Len(it.buffer) \/ (c.want # 0 /\ n = c.want - Len(c.got))
      /\ c.want # 0 => Len(c.got) + n <= c.want
  BY <1>1, <1>2 DEF Taken
<1>4. PICK after : after = [c EXCEPT !.got = c.got \o SubSeq(it.buffer, 1, n)]
  OBVIOUS
<1>5. PICK left : left = [it EXCEPT !.buffer = SubSeq(it.buffer, n + 1, Len(it.buffer))]
  OBVIOUS
<1>6. /\ SubSeq(it.buffer, 1, n) \in Seq(Ids) /\ Len(SubSeq(it.buffer, 1, n)) = n
      /\ SubSeq(it.buffer, n + 1, Len(it.buffer)) \in Seq(Ids)
      /\ Len(SubSeq(it.buffer, n + 1, Len(it.buffer))) = Len(it.buffer) - n
  BY <1>1, <1>3, Split
<1>7. PICK got : got = c.got \o SubSeq(it.buffer, 1, n)
  OBVIOUS
<1>8. got \in Seq(Ids) /\ Len(got) = Len(c.got) + n
  BY <1>1, <1>6, <1>7
<1>9. after \in AnyCall /\ after.got = got /\ after.want = c.want /\ after.what = c.what /\ after.wanted = c.wanted
  BY <1>4, <1>7, <1>8 DEF AnyCall
<1>10. /\ left \in AnyIterator /\ left.buffer = SubSeq(it.buffer, n + 1, Len(it.buffer))
       /\ left.next = it.next /\ left.operation = it.operation /\ left.query = it.query
  BY <1>5, <1>6 DEF AnyIterator
<1>11. ~Enough(after) => left.buffer = <<>>
  <2>1. SUFFICES ASSUME ~Enough(after) PROVE left.buffer = <<>>
    OBVIOUS
  <2>2. n = Len(it.buffer)
    BY <2>1, <1>1, <1>3, <1>8, <1>9 DEF Enough
  <2>3. Len(left.buffer) = 0 /\ left.buffer \in Seq(Ids)
    BY <2>2, <1>1, <1>6, <1>10
  <2> QED
    BY <2>3
<1>12. AsksOn(c, it, after, left) \/ HasRead(c, it, after, left)
  <2>1. \/ (Enough(after) \/ left.next = {}) /\ ListRead(after, left)
        \/ /\ ~Enough(after)
           /\ \E skip \in left.next : AskForPage(left, skip)
           /\ iterator' = left /\ call' = after
           /\ outcome' = NoOutcome
    BY <1>2, <1>4, <1>5 DEF ForAwait, Rest
  <2>2. CASE (Enough(after) \/ left.next = {}) /\ ListRead(after, left)
    BY <2>2, <1>10, <1>11 DEF HasRead
  <2>3. CASE /\ ~Enough(after)
             /\ \E skip \in left.next : AskForPage(left, skip)
             /\ iterator' = left /\ call' = after
             /\ outcome' = NoOutcome
    <3>1. PICK skip \in left.next : AskForPage(left, skip)
      BY <2>3
    <3>2. AskForPage(it, skip) /\ step' = "authorizing" /\ skip \in it.next
      BY <3>1, <1>10 DEF AskForPage, Ask
    <3> QED
      BY <3>2, <2>3, <1>11 DEF AsksOn
  <2> QED
    BY <2>1, <2>2, <2>3
<1> QED
  BY <1>3, <1>4, <1>5, <1>7, <1>8, <1>9, <1>10, <1>12

\* The changeset of a named version is one that there is.
LEMMA NamedChangesetIs ==
    ASSUME Sound(content), NEW c \in AnyCall
    PROVE  NamedChangeset(c) \in Seq(Ids) /\ (NamedChangeset(c) # <<>> => NamedChangeset(c)[1] \in Ids)
<1>1. CASE c.got = <<>> \/ content.madeOn[c.got[1]] = 0
  BY <1>1 DEF NamedChangeset
<1>2. CASE ~(c.got = <<>> \/ content.madeOn[c.got[1]] = 0)
  <2>1. c.got[1] \in Ids
    BY <1>2 DEF AnyCall
  <2>2. content.madeOn[c.got[1]] \in 0..MaxId
    BY <2>1 DEF Sound, Contents
  <2>3. content.madeOn[c.got[1]] \in Ids
    BY <2>2, <1>2, QueriesAssumption DEF Ids
  <2> QED
    BY <2>3, <1>2 DEF NamedChangeset
<1> QED
  BY <1>1, <1>2

\* What a list is read for has an answer of its own.
LEMMA AnswerIs ==
    ASSUME Sound(content), NEW c \in AnyCall, c.wanted.ask \in ListAsks
    PROVE  AnswerFromList(c) \in AnyList
<1>1. /\ 0 \in 0..MaxId /\ Ids \subseteq 0..MaxId
  BY QueriesAssumption DEF Ids
<1>2. \A s \in Seq(Ids) : s \in AnyList
  BY <1>1, SeqMonotonic DEF AnyList
<1>3. c.got \in Seq(Ids) /\ (c.got # <<>> => c.got[1] \in Ids)
  BY DEF AnyCall
<1>4. NamedChangeset(c) \in AnyList
  BY <1>2, NamedChangesetIs
<1>5. <<0>> \in AnyList /\ <<>> \in AnyList /\ \A n \in Ids : <<n>> \in AnyList
  BY <1>1 DEF AnyList
<1>6. CASE c.wanted.ask = "latest"
  BY <1>3, <1>5, <1>6 DEF AnswerFromList
<1>7. CASE c.wanted.ask \in {"namedVersion", "latestNamedVersion"}
  BY <1>4, <1>7 DEF AnswerFromList
<1>8. CASE c.wanted.ask = "iModel"
  BY <1>3, <1>5, <1>8 DEF AnswerFromList
<1>9. CASE c.wanted.ask = "range"
  BY <1>2, <1>3, <1>9 DEF AnswerFromList
<1> QED
  BY <1>6, <1>7, <1>8, <1>9 DEF ListAsks

\* A call that reads a list, or the page that has come, goes on as it is meant to.
LEMMA ForAwaitKeeps ==
    ASSUME NEW c \in AnyCall, NEW it \in AnyIterator, Sound(content), request \in AnyRequest,
           c.want # 0 => Len(c.got) < c.want, ForAwait(c, it),
           c.what \in {"take", "question"},
           c.what = "take" => c.wanted = <<c.want>>,
           c.what = "question" => c.wanted \in Questions /\ c.wanted.ask \in ListAsks,
           it.next \subseteq {Len(it.fetched)}, it.failed => it.next = {}
    PROVE  CallsOK' /\ request'.formedAt \in {0, request.formedAt}
<1>1. PICK n \in 0..Len(it.buffer), after \in AnyCall, left \in AnyIterator :
               /\ after = [c EXCEPT !.got = c.got \o SubSeq(it.buffer, 1, n)]
               /\ left = [it EXCEPT !.buffer = SubSeq(it.buffer, n + 1, Len(it.buffer))]
               /\ after.got = c.got \o SubSeq(it.buffer, 1, n)
               /\ Len(after.got) = Len(c.got) + n
               /\ c.want # 0 => Len(after.got) <= c.want
               /\ AsksOn(c, it, after, left) \/ HasRead(c, it, after, left)
  BY ForAwaitStep
<1>2. /\ after.want = c.want /\ after.what = c.what /\ after.wanted = c.wanted
      /\ left.next = it.next /\ left.fetched = it.fetched /\ left.failed = it.failed
      /\ left.operation = it.operation /\ left.query = it.query
  BY <1>1 DEF AnyCall, AnyIterator
<1>3. /\ it.operation \in ListOperations /\ it.operation \in Operations /\ it.query \in AnyQuery
      /\ ListUrl(it.operation.on) \in AnyUrl /\ it.next \subseteq Nat
  <2>1. it.operation \in ListOperations /\ it.operation \in Operations /\ it.query \in AnyQuery /\ it.next \subseteq Nat
    BY DEF AnyIterator, Operations
  <2> QED
    BY <2>1, Verbs, UrlTypes
<1>4. CASE AsksOn(c, it, after, left)
  <2>1. PICK skip \in it.next : AskForPage(it, skip)
    BY <1>4 DEF AsksOn
  <2>2. skip \in Nat /\ skip = Len(it.fetched) /\ it.next = {skip}
    BY <1>3
  <2>3. /\ step' = "authorizing" /\ request' \in AnyRequest
        /\ request'.operation = it.operation
        /\ request'.query = it.query /\ request'.skip = skip
        /\ request'.formedAt = request.formedAt
    BY <2>1, <2>2, <1>3, AskIs DEF AskForPage
  <2>4. iterator' = left /\ call' = after /\ outcome' = NoOutcome /\ left.buffer = <<>> /\ ~Enough(after)
    BY <1>4 DEF AsksOn
  <2>5. after.want # 0 => Len(after.got) < after.want
    <3>1. Len(after.got) \in Nat /\ after.want \in Nat
      BY DEF AnyCall
    <3> QED
      BY <3>1, <2>4, <1>1, <1>2 DEF Enough
  <2>6. Awaiting'
    <3>1. it.operation \notin GetOperations /\ it.operation \notin SendOperations
      BY <1>3, Verbs
    <3> QED
      BY <3>1, <2>2, <2>3, <2>4, <2>5, <1>2 DEF Awaiting
  <2>7. AwaitInv'
    BY <2>2, <2>3, <2>4, <2>6, <1>2 DEF AwaitInv
  <2> QED
    BY <2>3, <2>4, <2>7, NothingIsTyped DEF CallsOK
<1>5. CASE HasRead(c, it, after, left)
  <2>1. ListRead(after, left)
    BY <1>5 DEF HasRead
  <2>2. PICK it2 : it2 = [left EXCEPT !.given = left.given \o after.got]
    OBVIOUS
  <2>3. /\ iterator' = it2 /\ it2 \in AnyIterator
        /\ it2.next = it.next /\ it2.fetched = it.fetched /\ it2.failed = it.failed
    <3>1. left.given \o after.got \in Seq(Ids)
      BY DEF AnyIterator, AnyCall
    <3>2. iterator' = it2
      BY <2>1, <2>2 DEF ListRead
    <3> QED
      BY <3>1, <3>2, <2>2, <1>2 DEF AnyIterator
  <2>4. CASE /\ NeedsChangeset(after)
             /\ call' = [after EXCEPT !.got = NamedChangeset(after)]
             /\ Ask(ChangesetGetSingle, EntityUrl("changeset", Part(NamedChangeset(after)[1])), <<>>, 0)
             /\ outcome' = NoOutcome
    <3>1. PICK number : number = NamedChangeset(after)[1]
      OBVIOUS
    <3>2. number \in Ids /\ NamedChangeset(after) \in Seq(Ids)
      BY <2>4, <3>1, NamedChangesetIs DEF NeedsChangeset
    <3>3. ChangesetGetSingle \in GetOperations /\ ChangesetGetSingle \in Operations
      BY DEF GetOperations, Operations
    <3>4. ChangesetGetSingle.on = "changeset" /\ "changeset" \in Types
      BY <3>3, GetTypes, TypesAre DEF Listed
    <3>5. EntityUrl("changeset", Part(number)) \in AnyUrl /\ EntityUrl("changeset", Part(number)).under = "changeset"
      BY <3>2, <3>4, UrlTypes, QueriesAssumption DEF Ids
    <3>6. <<>> \in AnyQuery
      BY NothingIsTyped DEF NoRequest, AnyRequest
    <3>7. /\ step' = "authorizing" /\ request' \in AnyRequest
          /\ request'.operation = ChangesetGetSingle /\ request'.url.under = "changeset"
          /\ request'.formedAt = request.formedAt
      BY <2>4, <3>1, <3>3, <3>5, <3>6, AskIs
    <3>8. call' \in AnyCall /\ call'.what = "question" /\ call'.wanted \in Questions
      BY <2>4, <3>2, <1>2 DEF AnyCall, NeedsChangeset, Asked
    <3>9. Awaiting'
      <4>1. ChangesetGetSingle \notin ListOperations /\ ChangesetGetSingle \notin SendOperations
        BY <3>3, Verbs
      <4> QED
        BY <4>1, <3>4, <3>7, <3>8 DEF Awaiting
    <3>10. AwaitInv'
      BY <2>3, <3>7, <3>9 DEF AwaitInv
    <3> QED
      BY <2>3, <2>4, <3>7, <3>8, <3>10, NothingIsTyped DEF CallsOK
  <2>5. CASE /\ ~NeedsChangeset(after)
             /\ Return(after, "returned", IF Asked(after) THEN AnswerFromList(after) ELSE after.got)
    <3>1. PICK got : got = IF Asked(after) THEN AnswerFromList(after) ELSE after.got
      OBVIOUS
    <3>2. got \in AnyList
      <4>1. CASE Asked(after)
        BY <4>1, <3>1, <1>2, AnswerIs DEF Asked
      <4>2. CASE ~Asked(after)
        <5>1. Ids \subseteq 0..MaxId
          BY QueriesAssumption DEF Ids
        <5>2. got = after.got /\ after.got \in Seq(Ids)
          BY <4>2, <3>1 DEF AnyCall
        <5> QED
          BY <5>1, <5>2, SeqMonotonic DEF AnyList
      <4> QED
        BY <4>1, <4>2
    <3>3. Return(after, "returned", got)
      BY <2>5, <3>1
    <3>4. /\ step' = "idle" /\ call' = NoCall /\ request' = NoRequest
          /\ call' \in AnyCall /\ request' \in AnyRequest /\ outcome' \in AnyOutcome
      BY <3>2, <3>3, ReturnIs
    <3>5. AwaitInv'
      BY <2>3, <3>4 DEF AwaitInv
    <3> QED
      BY <2>3, <3>4, <3>5 DEF CallsOK, NoRequest
  <2> QED
    BY <2>1, <2>4, <2>5 DEF ListRead
<1> QED
  BY <1>1, <1>4, <1>5

-------------------------------------------------------------------------------
(* What every step keeps.                                                  *)

\* The invariant holds at the start.
LEMMA QueriesInit ==
    ASSUME Init PROVE QueriesInv
<1>1. ServiceOK
  BY InitialAssumption, QueriesAssumption DEF Init, ServiceOK
<1>2. CallsOK
  BY NothingIsTyped DEF Init, CallsOK, AwaitInv, NoIterator
<1>3. HandOK
  <2>1. DOMAIN NoHand.linked = {}
    BY DEF NoHand
  <2> QED
    BY <2>1, NothingIsTyped DEF Init, HandOK, LinksLead
<1> QED
  BY <1>1, <1>2, <1>3 DEF QueriesInv

\* An entity at hand has attached functions only.
LEMMA HandNames ==
    ASSUME NEW h \in AnyHand PROVE DOMAIN h.linked \subseteq AttachedNames
  BY AttachedAre DEF AnyHand

\* What others do, or the caller sends, keeps the service sound.
LEMMA BecomesKeeps ==
    ASSUME ServiceOK, NEW operation \in SendOperations \union {Push}, NEW effect \in Effects(content, operation),
           Asked(call) => call.wanted \in Questions, Becomes(effect[1]), UNCHANGED <<expired, calls>>
    PROVE  ServiceOK' /\ Keeps(content, content') /\ content' = effect[1]
<1>1. Sound(effect[1]) /\ Keeps(content, effect[1])
  BY EffectsKeep DEF ServiceOK
<1>2. content' = effect[1]
  BY DEF Becomes
<1>3. changes' \in 0..MaxChanges
  <2>1. changes \in 0..MaxChanges /\ MaxChanges \in Nat
    BY QueriesAssumption DEF ServiceOK
  <2> QED
    BY <2>1 DEF Becomes
<1>4. history' \in [right : SUBSET AnyList, disturbed : BOOLEAN]
  <2>1. Asked(call) => RightAnswer(effect[1], call.wanted) \in AnyList
    BY <1>1, RightAnswerIsList
  <2>2. history' = [right |-> IF Asked(call) THEN history.right \union {RightAnswer(effect[1], call.wanted)}
                              ELSE history.right,
                    disturbed |-> history.disturbed \/ Disturbed(content, effect[1])]
    BY DEF Becomes
  <2>3. history \in [right : SUBSET AnyList, disturbed : BOOLEAN]
    BY DEF ServiceOK
  <2>4. Disturbed(content, effect[1]) \in BOOLEAN
    BY DEF Disturbed
  <2>5. history.right \subseteq AnyList /\ (history.disturbed \/ Disturbed(content, effect[1])) \in BOOLEAN
    BY <2>3, <2>4
  <2> QED
    BY <2>1, <2>2, <2>5
<1> QED
  BY <1>1, <1>2, <1>3, <1>4 DEF ServiceOK

\* The invariant of calls is about the calls only.
LEMMA CallsStay ==
    ASSUME CallsOK, UNCHANGED <<step, call, request, iterator, outcome>>
    PROVE  CallsOK'
  BY DEF CallsOK, AwaitInv, Awaiting

\* What there is may change as long as links stay good.
LEMMA HandStays ==
    ASSUME HandOK, Keeps(content, content'), UNCHANGED hand
    PROVE  HandOK'
  BY HandNames, LinksStay DEF HandOK

\* An entity that was left has no links.
LEMMA HandIsLeft ==
    ASSUME LeaveEntity PROVE HandOK'
<1>1. DOMAIN NoHand.linked = {}
  BY DEF NoHand
<1> QED
  BY <1>1, NothingIsTyped DEF HandOK, LeaveEntity, LinksLead

\* OthersChange keeps the invariant.
LEMMA OthersKeep ==
    ASSUME QueriesInv, OthersChange PROVE QueriesInv'
<1>a. PICK operation \in OthersDo : \E effect \in Effects(content, operation) :
          Becomes(effect[1]) /\ UNCHANGED <<expired, calls, step, call, request, iterator, hand, outcome>>
  BY DEF OthersChange
<1>1. PICK effect \in Effects(content, operation) :
          Becomes(effect[1]) /\ UNCHANGED <<expired, calls, step, call, request, iterator, hand, outcome>>
  BY <1>a
<1>2. operation \in SendOperations \union {Push}
  BY QueriesAssumption
<1>3. Asked(call) => call.wanted \in Questions
  BY DEF QueriesInv, CallsOK, AwaitInv, Awaiting, Asked, NoCall
<1>4. ServiceOK' /\ Keeps(content, content')
  BY <1>1, <1>2, <1>3, BecomesKeeps DEF QueriesInv
<1> QED
  BY <1>1, <1>4, CallsStay, HandStays DEF QueriesInv

\* TokenExpires keeps the invariant.
LEMMA ExpiryKeeps ==
    ASSUME QueriesInv, TokenExpires PROVE QueriesInv'
<1>1. ServiceOK'
  BY QueriesAssumption DEF QueriesInv, ServiceOK, TokenExpires
<1>2. CallsOK'
  BY CallsStay DEF QueriesInv, TokenExpires
<1>3. HandOK'
  BY DEF QueriesInv, HandOK, TokenExpires
<1> QED
  BY <1>1, <1>2, <1>3 DEF QueriesInv

\* A call that begins changes nothing of the service.
LEMMA BeginKeeps ==
    ASSUME ServiceOK, Begin, history' \in [right : SUBSET AnyList, disturbed : BOOLEAN]
    PROVE  ServiceOK' /\ content' = content /\ Keeps(content, content')
  BY QueriesAssumption, KeepsAll DEF ServiceOK, Begin, service

\* Callers with their headers and tokens.
LEMMA CallersAre ==
    ASSUME NEW caller \in Callers(Headers) \union Callers({<<>>}), expired \in Nat
    PROVE  caller \in AnyCaller
  BY DEF Callers, AnyCaller

\* A list that is asked for begins at its first page.
LEMMA NewIteratorIs ==
    ASSUME Sound(content), NEW operation \in ListOperations, NEW params, FormQueryString(params) \in AnyQuery,
           NEW caller \in AnyCaller
    PROVE  LET it == NewIterator(operation, params, caller)
           IN  /\ it \in AnyIterator /\ it.operation = operation /\ it.query = FormQueryString(params)
               /\ it.caller = caller /\ it.next = {0} /\ it.fetched = <<>> /\ ~it.failed /\ it.buffer = <<>>
<1>1. Len(Listing(content, operation.on, FormQueryString(params))) \in Nat
  <2>1. PICK all : all = Listing(content, operation.on, FormQueryString(params))
    OBVIOUS
  <2>2. operation.on \in Types
    BY ListedOperations, TypesAre
  <2>3. all \in Seq(There(content, operation.on))
    BY <2>1, <2>2, ListingOf
  <2> QED
    BY <2>1, <2>3
<1>2. <<>> \in Seq(Ids)
  OBVIOUS
<1> QED
  BY <1>1, <1>2 DEF NewIterator, AnyIterator

\* GetList keeps the invariant.
LEMMA GetListKeeps ==
    ASSUME QueriesInv, GetList PROVE QueriesInv'
<1>1. PICK list \in Lists, caller \in Callers(Headers) :
        /\ step = "idle"
        /\ iterator' = NewIterator(list.operation, list.params, caller)
        /\ outcome' = NoOutcome
        /\ history' = [history EXCEPT !.disturbed = FALSE]
        /\ LeaveEntity
        /\ UNCHANGED <<service, calls, step, call, request>>
  BY DEF GetList
<1>2. list.operation \in ListOperations /\ FormQueryString(list.params) \in AnyQuery
  BY QueriesAssumption DEF AnyQuery
<1>3. caller \in AnyCaller
  BY CallersAre, QueriesAssumption DEF QueriesInv, ServiceOK
<1>4. ServiceOK'
  BY <1>1 DEF QueriesInv, ServiceOK, service
<1>5. CallsOK'
  <2>1. /\ iterator' \in AnyIterator /\ iterator'.next = {0} /\ iterator'.fetched = <<>> /\ ~iterator'.failed
    BY <1>1, <1>2, <1>3, NewIteratorIs DEF QueriesInv, ServiceOK
  <2>2. AwaitInv'
    BY <1>1, <2>1 DEF QueriesInv, CallsOK, AwaitInv
  <2> QED
    BY <1>1, <2>1, <2>2, NothingIsTyped DEF QueriesInv, CallsOK
<1> QED
  BY <1>1, <1>4, <1>5, HandIsLeft DEF QueriesInv

\* A call that begins has nothing yet.
LEMMA NewCallIs ==
    ASSUME NEW what \in AnyWhat, NEW want \in Nat, NEW wanted \in AnyWanted, NEW caller \in AnyCaller
    PROVE  LET c == NewCall(what, want, wanted, caller)
           IN  /\ c \in AnyCall /\ c.what = what /\ c.want = want /\ c.got = <<>>
               /\ c.wanted = wanted /\ c.caller = caller
<1>1. <<>> \in Seq(Ids)
  OBVIOUS
<1> QED
  BY <1>1 DEF NewCall, AnyCall

\* Take, so toArray, keeps the invariant.
LEMMA TakeKeeps ==
    ASSUME QueriesInv, NEW want \in Counts, Take(want) PROVE QueriesInv'
<1>1. PICK c : c = NewCall("take", want, <<want>>, iterator.caller)
  OBVIOUS
<1>2. want \in Nat /\ <<want>> \in AnyWanted /\ iterator.caller \in AnyCaller
  BY QueriesAssumption DEF AnyWanted, QueriesInv, CallsOK, AnyIterator
<1>3. c \in AnyCall /\ c.what = "take" /\ c.want = want /\ c.got = <<>> /\ c.wanted = <<want>>
  BY <1>1, <1>2, NewCallIs DEF AnyWhat
<1>4. Begin /\ ForAwait(c, iterator) /\ UNCHANGED <<hand, history>>
  BY <1>1 DEF Take
<1>5. CallsOK'
  <2>1. c.want # 0 => Len(c.got) < c.want
    BY <1>2, <1>3
  <2> QED
    BY <2>1, <1>3, <1>4, ForAwaitKeeps DEF QueriesInv, CallsOK, AwaitInv, ServiceOK
<1>6. ServiceOK' /\ Keeps(content, content')
  BY <1>4, BeginKeeps DEF QueriesInv, ServiceOK
<1> QED
  BY <1>4, <1>5, <1>6, HandStays DEF QueriesInv

\* A request for a single entity or of what is sent.
LEMMA SingleAsked ==
    ASSUME CallsOK, NEW operation \in GetOperations \union SendOperations, NEW url \in AnyUrl, NEW c \in AnyCall,
           operation \in GetOperations =>
               /\ c.what \in {"get", "follow", "question"}
               /\ url.under = operation.on \/ operation = CheckpointGetSingle,
           operation \in SendOperations => c.what = "send",
           c.what = "question" => c.wanted \in Questions,
           call' = c, Ask(operation, url, <<>>, 0), outcome' = NoOutcome,
           iterator' \in {iterator, NoIterator}
    PROVE  CallsOK'
<1>1. operation \in Operations /\ <<>> \in AnyQuery
  BY NothingIsTyped DEF Operations, NoRequest, AnyRequest
<1>2. /\ step' = "authorizing" /\ request' \in AnyRequest
      /\ request'.operation = operation /\ request'.url = url
  BY <1>1, AskIs DEF CallsOK
<1>3. operation \notin ListOperations
  BY <1>1, Verbs
<1>4. c.what # "take"
  OBVIOUS
<1>5. Awaiting'
  BY <1>2, <1>3, <1>4 DEF Awaiting
<1>6. AwaitInv'
  BY <1>2, <1>5 DEF CallsOK, AwaitInv, NoIterator
<1> QED
  BY <1>2, <1>6, NothingIsTyped DEF CallsOK

\* A call that returns.
LEMMA Returned ==
    ASSUME CallsOK, NEW c \in AnyCall,
           NEW came \in {"nothing", "returned", "undefined", "notFound", "unauthorized", "failed"},
           NEW got \in AnyList \union Entities, Return(c, came, got),
           iterator' \in AnyIterator, iterator'.next \subseteq {Len(iterator'.fetched)},
           iterator'.failed => iterator'.next = {}
    PROVE  CallsOK'
<1>1. /\ step' = "idle" /\ call' = NoCall /\ request' = NoRequest
      /\ call' \in AnyCall /\ request' \in AnyRequest /\ outcome' \in AnyOutcome
  BY ReturnIs
<1>2. AwaitInv'
  BY <1>1 DEF AwaitInv
<1> QED
  BY <1>1, <1>2 DEF CallsOK

\* An iterator that is not touched goes on where it was.
LEMMA IteratorStays ==
    ASSUME CallsOK, UNCHANGED iterator
    PROVE  /\ iterator' \in AnyIterator /\ iterator'.next \subseteq {Len(iterator'.fetched)}
           /\ iterator'.failed => iterator'.next = {}
  BY DEF CallsOK, AwaitInv

\* NextPage keeps the invariant.
LEMMA NextPageKeeps ==
    ASSUME QueriesInv, NextPage PROVE QueriesInv'
<1>1. PICK c : c = NewCall("page", 0, <<>>, iterator.caller)
  OBVIOUS
<1>2. c \in AnyCall /\ c.what = "page" /\ c.wanted = <<>>
  BY <1>1, NewCallIs DEF AnyWhat, AnyWanted, QueriesInv, CallsOK, AnyIterator
<1>3. Begin /\ UNCHANGED <<hand, history>>
  BY DEF NextPage
<1>4. ServiceOK' /\ Keeps(content, content')
  BY <1>3, BeginKeeps DEF QueriesInv, ServiceOK
<1>5. CASE iterator.next = {} /\ Return(c, "returned", <<>>) /\ UNCHANGED iterator
  <2>1. <<>> \in AnyList
    BY DEF AnyList
  <2>2. CallsOK'
    BY <1>2, <1>5, <2>1, IteratorStays, Returned DEF QueriesInv
  <2> QED
    BY <2>2, <1>3, <1>4, HandStays DEF QueriesInv
<1>6. CASE /\ \E skip \in iterator.next : AskForPage(iterator, skip)
           /\ call' = c
           /\ iterator' = [iterator EXCEPT !.byPage = TRUE]
           /\ outcome' = NoOutcome
  <2>1. PICK skip \in iterator.next : AskForPage(iterator, skip)
    BY <1>6
  <2>2. /\ iterator \in AnyIterator /\ iterator.next \subseteq {Len(iterator.fetched)}
        /\ iterator.failed => iterator.next = {}
    BY DEF QueriesInv, CallsOK, AwaitInv
  <2>3. /\ iterator.operation \in ListOperations /\ iterator.operation \in Operations /\ iterator.query \in AnyQuery
        /\ ListUrl(iterator.operation.on) \in AnyUrl /\ skip \in Nat
    <3>1. iterator.operation \in ListOperations /\ iterator.operation \in Operations /\ iterator.query \in AnyQuery
          /\ skip \in Nat
      BY <2>2 DEF AnyIterator, Operations
    <3> QED
      BY <3>1, Verbs, UrlTypes
  <2>4. /\ step' = "authorizing" /\ request' \in AnyRequest
        /\ request'.operation = iterator.operation
        /\ request'.query = iterator.query /\ request'.skip = skip
    BY <2>1, <2>3, AskIs DEF AskForPage, QueriesInv, CallsOK
  <2>5. /\ iterator' \in AnyIterator /\ iterator'.next = {skip} /\ iterator'.fetched = iterator.fetched
        /\ iterator'.operation = iterator.operation /\ iterator'.query = iterator.query
        /\ skip = Len(iterator.fetched) /\ ~iterator'.failed
    BY <2>1, <2>2, <1>6 DEF AnyIterator
  <2>6. Awaiting'
    <3>1. iterator.operation \notin GetOperations /\ iterator.operation \notin SendOperations
      BY <2>3, Verbs
    <3> QED
      BY <3>1, <2>4, <2>5, <1>2, <1>6 DEF Awaiting
  <2>7. AwaitInv'
    BY <2>4, <2>5, <2>6 DEF AwaitInv
  <2>8. CallsOK'
    BY <2>4, <2>5, <2>7, <1>2, <1>6, NothingIsTyped DEF CallsOK
  <2> QED
    BY <2>8, <1>3, <1>4, HandStays DEF QueriesInv
<1> QED
  BY <1>1, <1>5, <1>6 DEF NextPage

\* What parameters of a request for a single entity are made into.
LEMMA GetUrlIs ==
    ASSUME Sound(content), NEW operation \in GetOperations, NEW params \in GetParams(operation)
    PROVE  /\ GetUrl(operation, params) \in AnyUrl
           /\ GetUrl(operation, params).under = operation.on \/ operation = CheckpointGetSingle
           /\ NamedBy(operation, params) \in AnyWanted
<1>1. /\ Ids \subseteq Nat /\ Ids \subseteq 0..MaxId /\ 0..MaxId \subseteq Nat
      /\ There(content, "namedVersion") \subseteq Ids
      /\ {"changeset", "checkpoint"} \subseteq Types /\ operation.on \in Types
  BY VersionsAre, TypesAre, GetTypes, QueriesAssumption DEF Ids, Listed
<1>2. Entities \subseteq AnyWanted /\ <<>> \in AnyWanted
  BY DEF AnyWanted
<1>3. CASE operation.on \notin {"changeset", "checkpoint"}
  <2>1. params \in [id : Ids]
    BY <1>3 DEF GetParams
  <2>2. NamedBy(operation, params) = <<operation.on, params.id>>
    BY <2>1 DEF NamedBy
  <2>3. GetUrl(operation, params) = EntityUrl(operation.on, Part(params.id))
    BY <1>3 DEF GetUrl
  <2> QED
    BY <1>1, <1>2, <2>1, <2>2, <2>3, UrlTypes DEF Entities
<1>4. CASE operation.on = "changeset"
  <2>1. params \in [changesetId : Ids] \/ params \in [changesetIndex : 0..MaxId]
    BY <1>4 DEF GetParams
  <2>2. GetUrl(operation, params) = EntityUrl("changeset", ChangesetPart(params))
    BY <1>4 DEF GetUrl
  <2>3. ChangesetPart(params) \in [form : {"none", "index", "id"}, number : Nat]
    BY <1>1, <2>1 DEF ChangesetPart
  <2>4. NamedBy(operation, params) \in Entities
    BY <1>1, <1>4, <2>1 DEF NamedBy, Entities
  <2> QED
    BY <1>1, <1>2, <1>4, <2>2, <2>3, <2>4 DEF EntityUrl, AnyUrl
<1>5. CASE operation.on = "checkpoint"
  <2>1. \/ params \in [changesetId : Ids] \/ params \in [changesetIndex : 0..MaxId]
        \/ params \in [namedVersionId : There(content, "namedVersion")] \/ params = <<>>
    BY <1>5 DEF GetParams
  <2>2. GetUrl(operation, params) = CheckpointUrl(params)
    BY <1>5 DEF GetUrl
  <2>3. CheckpointUrl(params) \in AnyUrl
    <3>1. CASE params = <<>>
      <4>1. DOMAIN params = {}
        BY <3>1
      <4>2. CheckpointUrl(params) = [under |-> "briefcases", part |-> [form |-> "id", number |-> 0]]
        BY ONLY <4>1 DEF CheckpointUrl
      <4> QED
        BY ONLY <4>2 DEF AnyUrl
    <3>2. CASE params \in [namedVersionId : There(content, "namedVersion")]
      <4>1. CheckpointUrl(params) = [under |-> "namedVersions", part |-> [form |-> "id", number |-> params.namedVersionId]]
        BY <3>2 DEF CheckpointUrl
      <4> QED
        <5>1. params.namedVersionId \in Nat
          BY <1>1, <3>2
        <5> QED
          BY <5>1, <4>1 DEF AnyUrl
    <3>3. CASE params \in [changesetId : Ids] \/ params \in [changesetIndex : 0..MaxId]
      <4>1. DOMAIN params = {"changesetId"} \/ DOMAIN params = {"changesetIndex"}
        BY <3>3
      <4>2. CheckpointUrl(params) = [under |-> "changesets", part |-> ChangesetPart(params)]
        BY <4>1 DEF CheckpointUrl
      <4>3. ChangesetPart(params) \in [form : {"none", "index", "id"}, number : Nat]
        BY <1>1, <3>3 DEF ChangesetPart
      <4> QED
        BY <4>2, <4>3 DEF AnyUrl
    <3> QED
      BY <2>1, <3>1, <3>2, <3>3
  <2>4. NamedBy(operation, params) \in Entities \union {<<>>}
    <3>1. CASE params = <<>>
      BY <3>1 DEF NamedBy
    <3>2. CASE params \in [namedVersionId : There(content, "namedVersion")]
      BY <1>1, <1>5, <3>2, VersionsAre DEF NamedBy, Entities
    <3>3. CASE params \in [changesetId : Ids] \/ params \in [changesetIndex : 0..MaxId]
      BY <1>1, <1>5, <3>3 DEF NamedBy, Entities
    <3> QED
      BY <2>1, <3>1, <3>2, <3>3
  <2>5. operation = CheckpointGetSingle
    BY <1>5, GetTypes
  <2> QED
    BY <1>2, <2>2, <2>3, <2>4, <2>5
<1> QED
  BY <1>3, <1>4, <1>5

\* GetSingle keeps the invariant: its url names what the operation returns.
LEMMA GetSingleKeeps ==
    ASSUME QueriesInv, NEW operation \in Gets, GetSingle(operation) PROVE QueriesInv'
<1>1. PICK params \in GetParams(operation), caller \in Callers(Headers) :
        /\ Begin
        /\ call' = NewCall("get", 0, NamedBy(operation, params), caller)
        /\ Ask(operation, GetUrl(operation, params), <<>>, 0)
        /\ LeaveList /\ LeaveEntity
        /\ outcome' = NoOutcome
        /\ UNCHANGED history
  BY DEF GetSingle
<1>2. operation \in GetOperations
  BY QueriesAssumption
<1>3. PICK url : url = GetUrl(operation, params)
  OBVIOUS
<1>4. PICK wanted : wanted = NamedBy(operation, params)
  OBVIOUS
<1>5. url \in AnyUrl /\ (url.under = operation.on \/ operation = CheckpointGetSingle) /\ wanted \in AnyWanted
  BY <1>2, <1>3, <1>4, GetUrlIs DEF QueriesInv, ServiceOK
<1>6. caller \in AnyCaller
  BY CallersAre, QueriesAssumption DEF QueriesInv, ServiceOK
<1>7. PICK c : c = NewCall("get", 0, wanted, caller)
  OBVIOUS
<1>8. c \in AnyCall /\ c.what = "get"
  <2>1. "get" \in AnyWhat
    BY DEF AnyWhat
  <2>2. 0 \in Nat /\ <<>> \in Seq(Ids)
    OBVIOUS
  <2> QED
    BY ONLY <2>1, <2>2, <1>5, <1>6, <1>7 DEF NewCall, AnyCall
<1>9. operation \notin SendOperations
  BY <1>2, Verbs DEF Operations
<1>10. CallsOK'
  BY <1>1, <1>2, <1>3, <1>4, <1>5, <1>7, <1>8, <1>9, SingleAsked DEF QueriesInv, LeaveList
<1>11. ServiceOK'
  BY <1>1, BeginKeeps DEF QueriesInv, ServiceOK
<1> QED
  BY <1>1, <1>10, <1>11, HandIsLeft DEF QueriesInv

\* SendRequest keeps the invariant.
LEMMA SendRequestKeeps ==
    ASSUME QueriesInv, NEW operation \in Sends, SendRequest(operation) PROVE QueriesInv'
<1>1. PICK caller \in Callers(Headers) :
        /\ Begin
        /\ call' = NewCall("send", 0, <<>>, caller)
        /\ Ask(operation, EntityUrl(operation.on, Part(1)), <<>>, 0)
        /\ LeaveEntity
        /\ outcome' = NoOutcome
        /\ UNCHANGED <<iterator, history>>
  BY DEF SendRequest
<1>2. operation \in SendOperations
  BY QueriesAssumption
<1>3. EntityUrl(operation.on, Part(1)) \in AnyUrl
  BY <1>2, SentTypes, UrlTypes
<1>4. caller \in AnyCaller
  BY CallersAre, QueriesAssumption DEF QueriesInv, ServiceOK
<1>5. PICK c : c = NewCall("send", 0, <<>>, caller)
  OBVIOUS
<1>6. c \in AnyCall /\ c.what = "send"
  <2>1. "send" \in AnyWhat /\ <<>> \in AnyWanted
    BY DEF AnyWhat, AnyWanted
  <2> QED
    BY <2>1, <1>4, <1>5, NewCallIs
<1>7. operation \notin GetOperations
  BY <1>2, Verbs DEF Operations
<1>8. CallsOK'
  BY <1>1, <1>2, <1>3, <1>5, <1>6, <1>7, SingleAsked DEF QueriesInv
<1>9. ServiceOK'
  BY <1>1, BeginKeeps DEF QueriesInv, ServiceOK
<1> QED
  BY <1>1, <1>8, <1>9, HandIsLeft DEF QueriesInv

\* What a link is followed to names a type and a number.
LEMMA FollowedUrlIs ==
    ASSUME NEW f \in AttachedNames, NEW entity \in Entities, entity[1] = Target(f), NEW link \in Links(entity)
    PROVE  /\ UrlOfLink(f, link) \in AnyUrl
           /\ UrlOfLink(f, link).under = AttachedFunction[f].operation.on
              \/ AttachedFunction[f].operation = CheckpointGetSingle
<1>1. /\ link.on = entity[1] /\ link.part \in [form : {"index", "id"}, number : 0..MaxId]
  BY DEF Links, Entities
<1>2. 0..MaxId \subseteq Nat /\ {"user", "changeset", "namedVersion", "checkpoint"} \subseteq Types
  BY QueriesAssumption, TypesAre DEF Listed
<1>3. UserGetSingle.on = "user" /\ ChangesetGetSingle.on = "changeset" /\ NamedVersionGetSingle.on = "namedVersion"
  BY DEF UserGetSingle, ChangesetGetSingle, NamedVersionGetSingle, Get, Operation
<1>4. ParseChangesetIdOrIndex(link.part) \in [changesetIndex : Nat] \union [changesetId : Nat]
  BY <1>1, <1>2 DEF ParseChangesetIdOrIndex
<1>5. ChangesetPart(ParseChangesetIdOrIndex(link.part)) \in [form : {"none", "index", "id"}, number : Nat]
  BY <1>4 DEF ChangesetPart
<1>6. CASE f \in {"getCreator", "getOwner"}
  <2>1. UrlOfLink(f, link) = EntityUrl("user", link.part) /\ AttachedFunction[f].operation = UserGetSingle
    BY <1>1, <1>6, AttachedAre DEF UrlOfLink, Target, GetCreator, GetOwner
  <2> QED
    BY <1>1, <1>2, <1>3, <2>1 DEF EntityUrl, AnyUrl
<1>7. CASE f = "getNamedVersion"
  <2>1. /\ UrlOfLink(f, link) = EntityUrl("namedVersion", link.part)
        /\ AttachedFunction[f].operation = NamedVersionGetSingle
    BY <1>1, <1>7, AttachedAre DEF UrlOfLink, Target, GetNamedVersion
  <2> QED
    BY <1>1, <1>2, <1>3, <2>1 DEF EntityUrl, AnyUrl
<1>8. CASE f = "getChangeset"
  <2>1. /\ UrlOfLink(f, link) = EntityUrl("changeset", ChangesetPart(ParseChangesetIdOrIndex(link.part)))
        /\ AttachedFunction[f].operation = ChangesetGetSingle
    BY <1>8, AttachedAre DEF UrlOfLink, GetChangeset
  <2> QED
    BY <1>2, <1>3, <1>5, <2>1 DEF EntityUrl, AnyUrl
<1>9. CASE f = "getCheckpoint"
  <2>1. /\ UrlOfLink(f, link) = [under |-> "changesets", part |-> link.part]
        /\ AttachedFunction[f].operation = CheckpointGetSingle
    BY <1>9, AttachedAre DEF UrlOfLink, GetCheckpoint
  <2> QED
    BY <1>1, <1>2, <2>1 DEF AnyUrl
<1>10. CASE f = "getCurrentOrPrecedingCheckpoint"
  <2>1. /\ UrlOfLink(f, link) = CheckpointUrl(ParseChangesetIdOrIndex(link.part))
        /\ AttachedFunction[f].operation = CheckpointGetSingle
    BY <1>10, AttachedAre DEF UrlOfLink, GetCurrentOrPrecedingCheckpoint
  <2>2. CheckpointUrl(ParseChangesetIdOrIndex(link.part)) \in AnyUrl
    BY <1>4, <1>5 DEF CheckpointUrl, AnyUrl
  <2> QED
    BY <2>1, <2>2
<1> QED
  BY <1>6, <1>7, <1>8, <1>9, <1>10 DEF AttachedNames

\* Follow keeps the invariant: the url of a link names the type the function returns.
LEMMA FollowKeeps ==
    ASSUME QueriesInv, NEW f \in DOMAIN hand.linked, Follow(f) PROVE QueriesInv'
<1>1. f \in AttachedNames /\ hand.linked[f] \subseteq Entities /\ hand.caller \in AnyCaller
      /\ \A entity \in hand.linked[f] : entity[1] = Target(f) /\ entity[2] \in There(content, entity[1])
  BY HandNames DEF QueriesInv, HandOK, LinksLead, AnyHand
<1>2. Begin /\ UNCHANGED <<iterator, hand, history>>
  BY DEF Follow
<1>3. ServiceOK' /\ Keeps(content, content')
  BY <1>2, BeginKeeps DEF QueriesInv, ServiceOK
<1>4. CASE hand.linked[f] = {} /\ Return(NewCall("follow", 0, <<>>, hand.caller), "undefined", <<>>)
  <2>1. PICK c : c = NewCall("follow", 0, <<>>, hand.caller)
    OBVIOUS
  <2>2. c \in AnyCall /\ <<>> \in AnyList
    BY <1>1, <2>1, NewCallIs DEF AnyWhat, AnyWanted, AnyList
  <2>3. Return(c, "undefined", <<>>)
    BY <1>4, <2>1
  <2>4. CallsOK'
    BY <1>2, <2>2, <2>3, IteratorStays, Returned DEF QueriesInv
  <2> QED
    BY <1>2, <1>3, <2>4, HandStays DEF QueriesInv
<1>5. CASE /\ \E entity \in hand.linked[f] : \E link \in Links(entity) :
                /\ call' = NewCall("follow", 0, entity, hand.caller)
                /\ Ask(AttachedFunction[f].operation, UrlOfLink(f, link), <<>>, 0)
           /\ outcome' = NoOutcome
  <2>1. PICK entity \in hand.linked[f] : \E link \in Links(entity) :
                /\ call' = NewCall("follow", 0, entity, hand.caller)
                /\ Ask(AttachedFunction[f].operation, UrlOfLink(f, link), <<>>, 0)
    BY <1>5
  <2>2. PICK link \in Links(entity) :
                /\ call' = NewCall("follow", 0, entity, hand.caller)
                /\ Ask(AttachedFunction[f].operation, UrlOfLink(f, link), <<>>, 0)
    BY <2>1
  <2>3. PICK c : c = NewCall("follow", 0, entity, hand.caller)
    OBVIOUS
  <2>4. entity \in AnyWanted
    BY <1>1 DEF AnyWanted
  <2>5. c \in AnyCall /\ c.what = "follow"
    BY <1>1, <2>3, <2>4, NewCallIs DEF AnyWhat
  <2>6. PICK operation : operation = AttachedFunction[f].operation
    OBVIOUS
  <2>7. PICK url : url = UrlOfLink(f, link)
    OBVIOUS
  <2>8. url \in AnyUrl /\ (url.under = operation.on \/ operation = CheckpointGetSingle)
    BY <1>1, <2>6, <2>7, FollowedUrlIs
  <2>9. operation \in GetOperations /\ operation \notin SendOperations
    <3>1. operation \in GetOperations
      BY <1>1, <2>6, AttachedAre
    <3> QED
      BY <3>1, Verbs DEF Operations
  <2>10. call' = c /\ Ask(operation, url, <<>>, 0)
    BY <2>2, <2>3, <2>6, <2>7
  <2>11. CallsOK'
    BY <1>2, <1>5, <2>5, <2>8, <2>9, <2>10, SingleAsked DEF QueriesInv
  <2> QED
    BY <1>2, <1>3, <2>11, HandStays DEF QueriesInv
<1> QED
  BY <1>4, <1>5 DEF Follow

\* A question changes nothing of the service.
LEMMA QuestionIs ==
    ASSUME QueriesInv, NEW q \in Questions, Question(q)
    PROVE  ServiceOK' /\ HandOK' /\ content' = content
<1>1. Begin /\ LeaveEntity /\ history' = [right |-> {RightAnswer(content, q)}, disturbed |-> FALSE]
  BY DEF Question
<1>2. RightAnswer(content, q) \in AnyList
  BY RightAnswerIsList DEF QueriesInv, ServiceOK
<1>3. history' \in [right : SUBSET AnyList, disturbed : BOOLEAN]
  BY <1>1, <1>2
<1> QED
  BY <1>1, <1>3, BeginKeeps, HandIsLeft DEF QueriesInv

\* Questions that read a list keep the invariant.
LEMMA AskListKeeps ==
    ASSUME QueriesInv, NEW q \in Questions, q.ask \in ListAsks, NEW operation \in ListOperations,
           NEW params, FormQueryString(params) \in AnyQuery, NEW want \in Nat, AskList(q, operation, params, want)
    PROVE  QueriesInv'
<1>1. PICK caller \in Callers({<<>>}) :
        /\ Question(q)
        /\ call' = NewCall("question", want, q, caller)
        /\ iterator' = NewIterator(operation, params, caller)
        /\ Ask(operation, ListUrl(operation.on), FormQueryString(params), 0)
        /\ outcome' = NoOutcome
  BY DEF AskList
<1>2. caller \in AnyCaller
  BY CallersAre, QueriesAssumption DEF QueriesInv, ServiceOK
<1>3. PICK c : c = NewCall("question", want, q, caller)
  OBVIOUS
<1>4. c \in AnyCall /\ c.what = "question" /\ c.want = want /\ c.got = <<>> /\ c.wanted = q
  <2>1. "question" \in AnyWhat /\ q \in AnyWanted
    BY DEF AnyWhat, AnyWanted
  <2>2. want \in Nat /\ c = NewCall("question", want, q, caller)
    BY <1>3
  <2> QED
    BY ONLY <2>1, <2>2, <1>2, NewCallIs
<1>5. PICK it : it = NewIterator(operation, params, caller)
  OBVIOUS
<1>6. /\ it \in AnyIterator /\ it.operation = operation /\ it.query = FormQueryString(params)
      /\ it.next = {0} /\ it.fetched = <<>> /\ ~it.failed /\ it.buffer = <<>>
  BY <1>2, <1>5, NewIteratorIs DEF QueriesInv, ServiceOK
<1>7. operation \in Operations /\ operation \notin GetOperations /\ operation \notin SendOperations
      /\ ListUrl(operation.on) \in AnyUrl
  <2>1. operation \in Operations
    BY DEF Operations
  <2> QED
    BY <2>1, Verbs, UrlTypes
<1>8. /\ step' = "authorizing" /\ request' \in AnyRequest
      /\ request'.operation = operation
      /\ request'.query = FormQueryString(params) /\ request'.skip = 0
  BY <1>1, <1>7, AskIs DEF QueriesInv, CallsOK
<1>9. call' = c /\ iterator' = it
  BY <1>1, <1>3, <1>5
<1>10. Awaiting'
  BY <1>4, <1>6, <1>7, <1>8, <1>9 DEF Awaiting
<1>11. AwaitInv'
  BY <1>6, <1>8, <1>9, <1>10 DEF AwaitInv
<1>12. CallsOK'
  BY <1>1, <1>4, <1>6, <1>8, <1>9, <1>11, NothingIsTyped DEF CallsOK
<1> QED
  BY <1>1, <1>12, QuestionIs DEF QueriesInv

\* Questions for a changeset keep the invariant.
LEMMA AskChangesetKeeps ==
    ASSUME QueriesInv, NEW q \in Questions, NEW params \in [changesetId : Nat] \union [changesetIndex : Nat],
           AskChangeset(q, params)
    PROVE  QueriesInv'
<1>1. PICK caller \in Callers({<<>>}) :
        /\ Question(q)
        /\ call' = NewCall("question", 0, q, caller)
        /\ Ask(ChangesetGetSingle, EntityUrl("changeset", ChangesetPart(params)), <<>>, 0)
        /\ LeaveList
        /\ outcome' = NoOutcome
  BY DEF AskChangeset
<1>2. caller \in AnyCaller
  BY CallersAre, QueriesAssumption DEF QueriesInv, ServiceOK
<1>3. PICK c : c = NewCall("question", 0, q, caller)
  OBVIOUS
<1>4. c \in AnyCall /\ c.what = "question" /\ c.wanted = q
  <2>1. "question" \in AnyWhat /\ q \in AnyWanted
    BY DEF AnyWhat, AnyWanted
  <2> QED
    BY <2>1, <1>2, <1>3, NewCallIs
<1>5. PICK url : url = EntityUrl("changeset", ChangesetPart(params))
  OBVIOUS
<1>6. url \in AnyUrl /\ url.under = "changeset"
  <2>1. ChangesetPart(params) \in [form : {"none", "index", "id"}, number : Nat]
    BY DEF ChangesetPart
  <2> QED
    BY <2>1, <1>5, TypesAre DEF EntityUrl, AnyUrl, Listed
<1>7. ChangesetGetSingle \in GetOperations /\ ChangesetGetSingle \notin SendOperations
  <2>1. ChangesetGetSingle \in GetOperations
    BY DEF GetOperations
  <2> QED
    BY <2>1, Verbs DEF Operations
<1>8. ChangesetGetSingle.on = "changeset"
  BY <1>7, GetTypes
<1>9. CallsOK'
  <2>1. call' = c /\ Ask(ChangesetGetSingle, url, <<>>, 0)
    BY <1>1, <1>3, <1>5
  <2> QED
    BY <1>1, <1>4, <1>6, <1>7, <1>8, <2>1, SingleAsked DEF QueriesInv, LeaveList
<1> QED
  BY <1>1, <1>9, QuestionIs DEF QueriesInv

\* The first version is known without a request.
LEMMA FirstVersionKeeps ==
    ASSUME QueriesInv, NEW q \in Questions, GetFirstVersion(q) PROVE QueriesInv'
<1>1. /\ Question(q) /\ LeaveList
      /\ Return(NewCall("question", 0, q, Nobody), "returned", <<0>>)
  BY DEF GetFirstVersion
<1>2. PICK c : c = NewCall("question", 0, q, Nobody)
  OBVIOUS
<1>3. c \in AnyCall
  <2>1. "question" \in AnyWhat /\ q \in AnyWanted /\ Nobody \in AnyCaller
    BY NothingIsTyped DEF AnyWhat, AnyWanted
  <2> QED
    BY <2>1, <1>2, NewCallIs
<1>4. <<0>> \in AnyList
  BY QueriesAssumption DEF AnyList
<1>5. CallsOK'
  <2>1. Return(c, "returned", <<0>>)
    BY <1>1, <1>2
  <2> QED
    BY <2>1, <1>1, <1>3, <1>4, Returned, NothingIsTyped DEF QueriesInv, LeaveList, NoIterator
<1> QED
  BY <1>1, <1>5, QuestionIs DEF QueriesInv

\* What the adapters ask of a list.
LEMMA QuestionQueries ==
    ASSUME NEW q \in Questions
    PROVE  /\ FormQueryString(ByChangesetIndex) \in AnyQuery
           /\ FormQueryString([name |-> q.name]) \in AnyQuery
           /\ FormQueryString(ToChangesetRangeUrlParams(q.range)) \in AnyQuery
           /\ LatestChangesetList(q.side) \in ListOperations
           /\ ChangesetGetRepresentationList \in ListOperations
           /\ NamedVersionGetMinimalList \in ListOperations /\ IModelGetMinimalList \in ListOperations
           /\ ToChangesetIdOrIndex(q.changeset) \in [changesetId : Nat] \union [changesetIndex : Nat]
           /\ [changesetId |-> q.changeset.number] \in [changesetId : Nat] \union [changesetIndex : Nat]
<1>1. q.changeset \in [form : {"id", "index"}, number : Nat]
  BY QuestionsAssumption
<1>2. /\ FormQueryString(ByChangesetIndex) \in AnyQuery
      /\ FormQueryString([name |-> q.name]) \in AnyQuery
      /\ FormQueryString(ToChangesetRangeUrlParams(q.range)) \in AnyQuery
  BY DEF AnyQuery
<1>3. /\ LatestChangesetList(q.side) \in ListOperations
      /\ ChangesetGetRepresentationList \in ListOperations
      /\ NamedVersionGetMinimalList \in ListOperations /\ IModelGetMinimalList \in ListOperations
  BY DEF LatestChangesetList, ListOperations
<1>4. ToChangesetIdOrIndex(q.changeset) \in [changesetId : Nat] \union [changesetIndex : Nat]
  BY <1>1 DEF ToChangesetIdOrIndex
<1> QED
  BY <1>1, <1>2, <1>3, <1>4

QuestionAsked(q) == \/ GetChangesetFromVersion(q)
                    \/ q.ask = "latestNamedVersion" /\ GetChangesetFromLatestNamedVersion(q)
                    \/ q.ask = "iModel" /\ QueryIModelByName(q)
                    \/ q.ask = "range" /\ QueryChangesets(q)

\* The ways a question is asked, one for each of the adapters' functions.
LEMMA QuestionKinds ==
    ASSUME NEW q \in Questions, QuestionAsked(q)
    PROVE  \/ q.ask = "first" /\ GetFirstVersion(q)
           \/ q.ask = "changeset" /\ q.side = "backend" /\ AskChangeset(q, ToChangesetIdOrIndex(q.changeset))
           \/ q.ask = "changeset" /\ q.side = "frontend" /\ AskChangeset(q, [changesetId |-> q.changeset.number])
           \/ q.ask = "latest" /\ AskList(q, LatestChangesetList(q.side), ByChangesetIndex, 1)
           \/ q.ask = "namedVersion" /\ AskList(q, NamedVersionGetMinimalList, [name |-> q.name], 0)
           \/ q.ask = "latestNamedVersion" /\ AskList(q, NamedVersionGetMinimalList, ByChangesetIndex, 1)
           \/ q.ask = "iModel" /\ AskList(q, IModelGetMinimalList, [name |-> q.name], 0)
           \/ q.ask = "range" /\ AskList(q, ChangesetGetRepresentationList, ToChangesetRangeUrlParams(q.range), 0)
BY Zenon DEF QuestionAsked, GetChangesetFromVersion, GetChangesetFromLatestNamedVersion, QueryIModelByName,
   QueryChangesets, QueryChangeset, GetChangesetFromId, GetNamedVersionChangeset, GetLatestChangeset

\* Questions keep the invariant.
LEMMA QuestionKeeps ==
    ASSUME QueriesInv, NEW q \in Questions, QuestionAsked(q) PROVE QueriesInv'
<1>1. CASE q.ask = "first" /\ GetFirstVersion(q)
  BY <1>1, FirstVersionKeeps
<1>2. CASE AskChangeset(q, ToChangesetIdOrIndex(q.changeset))
  BY <1>2, QuestionQueries, AskChangesetKeeps
<1>3. CASE AskChangeset(q, [changesetId |-> q.changeset.number])
  BY <1>3, QuestionQueries, AskChangesetKeeps
<1>4. CASE q.ask = "latest" /\ AskList(q, LatestChangesetList(q.side), ByChangesetIndex, 1)
  BY <1>4, QuestionQueries, AskListKeeps DEF ListAsks
<1>5. CASE q.ask = "namedVersion" /\ AskList(q, NamedVersionGetMinimalList, [name |-> q.name], 0)
  BY <1>5, QuestionQueries, AskListKeeps DEF ListAsks
<1>6. CASE q.ask = "latestNamedVersion" /\ AskList(q, NamedVersionGetMinimalList, ByChangesetIndex, 1)
  BY <1>6, QuestionQueries, AskListKeeps DEF ListAsks
<1>7. CASE q.ask = "iModel" /\ AskList(q, IModelGetMinimalList, [name |-> q.name], 0)
  BY <1>7, QuestionQueries, AskListKeeps DEF ListAsks
<1>8. CASE q.ask = "range" /\ AskList(q, ChangesetGetRepresentationList, ToChangesetRangeUrlParams(q.range), 0)
  BY <1>8, QuestionQueries, AskListKeeps DEF ListAsks
<1> QED
  BY <1>1, <1>2, <1>3, <1>4, <1>5, <1>6, <1>7, <1>8, QuestionKinds

\* Authorized keeps the invariant: headers are formed anew.
LEMMA AuthorizedKeeps ==
    ASSUME QueriesInv, Authorized PROVE QueriesInv'
<1>1. /\ step = "authorizing" /\ step' = "sent"
      /\ request' = [request EXCEPT !.formedAt = expired,
                         !.headers = FormHeaders(request.operation, Token(call.caller), call.caller.headers)]
      /\ UNCHANGED <<service, calls, call, iterator, hand, outcome, history>>
  BY DEF Authorized
<1>2. PICK headers : headers = FormHeaders(request.operation, Token(call.caller), call.caller.headers)
  OBVIOUS
<1>3. headers \in AnyHeaders
  <2>1. PICK caller : caller = [headers |-> call.caller.headers, token |-> Token(call.caller)]
    OBVIOUS
  <2>2. call.caller \in AnyCaller /\ expired \in Nat /\ request.operation \in Operations
    BY QueriesAssumption DEF QueriesInv, CallsOK, ServiceOK, AnyCall, AnyRequest
  <2>3. caller \in AnyCaller
    BY <2>1, <2>2 DEF AnyCaller, Token
  <2>4. headers = FormHeaders(request.operation, caller.token, caller.headers)
    BY <1>2, <2>1
  <2> QED
    BY <2>2, <2>3, <2>4 DEF AnyHeaders
<1>4. /\ request' \in AnyRequest /\ request'.operation = request.operation /\ request'.url = request.url
      /\ request'.query = request.query /\ request'.skip = request.skip
  <2>1. request \in AnyRequest /\ expired \in 0..MaxExpired
    BY DEF QueriesInv, CallsOK, ServiceOK
  <2>2. request' = [request EXCEPT !.formedAt = expired, !.headers = headers]
    BY <1>1, <1>2
  <2> QED
    BY ONLY <2>1, <2>2, <1>3 DEF AnyRequest
<1>5. CallsOK'
  <2>1. Awaiting
    BY <1>1 DEF QueriesInv, CallsOK, AwaitInv
  <2>2. Awaiting'
    BY <2>1, <1>1, <1>4 DEF Awaiting
  <2>3. AwaitInv'
    BY <2>2, <1>1 DEF QueriesInv, CallsOK, AwaitInv
  <2> QED
    BY <2>3, <1>1, <1>4 DEF QueriesInv, CallsOK
<1>6. ServiceOK' /\ HandOK'
  BY <1>1 DEF QueriesInv, ServiceOK, HandOK, service
<1> QED
  BY <1>5, <1>6 DEF QueriesInv

\* A failure ends the call, and the list if it was for a page.
LEMMA FailKeeps ==
    ASSUME CallsOK, step # "idle", NEW came \in {"notFound", "unauthorized", "failed"}, Fail(came)
    PROVE  CallsOK' /\ UNCHANGED <<expired, calls, hand>>
<1>1. Return(call, came, <<>>) /\ UNCHANGED <<expired, calls, hand>>
  BY DEF Fail
<1>2. /\ iterator \in AnyIterator /\ iterator.next \subseteq {Len(iterator.fetched)}
      /\ iterator.failed => iterator.next = {}
      /\ call \in AnyCall
  BY DEF CallsOK, AwaitInv
<1>3. <<>> \in AnyList
  BY DEF AnyList
<1>4. CASE iterator' = iterator
  BY <1>1, <1>2, <1>3, <1>4, Returned
<1>5. CASE iterator' = [iterator EXCEPT !.next = {}, !.failed = TRUE]
  <2>1. iterator' \in AnyIterator /\ iterator'.next = {}
    BY <1>2, <1>5 DEF AnyIterator
  <2> QED
    BY <2>1, <1>1, <1>2, <1>3, Returned
<1> QED
  BY <1>1, <1>4, <1>5 DEF Fail

\* A failure before the service did anything keeps the invariant.
LEMMA OutrightFailureKeeps ==
    ASSUME QueriesInv, step # "idle", NEW came \in {"notFound", "unauthorized", "failed"}, Fail(came),
           UNCHANGED <<content, changes, history>>
    PROVE  QueriesInv'
<1>1. CallsOK' /\ UNCHANGED <<expired, calls, hand>>
  BY FailKeeps DEF QueriesInv
<1>2. ServiceOK' /\ HandOK'
  BY <1>1 DEF QueriesInv, ServiceOK, HandOK
<1> QED
  BY <1>1, <1>2 DEF QueriesInv

\* What is sent may be done though its answer does not come.
LEMMA RequestFailsKeeps ==
    ASSUME QueriesInv, RequestFails PROVE QueriesInv'
<1>1. step # "idle" /\ Fail("failed")
  BY DEF RequestFails
<1>2. CASE UNCHANGED <<content, changes, history>>
  BY <1>1, <1>2, OutrightFailureKeeps
<1>3. CASE /\ request.operation \in SendOperations /\ ~TokenRefused
           /\ \E effect \in Effects(content, request.operation) : Becomes(effect[1])
  <2>1. CallsOK' /\ UNCHANGED <<expired, calls, hand>>
    BY <1>1, FailKeeps DEF QueriesInv
  <2>2. PICK effect \in Effects(content, request.operation) : Becomes(effect[1])
    BY <1>3
  <2>3. Asked(call) => call.wanted \in Questions
    BY <1>1 DEF QueriesInv, CallsOK, AwaitInv, Awaiting, Asked
  <2>4. ServiceOK' /\ Keeps(content, content')
    BY <1>3, <2>1, <2>2, <2>3, BecomesKeeps DEF QueriesInv
  <2> QED
    BY <2>1, <2>4, HandStays DEF QueriesInv
<1> QED
  BY <1>2, <1>3 DEF RequestFails

\* The page that comes for a request of a list.
LEMMA PageThatComes ==
    ASSUME QueriesInv, step = "sent", request.operation.verb = "list",
           NEW page, page = PageOf(content, request.operation.on, request.query, request.skip)
    PROVE  /\ Awaiting /\ request.operation \in ListOperations /\ iterator \in AnyIterator /\ call \in AnyCall
           /\ page.entities \in Seq(Ids) /\ page.entities \in AnyList
           /\ page.next \subseteq {Len(iterator.fetched \o page.entities)} /\ page.next \subseteq Nat
           /\ iterator.fetched \o page.entities \in Seq(Ids)
           /\ iterator.given \o page.entities \in Seq(Ids)
           /\ ToSet(page.entities) \subseteq There(content, request.operation.on)
           /\ ~iterator.failed
<1>1. /\ Awaiting /\ iterator \in AnyIterator /\ call \in AnyCall /\ request \in AnyRequest
      /\ iterator.failed => iterator.next = {}
      /\ Sound(content)
  BY DEF QueriesInv, CallsOK, AwaitInv, ServiceOK
<1>2. request.operation \in ListOperations /\ request.operation.on \in Listed
  <2>1. request.operation \in Operations
    BY <1>1 DEF AnyRequest
  <2> QED
    BY <2>1, Verbs, ListedOperations
<1>3. request.query \in AnyQuery /\ request.skip \in Nat
  BY <1>1 DEF AnyRequest
<1>4. request.skip = Len(iterator.fetched) /\ iterator.next = {request.skip}
  BY <1>1, <1>2 DEF Awaiting
<1>5. /\ page.entities \in Seq(Ids) /\ page.next \subseteq {request.skip + Len(page.entities)}
      /\ \A i \in 1..Len(page.entities) : page.entities[i] \in There(content, request.operation.on)
  BY <1>1, <1>2, <1>3, PageIs
<1>6. iterator.fetched \in Seq(Ids) /\ iterator.given \in Seq(Ids)
  BY <1>1 DEF AnyIterator
<1>7. Len(iterator.fetched \o page.entities) = request.skip + Len(page.entities)
      /\ iterator.fetched \o page.entities \in Seq(Ids) /\ iterator.given \o page.entities \in Seq(Ids)
      /\ Len(page.entities) \in Nat
  BY <1>4, <1>5, <1>6
<1>8. page.entities \in AnyList
  <2>1. Ids \subseteq 0..MaxId
    BY QueriesAssumption DEF Ids
  <2> QED
    BY <2>1, <1>5, SeqMonotonic DEF AnyList
<1>9. ToSet(page.entities) \subseteq There(content, request.operation.on)
  <2>1. DOMAIN page.entities = 1..Len(page.entities)
    BY <1>5
  <2> QED
    BY <2>1, <1>5 DEF ToSet
<1>10. ~iterator.failed
  BY <1>1, <1>4
<1>11. page.next \subseteq {Len(iterator.fetched \o page.entities)} /\ page.next \subseteq Nat
  BY <1>3, <1>5, <1>7
<1> QED
  BY <1>1, <1>2, <1>5, <1>7, <1>8, <1>9, <1>10, <1>11

\* PageAnswered keeps the invariant: the next request is for what follows the page.
LEMMA PageAnsweredKeeps ==
    ASSUME QueriesInv, PageAnswered PROVE QueriesInv'
<1>1. step = "sent" /\ request.operation.verb = "list" /\ UNCHANGED <<service, calls, history>>
  BY DEF PageAnswered
<1>2. PICK page : page = PageOf(content, request.operation.on, request.query, request.skip)
  OBVIOUS
<1>3. PICK it : it = [iterator EXCEPT !.next = page.next, !.fetched = iterator.fetched \o page.entities]
  OBVIOUS
<1>4. /\ Awaiting /\ request.operation \in ListOperations /\ iterator \in AnyIterator /\ call \in AnyCall
      /\ page.entities \in Seq(Ids) /\ page.entities \in AnyList
      /\ page.next \subseteq {Len(iterator.fetched \o page.entities)} /\ page.next \subseteq Nat
      /\ iterator.fetched \o page.entities \in Seq(Ids)
      /\ iterator.given \o page.entities \in Seq(Ids)
      /\ ToSet(page.entities) \subseteq There(content, request.operation.on)
      /\ ~iterator.failed
  BY <1>1, <1>2, PageThatComes
<1>5. /\ it \in AnyIterator /\ it.next = page.next /\ it.fetched = iterator.fetched \o page.entities
      /\ ~it.failed
  BY <1>3, <1>4 DEF AnyIterator
<1>6. /\ Hold(content, request.operation, ToSet(page.entities))
      /\ \/ /\ call.what = "page"
            /\ iterator' = [it EXCEPT !.given = it.given \o page.entities]
            /\ Return(call, "returned", page.entities)
         \/ /\ call.what # "page"
            /\ ForAwait(call, [it EXCEPT !.buffer = page.entities])
  BY <1>2, <1>3 DEF PageAnswered, ContinueAt
<1>7. ServiceOK'
  BY <1>1 DEF QueriesInv, ServiceOK, service
<1>8. HandOK'
  <2>1. request.operation \in Operations /\ Sound(content) /\ hand \in AnyHand /\ LinksLead(hand.linked, content)
        /\ content' = content
    BY <1>1, <1>4 DEF Operations, QueriesInv, ServiceOK, HandOK, service
  <2>2. "getChangeset" \in request.operation.attached => request.operation.on = "namedVersion"
    BY <2>1, Verbs
  <2>3. "getChangeset" \in request.operation.attached => ToSet(page.entities) \subseteq There(content, "namedVersion")
    BY <2>2, <1>4
  <2>4. hand' \in AnyHand /\ LinksLead(hand'.linked, content)
    BY <2>1, <2>3, <1>4, <1>6, HoldIs
  <2> QED
    BY <2>1, <2>4 DEF HandOK
<1>9. CASE /\ call.what = "page"
           /\ iterator' = [it EXCEPT !.given = it.given \o page.entities]
           /\ Return(call, "returned", page.entities)
  <2>1. it.given = iterator.given
    BY <1>3, <1>4 DEF AnyIterator
  <2>2. /\ iterator' \in AnyIterator /\ iterator'.next = it.next /\ iterator'.fetched = it.fetched
        /\ ~iterator'.failed
    BY <1>4, <1>5, <1>9, <2>1 DEF AnyIterator
  <2>3. CallsOK'
    BY <2>2, <1>4, <1>5, <1>9, Returned DEF QueriesInv
  <2> QED
    BY <2>3, <1>7, <1>8 DEF QueriesInv
<1>10. CASE call.what # "page" /\ ForAwait(call, [it EXCEPT !.buffer = page.entities])
  <2>1. PICK it2 : it2 = [it EXCEPT !.buffer = page.entities]
    OBVIOUS
  <2>2. /\ it2 \in AnyIterator /\ it2.next = page.next /\ it2.fetched = it.fetched /\ ~it2.failed
    BY <2>1, <1>4, <1>5 DEF AnyIterator
  <2>3. /\ call.what \in {"take", "question"}
        /\ call.what = "take" => call.wanted = <<call.want>>
        /\ call.what = "question" => call.wanted \in Questions /\ call.wanted.ask \in ListAsks
        /\ call.want # 0 => Len(call.got) < call.want
    BY <1>4, <1>10 DEF Awaiting
  <2>4. Sound(content) /\ request \in AnyRequest /\ ForAwait(call, it2)
    BY <1>10, <2>1 DEF QueriesInv, ServiceOK, CallsOK
  <2>5. CallsOK'
    BY <2>2, <2>3, <2>4, <1>4, <1>5, ForAwaitKeeps
  <2> QED
    BY <2>5, <1>7, <1>8 DEF QueriesInv
<1> QED
  BY <1>6, <1>9, <1>10

\* What an answer of a single request returns has its type.
LEMMA SingleAnsweredKeeps ==
    ASSUME QueriesInv, SingleAnswered PROVE QueriesInv'
<1>1. step = "sent" /\ request.operation.verb = "get" /\ UNCHANGED history
  BY DEF SingleAnswered
<1>2. CASE Fail("notFound") /\ UNCHANGED <<content, changes>>
  BY <1>1, <1>2, OutrightFailureKeeps
<1>3. CASE /\ \E entity \in Found(content, request.url) :
                    /\ LinksAsserted(request.operation, {entity[2]})
                    /\ Hold(content, request.operation, {entity[2]})
                    /\ Return(call, "returned", IF Asked(call) THEN <<entity[2]>> ELSE entity)
           /\ UNCHANGED <<service, calls, iterator>>
  <2>1. PICK entity \in Found(content, request.url) :
                    /\ Hold(content, request.operation, {entity[2]})
                    /\ Return(call, "returned", IF Asked(call) THEN <<entity[2]>> ELSE entity)
    BY <1>3
  <2>2. /\ Awaiting /\ call \in AnyCall /\ request \in AnyRequest /\ Sound(content)
        /\ hand \in AnyHand /\ LinksLead(hand.linked, content) /\ content' = content
    BY <1>1, <1>3 DEF QueriesInv, ServiceOK, CallsOK, AwaitInv, HandOK, service
  <2>3. request.operation \in Operations /\ request.operation \in GetOperations /\ request.url \in AnyUrl
    <3>1. request.operation \in Operations /\ request.url \in AnyUrl
      BY <2>2 DEF AnyRequest
    <3> QED
      BY <3>1, <1>1, Verbs
  <2>4. /\ entity \in Entities
        /\ entity[2] \in There(content, entity[1]) \/ entity = <<"changeset", 0>>
        /\ request.url.under \in Types => entity[1] = request.url.under
    BY <2>1, <2>2, <2>3, FoundIsThere
  <2>5. "getChangeset" \in request.operation.attached => {entity[2]} \subseteq There(content, "namedVersion")
    <3>1. SUFFICES ASSUME "getChangeset" \in request.operation.attached
                   PROVE  entity[2] \in There(content, "namedVersion")
      OBVIOUS
    <3>2. request.operation.on = "namedVersion" /\ "namedVersion" \in Types
      BY <3>1, <2>3, Verbs
    <3>3. request.operation # CheckpointGetSingle
      BY <3>1, <2>3, GetTypes
    <3>4. request.url.under = "namedVersion"
      BY <2>2, <2>3, <3>2, <3>3 DEF Awaiting
    <3> QED
      BY <2>4, <3>2, <3>4
  <2>6. HandOK'
    <3>1. hand' \in AnyHand /\ LinksLead(hand'.linked, content)
      BY <2>1, <2>2, <2>3, <2>5, HoldIs
    <3> QED
      BY <2>2, <3>1 DEF HandOK
  <2>7. PICK got : got = IF Asked(call) THEN <<entity[2]>> ELSE entity
    OBVIOUS
  <2>8. got \in AnyList \union Entities
    BY <2>4, <2>7 DEF AnyList, Entities
  <2>9. Return(call, "returned", got) /\ UNCHANGED iterator
    BY <1>3, <2>1, <2>7
  <2>10. CallsOK'
    BY <2>2, <2>8, <2>9, IteratorStays, Returned DEF QueriesInv
  <2>11. ServiceOK'
    BY <1>1, <1>3 DEF QueriesInv, ServiceOK, service
  <2> QED
    BY <2>6, <2>10, <2>11 DEF QueriesInv
<1> QED
  BY <1>2, <1>3 DEF SingleAnswered

\* SendAnswered keeps the invariant: what is returned is there.
LEMMA SendAnsweredKeeps ==
    ASSUME QueriesInv, SendAnswered PROVE QueriesInv'
<1>1. step = "sent" /\ request.operation \in SendOperations /\ UNCHANGED <<expired, calls, iterator>>
  BY DEF SendAnswered
<1>2. PICK effect \in Effects(content, request.operation) :
          /\ Becomes(effect[1])
          /\ Hold(effect[1], request.operation, {effect[2]})
          /\ Return(call, "returned", IF Returns(request.operation) THEN <<request.operation.on, effect[2]>>
                                      ELSE <<>>)
  BY DEF SendAnswered
<1>3. Awaiting /\ call \in AnyCall /\ Sound(content) /\ ServiceOK /\ HandOK /\ CallsOK
  BY <1>1 DEF QueriesInv, CallsOK, AwaitInv, ServiceOK
<1>4. Asked(call) => call.wanted \in Questions
  BY <1>3 DEF Awaiting, Asked
<1>5. ServiceOK' /\ Keeps(content, content') /\ content' = effect[1]
  BY <1>1, <1>2, <1>3, <1>4, BecomesKeeps
<1>6. request.operation \in Operations
  BY <1>1 DEF Operations
<1>7. Sound(effect[1]) /\ hand \in AnyHand /\ LinksLead(hand.linked, effect[1])
  BY <1>3, <1>5, HandNames, LinksStay DEF ServiceOK, HandOK
<1>8. /\ effect[2] \in 0..MaxId
      /\ request.operation.attached # {} => effect[2] \in There(effect[1], request.operation.on)
  BY <1>1, <1>3, EffectsKeep
<1>9. "getChangeset" \in request.operation.attached => {effect[2]} \subseteq There(effect[1], "namedVersion")
  BY <1>6, <1>8, Verbs
<1>10. HandOK'
  <2>1. hand' \in AnyHand /\ LinksLead(hand'.linked, effect[1])
    BY <1>2, <1>3, <1>6, <1>7, <1>9, HoldIs
  <2> QED
    BY <2>1, <1>5 DEF HandOK
<1>11. PICK got : got = IF Returns(request.operation) THEN <<request.operation.on, effect[2]>> ELSE <<>>
  OBVIOUS
<1>12. got \in AnyList \union Entities
  <2>1. request.operation.on \in Types /\ <<>> \in AnyList
    BY <1>6, Verbs DEF AnyList
  <2> QED
    BY <2>1, <1>8, <1>11 DEF Entities
<1>13. CallsOK'
  <2>1. Return(call, "returned", got)
    BY <1>2, <1>11
  <2> QED
    BY <2>1, <1>1, <1>3, <1>12, IteratorStays, Returned
<1> QED
  BY <1>5, <1>10, <1>13 DEF QueriesInv

\* Every step keeps the invariant.
LEMMA QueriesStep ==
    ASSUME QueriesInv, [Next]_vars PROVE QueriesInv'
<1>1. CASE Call
  <2>1. \A want \in Counts : Take(want) => QueriesInv'
    BY TakeKeeps
  <2>2. \A operation \in Gets : GetSingle(operation) => QueriesInv'
    BY GetSingleKeeps
  <2>3. \A operation \in Sends : SendRequest(operation) => QueriesInv'
    BY SendRequestKeeps
  <2>4. \A f \in DOMAIN hand.linked : Follow(f) => QueriesInv'
    BY FollowKeeps
  <2>5. \A q \in Questions : QuestionAsked(q) => QueriesInv'
    BY QuestionKeeps
  <2> QED
    BY <1>1, <2>1, <2>2, <2>3, <2>4, <2>5, GetListKeeps, NextPageKeeps DEF Call, QuestionAsked
<1>2. CASE Proceed
  <2>1. AuthorizationFails => QueriesInv'
    <3>1. AuthorizationFails => step # "idle" /\ Fail("failed") /\ UNCHANGED <<content, changes, history>>
      BY DEF AuthorizationFails
    <3> QED
      BY <3>1, OutrightFailureKeeps
  <2>2. Unauthorized => QueriesInv'
    <3>1. Unauthorized => step # "idle" /\ Fail("unauthorized") /\ UNCHANGED <<content, changes, history>>
      BY DEF Unauthorized
    <3> QED
      BY <3>1, OutrightFailureKeeps
  <2> QED
    BY <1>2, <2>1, <2>2, AuthorizedKeeps, RequestFailsKeeps, PageAnsweredKeeps, SingleAnsweredKeeps,
       SendAnsweredKeeps DEF Proceed
<1>3. CASE OthersChange
  BY <1>3, OthersKeep
<1>4. CASE TokenExpires
  BY <1>4, ExpiryKeeps
<1>5. CASE UNCHANGED vars
  <2>1. UNCHANGED <<content, expired, changes, calls, step, call, request, iterator, hand, outcome, history>>
    BY <1>5 DEF vars, service
  <2>2. ServiceOK' /\ HandOK'
    BY <2>1 DEF QueriesInv, ServiceOK, HandOK
  <2> QED
    BY <2>1, <2>2, CallsStay DEF QueriesInv
<1> QED
  BY <1>1, <1>2, <1>3, <1>4, <1>5 DEF Next

\* The service stays sound, every request in progress is the one its call is waiting for,
\* the page of a list that follows what was fetched, and the links of the entity at hand lead
\* to what there is: whatever the caller calls, others do and tokens expire meanwhile.
THEOREM QueriesInvariant == Spec => []QueriesInv
<1>1. Init => QueriesInv
  BY QueriesInit
<1>2. QueriesInv /\ [Next]_vars => QueriesInv'
  BY QueriesStep
<1> QED
  BY <1>1, <1>2, PTL DEF Spec

\* Every variable has its type.
THEOREM TypeCorrect == Spec => []TypeOK
<1>1. QueriesInv => TypeOK
  BY DEF QueriesInv, ServiceOK, CallsOK, HandOK, Sound, TypeOK
<1> QED
  BY <1>1, QueriesInvariant, PTL

-------------------------------------------------------------------------------
(* Headers.                                                                *)

\* What headers are after others have been added: the others' values, or none where those
\* are blank, and elsewhere what they were.
LEMMA AddedHeaders ==
    ASSUME NEW existing, NEW additional
    PROVE  LET h == AddOrUpdateHeaders(existing, additional)
           IN  /\ \A name \in DOMAIN additional : Carries(h, name, additional[name])
               /\ \A name : name \notin DOMAIN additional =>
                      /\ name \in DOMAIN h <=> name \in DOMAIN existing
                      /\ name \in DOMAIN h => h[name] = existing[name]
BY DEF AddOrUpdateHeaders, Carries

\* The headers of a request are what the client says of itself, the token it was formed
\* with among it, and what the caller gave.
LEMMA FormedHeaders ==
    ASSUME NEW operation, NEW token, NEW headers \in Headers \union {<<>>}
    PROVE  LET h == FormHeaders(operation, token, headers)
           IN  /\ h.authorization = <<token>>
               /\ \A name \in DOMAIN headers : Carries(h, name, headers[name])
               /\ \A name \in DOMAIN ClientHeaders \ DOMAIN headers : Carries(h, name, ClientHeaders[name])
<1>1. PICK own : own = [name \in {"authorization"}
                    \union {name \in {"prefer"} : operation.prefer # "none"}
                    \union {name \in {"contentType"} : ContentType(operation) # "none"} |->
                       CASE name = "authorization" -> <<token>>
                         [] name = "prefer" -> <<operation.prefer>>
                         [] name = "contentType" -> <<ContentType(operation)>>]
  OBVIOUS
<1>2. PICK mine : mine = AddOrUpdateHeaders(own, ClientHeaders)
  OBVIOUS
<1>3. PICK h : h = AddOrUpdateHeaders(mine, headers)
  OBVIOUS
<1>4. FormHeaders(operation, token, headers) = h
  BY <1>1, <1>2, <1>3 DEF FormHeaders
<1>5. "authorization" \notin DOMAIN headers /\ "authorization" \notin DOMAIN ClientHeaders
  <2>1. DOMAIN <<>> = {}
    OBVIOUS
  <2> QED
    BY <2>1, HeadersAssumption
<1>6. "authorization" \in DOMAIN own /\ own["authorization"] = <<token>>
  BY <1>1
<1>7. /\ \A name \in DOMAIN ClientHeaders : Carries(mine, name, ClientHeaders[name])
      /\ "authorization" \in DOMAIN mine /\ mine["authorization"] = <<token>>
  BY <1>2, <1>5, <1>6, AddedHeaders
<1>8. /\ \A name \in DOMAIN headers : Carries(h, name, headers[name])
      /\ \A name : name \notin DOMAIN headers =>
                      /\ name \in DOMAIN h <=> name \in DOMAIN mine
                      /\ name \in DOMAIN h => h[name] = mine[name]
  BY <1>3, AddedHeaders
<1>9. h.authorization = <<token>>
  BY <1>5, <1>7, <1>8
<1>10. \A name \in DOMAIN ClientHeaders \ DOMAIN headers : Carries(h, name, ClientHeaders[name])
  BY <1>7, <1>8 DEF Carries
<1> QED
  BY <1>4, <1>8, <1>9, <1>10

\* A request that has been sent was formed for its call, with the token that was good then
\* or the one the caller insisted on.
HeadersInv ==
    /\ request.formedAt <= expired
    /\ step = "sent" =>
           request.headers = FormHeaders(request.operation,
                                         IF call.caller.token = 0 THEN request.formedAt + 1 ELSE call.caller.token,
                                         call.caller.headers)

\* The call is not waiting for an answer: its request, if there is one, has yet to be formed.
Unsent == step' # "sent" /\ request'.formedAt \in {0, request.formedAt}

\* A request that was just made has no headers of its own yet.
LEMMA AskIsUnsent ==
    ASSUME NEW operation, NEW url, NEW query, NEW skip, request \in AnyRequest, Ask(operation, url, query, skip)
    PROVE  Unsent
BY DEF Ask, AnyRequest, Unsent

\* A call that ended sends nothing.
LEMMA ReturnIsUnsent ==
    ASSUME NEW c, NEW came, NEW got, Return(c, came, got) PROVE Unsent
BY DEF Return, NoRequest, Unsent

\* for await asks, or ends.
LEMMA ForAwaitIsUnsent ==
    ASSUME NEW c, NEW it, request \in AnyRequest, ForAwait(c, it) PROVE Unsent
<1>1. \/ \E after, left : ListRead(after, left)
      \/ \E left, skip : AskForPage(left, skip)
  BY DEF ForAwait
<1>2. CASE \E after, left : ListRead(after, left)
  BY <1>2, AskIsUnsent, ReturnIsUnsent DEF ListRead
<1>3. CASE \E left, skip : AskForPage(left, skip)
  BY <1>3, AskIsUnsent DEF AskForPage
<1> QED
  BY <1>1, <1>2, <1>3

\* Only Authorized makes a request that is sent.
LEMMA FormedOnce ==
    ASSUME QueriesInv, [Next]_vars
    PROVE  \/ Unsent /\ expired' = expired
           \/ Authorized
           \/ UNCHANGED <<step, call, request>> /\ expired' \in {expired, expired + 1}
<1>1. request \in AnyRequest
  BY DEF QueriesInv, CallsOK
<1>2. CASE Call
  <2>1. GetList => UNCHANGED <<step, call, request>> /\ expired' = expired
    BY DEF GetList, service
  <2>2. NextPage => Unsent /\ expired' = expired
    BY <1>1, AskIsUnsent, ReturnIsUnsent DEF NextPage, AskForPage, Begin, service
  <2>3. \A want \in Counts : Take(want) => Unsent /\ expired' = expired
    BY <1>1, ForAwaitIsUnsent DEF Take, Begin, service
  <2>4. \A operation \in Gets : GetSingle(operation) => Unsent /\ expired' = expired
    BY <1>1, AskIsUnsent DEF GetSingle, Begin, service
  <2>5. \A operation \in Sends : SendRequest(operation) => Unsent /\ expired' = expired
    BY <1>1, AskIsUnsent DEF SendRequest, Begin, service
  <2>6. \A f \in DOMAIN hand.linked : Follow(f) => Unsent /\ expired' = expired
    BY <1>1, AskIsUnsent, ReturnIsUnsent DEF Follow, Begin, service
  <2>7. \A q \in Questions : QuestionAsked(q) => Unsent /\ expired' = expired
    <3>1. SUFFICES ASSUME NEW q \in Questions, QuestionAsked(q) PROVE Unsent /\ expired' = expired
      OBVIOUS
    <3>2. \/ GetFirstVersion(q)
          \/ \E params : AskChangeset(q, params)
          \/ \E operation, params, want : AskList(q, operation, params, want)
      BY <3>1, QuestionKinds
    <3>3. Question(q) => expired' = expired
      BY DEF Question, Begin, service
    <3>4. CASE GetFirstVersion(q)
      BY <3>3, <3>4, ReturnIsUnsent DEF GetFirstVersion
    <3>5. CASE \E params : AskChangeset(q, params)
      BY <1>1, <3>3, <3>5, AskIsUnsent DEF AskChangeset
    <3>6. CASE \E operation, params, want : AskList(q, operation, params, want)
      BY <1>1, <3>3, <3>6, AskIsUnsent DEF AskList
    <3> QED
      BY <3>2, <3>4, <3>5, <3>6
  <2> QED
    BY <1>2, <2>1, <2>2, <2>3, <2>4, <2>5, <2>6, <2>7 DEF Call, QuestionAsked
<1>3. CASE Proceed
  <2>1. \A came : Fail(came) => Unsent /\ expired' = expired
    BY ReturnIsUnsent DEF Fail
  <2>2. AuthorizationFails \/ Unauthorized \/ RequestFails => Unsent /\ expired' = expired
    BY <2>1 DEF AuthorizationFails, Unauthorized, RequestFails
  <2>3. PageAnswered => Unsent /\ expired' = expired
    BY <1>1, ReturnIsUnsent, ForAwaitIsUnsent DEF PageAnswered, service
  <2>4. SingleAnswered => Unsent /\ expired' = expired
    BY <2>1, ReturnIsUnsent DEF SingleAnswered, service
  <2>5. SendAnswered => Unsent /\ expired' = expired
    BY ReturnIsUnsent DEF SendAnswered
  <2> QED
    BY <1>3, <2>2, <2>3, <2>4, <2>5 DEF Proceed
<1>4. CASE OthersChange
  BY <1>4 DEF OthersChange
<1>5. CASE TokenExpires
  BY <1>5 DEF TokenExpires
<1>6. CASE UNCHANGED vars
  BY <1>6 DEF vars, service
<1> QED
  BY <1>2, <1>3, <1>4, <1>5, <1>6 DEF Next

\* Every step keeps what the headers of a sent request say.
LEMMA HeadersStep ==
    ASSUME QueriesInv, HeadersInv, [Next]_vars PROVE HeadersInv'
<1>1. /\ request \in AnyRequest /\ request.formedAt \in Nat /\ expired \in Nat /\ call \in AnyCall
  BY QueriesAssumption DEF QueriesInv, CallsOK, ServiceOK, AnyRequest
<1>2. CASE Unsent /\ expired' = expired
  BY <1>1, <1>2 DEF Unsent, HeadersInv
<1>3. CASE UNCHANGED <<step, call, request>> /\ expired' \in {expired, expired + 1}
  BY <1>1, <1>3 DEF HeadersInv
<1>4. CASE Authorized
  <2>1. PICK headers : headers = FormHeaders(request.operation, Token(call.caller), call.caller.headers)
    OBVIOUS
  <2>2. /\ request' = [request EXCEPT !.formedAt = expired, !.headers = headers]
        /\ UNCHANGED <<expired, call>>
    BY <1>4, <2>1 DEF Authorized, service
  <2>3. request'.formedAt = expired /\ request'.headers = headers /\ request'.operation = request.operation
    BY <1>1, <2>2 DEF AnyRequest
  <2> QED
    BY <1>1, <2>1, <2>2, <2>3 DEF HeadersInv, Token
<1> QED
  BY <1>2, <1>3, <1>4, FormedOnce

\* Every request carries the headers of the call it is for and a token fresh when it was
\* formed, because formHeaders is called for each request after its authorization callback,
\* for later pages and attached functions as well, and never again for one already sent.
THEOREM RequestsCarry == Spec => []RequestsSpeakForCaller
<1>1. Init => HeadersInv
  BY DEF Init, HeadersInv, NoRequest
<1>2. QueriesInv /\ HeadersInv /\ [Next]_vars => HeadersInv'
  BY HeadersStep
<1>3. QueriesInv /\ HeadersInv => RequestsSpeakForCaller
  <2>1. SUFFICES ASSUME QueriesInv, HeadersInv, step = "sent" PROVE RequestsSpeakForCaller
    BY DEF RequestsSpeakForCaller
  <2>2. /\ call.caller.headers \in Headers \union {<<>>} /\ call.caller.token \in Nat
        /\ request.formedAt \in Nat /\ expired \in Nat
    BY <2>1, QueriesAssumption DEF QueriesInv, CallsOK, ServiceOK, AnyCall, AnyCaller, AnyRequest
  <2>3. PICK token : token = IF call.caller.token = 0 THEN request.formedAt + 1 ELSE call.caller.token
    OBVIOUS
  <2>4. /\ request.headers = FormHeaders(request.operation, token, call.caller.headers)
        /\ request.formedAt <= expired
    BY <2>1, <2>3 DEF HeadersInv
  <2>5. /\ request.headers.authorization = <<token>>
        /\ \A name \in DOMAIN call.caller.headers : Carries(request.headers, name, call.caller.headers[name])
        /\ \A name \in DOMAIN ClientHeaders \ DOMAIN call.caller.headers :
               Carries(request.headers, name, ClientHeaders[name])
    BY <2>2, <2>4, FormedHeaders
  <2>6. request.headers.authorization[1] = token
    BY <2>5
  <2>7. /\ call.caller.token = 0 => token > request.formedAt
        /\ call.caller.token # 0 => token = call.caller.token
        /\ token <= expired => call.caller.token # 0 \/ expired > request.formedAt
    BY <2>2, <2>3, <2>4
  <2> QED
    BY <2>5, <2>6, <2>7 DEF RequestsSpeakForCaller
<1> QED
  BY <1>1, <1>2, <1>3, QueriesInvariant, PTL DEF Spec

-------------------------------------------------------------------------------
(* Entities by name.                                                       *)

\* The entity that a url names, whether it is there or not.
Stands(now, url, entity) ==
    IF url.under = "changesets" THEN entity = <<"checkpoint", url.part.number>>
    ELSE IF url.under = "namedVersions"
    THEN /\ url.part.number \in There(now, "namedVersion")
         /\ entity = <<"checkpoint", now.madeOn[url.part.number]>>
    ELSE url.under # "briefcases" /\ entity = <<url.under, url.part.number>>

KeptTypes == {"user", "changeset", "namedVersion", "checkpoint"}

\* What is on its way names what the call is to return; a link has been followed to what
\* nobody takes away.
NamedInv ==
    step # "idle" =>
        /\ call.what = "get" /\ call.wanted # <<>> => Stands(content, request.url, call.wanted)
        /\ call.what = "follow" =>
               /\ Stands(content, request.url, call.wanted)
               /\ call.wanted[1] \in KeptTypes /\ call.wanted[2] \in There(content, call.wanted[1])

\* What is found by a url is what it names, and is found if it is there.
LEMMA StandsIsFound ==
    ASSUME NEW now, NEW url, NEW entity, Stands(now, url, entity)
    PROVE  /\ \A e \in Found(now, url) : e = entity
           /\ entity[2] \in There(now, entity[1]) => Found(now, url) # {}
<1>1. CASE url.under = "changesets"
  BY <1>1 DEF Stands, Found
<1>2. CASE url.under = "namedVersions"
  BY <1>2 DEF Stands, Found
<1>3. CASE url.under = "changeset"
  BY <1>3 DEF Stands, Found
<1>4. CASE url.under \notin {"changesets", "namedVersions", "changeset"}
  <2>1. url.under # "briefcases" /\ entity = <<url.under, url.part.number>>
    BY <1>4 DEF Stands
  <2>2. Found(now, url) = {<<url.under, n>> : n \in {url.part.number} \intersect There(now, url.under)}
    BY <1>4, <2>1 DEF Found
  <2> QED
    BY <2>1, <2>2
<1> QED
  BY <1>1, <1>2, <1>3, <1>4

\* What a url names stays what it names.
LEMMA StandsStays ==
    ASSUME NEW now, NEW after, Keeps(now, after), NEW url, NEW entity, Stands(now, url, entity)
    PROVE  Stands(after, url, entity)
BY DEF Stands, Keeps

\* Entities that links stand for are never gone.
LEMMA ThereStays ==
    ASSUME NEW now, NEW after, Keeps(now, after)
    PROVE  \A on \in KeptTypes : There(now, on) \subseteq There(after, on)
<1>1. There(now, "user") = There(after, "user")
  BY DEF Keeps, There
<1> QED
  BY <1>1 DEF Keeps, KeptTypes

\* Parameters are made into a url that names what they name.
LEMMA ParametersStand ==
    ASSUME Sound(content), NEW operation \in GetOperations, NEW params \in GetParams(operation),
           NamedBy(operation, params) # <<>>
    PROVE  Stands(content, GetUrl(operation, params), NamedBy(operation, params))
<1>1. operation.on \in Types /\ "changesets" \notin Types /\ "namedVersions" \notin Types /\ "briefcases" \notin Types
  BY GetTypes, TypesAre DEF Listed
<1>2. CASE operation.on \notin {"changeset", "checkpoint"}
  <2>1. params \in [id : Ids]
    BY <1>2 DEF GetParams
  <2>2. NamedBy(operation, params) = <<operation.on, params.id>>
    BY <2>1 DEF NamedBy
  <2>3. GetUrl(operation, params) = [under |-> operation.on, part |-> [form |-> "id", number |-> params.id]]
    BY <1>2 DEF GetUrl, EntityUrl, Part
  <2> QED
    BY <1>1, <2>2, <2>3 DEF Stands
<1>3. CASE operation.on = "changeset"
  <2>1. params \in [changesetId : Ids] \/ params \in [changesetIndex : 0..MaxId]
    BY <1>3 DEF GetParams
  <2>2. PICK url : url = GetUrl(operation, params)
    OBVIOUS
  <2>3. url.under = "changeset" /\ NamedBy(operation, params) = <<"changeset", url.part.number>>
    <3>1. url = [under |-> "changeset", part |-> ChangesetPart(params)]
      BY <1>3, <2>2 DEF GetUrl, EntityUrl
    <3> QED
      BY <1>3, <2>1, <3>1 DEF ChangesetPart, NamedBy
  <2> QED
    BY <2>2, <2>3 DEF Stands
<1>4. CASE operation.on = "checkpoint"
  <2>1. \/ params \in [changesetId : Ids] \/ params \in [changesetIndex : 0..MaxId]
        \/ params \in [namedVersionId : There(content, "namedVersion")]
    BY <1>4 DEF GetParams, NamedBy
  <2>2. PICK url : url = CheckpointUrl(params)
    OBVIOUS
  <2>3. GetUrl(operation, params) = url
    BY <1>4, <2>2 DEF GetUrl
  <2>4. CASE params \in [namedVersionId : There(content, "namedVersion")]
    <3>1. url = [under |-> "namedVersions", part |-> [form |-> "id", number |-> params.namedVersionId]]
      BY <2>2, <2>4 DEF CheckpointUrl
    <3>2. NamedBy(operation, params) = <<"checkpoint", content.madeOn[params.namedVersionId]>>
      BY <1>4, <2>4 DEF NamedBy
    <3>3. params.namedVersionId \in There(content, "namedVersion")
      BY <2>4
    <3> QED
      BY <2>3, <3>1, <3>2, <3>3 DEF Stands
  <2>5. CASE params \in [changesetId : Ids] \/ params \in [changesetIndex : 0..MaxId]
    <3>1. DOMAIN params = {"changesetId"} \/ DOMAIN params = {"changesetIndex"}
      BY <2>5
    <3>2. url = [under |-> "changesets", part |-> ChangesetPart(params)]
      BY <2>2, <3>1 DEF CheckpointUrl
    <3>3. NamedBy(operation, params) = <<"checkpoint", url.part.number>>
      BY <1>4, <2>5, <3>2 DEF NamedBy, ChangesetPart
    <3> QED
      BY <2>3, <3>2, <3>3 DEF Stands
  <2> QED
    BY <2>1, <2>4, <2>5
<1> QED
  BY <1>2, <1>3, <1>4

\* So are links.
LEMMA LinksStand ==
    ASSUME NEW f \in AttachedNames, NEW entity \in Entities, entity[1] = Target(f), NEW link \in Links(entity)
    PROVE  Stands(content, UrlOfLink(f, link), entity)
<1>1. link.on = entity[1] /\ link.part.number = entity[2] /\ entity = <<entity[1], entity[2]>>
  BY DEF Links, Entities
<1>2. PICK params : params = ParseChangesetIdOrIndex(link.part)
  OBVIOUS
<1>3. params = [changesetIndex |-> link.part.number] \/ params = [changesetId |-> link.part.number]
  BY <1>2 DEF ParseChangesetIdOrIndex
<1>4. ChangesetPart(params).number = entity[2]
  BY <1>1, <1>3 DEF ChangesetPart
<1>5. CheckpointUrl(params) = [under |-> "changesets", part |-> ChangesetPart(params)]
  <2>1. DOMAIN params = {"changesetId"} \/ DOMAIN params = {"changesetIndex"}
    BY <1>3
  <2> QED
    BY <2>1 DEF CheckpointUrl
<1>6. CASE f \in {"getCreator", "getOwner", "getNamedVersion"}
  <2>1. UrlOfLink(f, link) = [under |-> entity[1], part |-> link.part]
    BY <1>1, <1>6 DEF UrlOfLink, EntityUrl
  <2>2. entity[1] \in {"user", "namedVersion"}
    BY <1>6 DEF Target
  <2> QED
    BY <1>1, <2>1, <2>2 DEF Stands
<1>7. CASE f = "getChangeset"
  BY <1>1, <1>2, <1>4, <1>7 DEF UrlOfLink, EntityUrl, Stands, Target
<1>8. CASE f = "getCurrentOrPrecedingCheckpoint"
  BY <1>1, <1>2, <1>4, <1>5, <1>8 DEF UrlOfLink, Stands, Target
<1>9. CASE f = "getCheckpoint"
  BY <1>1, <1>9 DEF UrlOfLink, Stands, Target
<1> QED
  BY <1>6, <1>7, <1>8, <1>9 DEF AttachedNames

\* A step to a call, or to the outcome of one, that is of none of some kinds.
Elsewhere(kinds) ==
    /\ step' = "idle" \/ call'.what \notin kinds
    /\ outcome'.of \notin kinds

\* Calls of another kind end as such.
LEMMA ReturnsElsewhere ==
    ASSUME NEW kinds, NEW c, c.what \notin kinds, NEW came, NEW got, Return(c, came, got)
    PROVE  Elsewhere(kinds)
BY DEF Return, Elsewhere

\* So do those that read a list.
LEMMA ForAwaitElsewhere ==
    ASSUME NEW kinds, "none" \notin kinds, NEW c \in AnyCall, c.what \notin kinds, NEW it, ForAwait(c, it)
    PROVE  Elsewhere(kinds)
<1>1. PICK after : after = [c EXCEPT !.got = c.got \o SubSeq(it.buffer, 1, Taken(c, it))]
  OBVIOUS
<1>2. after.what = c.what /\ \A got : [after EXCEPT !.got = got].what = c.what
  BY <1>1 DEF AnyCall
<1>3. \/ \E left : ListRead(after, left)
      \/ call' = after /\ outcome' = NoOutcome
  BY <1>1 DEF ForAwait
<1>4. CASE \E left : ListRead(after, left)
  <2>1. \/ call' = [after EXCEPT !.got = NamedChangeset(after)] /\ outcome' = NoOutcome
        \/ \E got : Return(after, "returned", got)
    BY <1>4 DEF ListRead
  <2>2. CASE call' = [after EXCEPT !.got = NamedChangeset(after)] /\ outcome' = NoOutcome
    BY <1>2, <2>2 DEF Elsewhere, NoOutcome
  <2>3. CASE \E got : Return(after, "returned", got)
    BY <1>2, <2>3, ReturnsElsewhere
  <2> QED
    BY <2>1, <2>2, <2>3
<1>5. CASE call' = after /\ outcome' = NoOutcome
  BY <1>2, <1>5 DEF Elsewhere, NoOutcome
<1> QED
  BY <1>3, <1>4, <1>5

\* So do the calls for lists, and what is sent.
LEMMA PlainCalls ==
    ASSUME QueriesInv, NEW kinds, \A what \in {"none", "take", "page", "send"} : what \notin kinds,
           \/ GetList \/ NextPage \/ \E want \in Counts : Take(want)
           \/ \E operation \in Sends : SendRequest(operation)
           \/ SendAnswered
    PROVE  Elsewhere(kinds)
<1>1. CASE GetList
  BY <1>1 DEF GetList, Elsewhere, NoOutcome
<1>2. CASE NextPage
  <2>1. PICK c : c = NewCall("page", 0, <<>>, iterator.caller)
    OBVIOUS
  <2>2. c.what = "page"
    BY <2>1 DEF NewCall
  <2>3. Return(c, "returned", <<>>) \/ (call' = c /\ outcome' = NoOutcome)
    BY <1>2, <2>1 DEF NextPage
  <2>4. CASE Return(c, "returned", <<>>)
    BY <2>2, <2>4, ReturnsElsewhere
  <2>5. CASE call' = c /\ outcome' = NoOutcome
    BY <2>2, <2>5 DEF Elsewhere, NoOutcome
  <2> QED
    BY <2>3, <2>4, <2>5
<1>3. CASE \E want \in Counts : Take(want)
  <2>1. PICK want \in Counts : Take(want)
    BY <1>3
  <2>2. PICK c : c = NewCall("take", want, <<want>>, iterator.caller)
    OBVIOUS
  <2>3. want \in Nat /\ <<want>> \in AnyWanted /\ iterator.caller \in AnyCaller /\ "take" \in AnyWhat
    BY QueriesAssumption DEF AnyWanted, AnyWhat, QueriesInv, CallsOK, AnyIterator
  <2>4. c \in AnyCall /\ c.what = "take"
    <3>1. <<>> \in Seq(Ids)
      OBVIOUS
    <3> QED
      BY ONLY <2>2, <2>3, <3>1 DEF NewCall, AnyCall
  <2>5. ForAwait(c, iterator)
    BY <2>1, <2>2 DEF Take
  <2>6. "none" \notin kinds /\ c.what \notin kinds
    BY <2>4
  <2> QED
    BY <2>4, <2>5, <2>6, ForAwaitElsewhere
<1>4. CASE \E operation \in Sends : SendRequest(operation)
  BY <1>4 DEF SendRequest, NewCall, Elsewhere, NoOutcome
<1>5. CASE SendAnswered
  <2>1. call.what = "send"
    BY <1>5 DEF SendAnswered, QueriesInv, CallsOK, AwaitInv, Awaiting
  <2>2. \E came, got : Return(call, came, got)
    BY <1>5 DEF SendAnswered
  <2> QED
    BY <2>1, <2>2, ReturnsElsewhere
<1> QED
  BY <1>1, <1>2, <1>3, <1>4, <1>5

\* So do the answers to a list.
LEMMA PagesElsewhere ==
    ASSUME QueriesInv, NEW kinds, "none" \notin kinds, call.what \notin kinds, PageAnswered
    PROVE  Elsewhere(kinds)
<1>1. call \in AnyCall
  BY DEF QueriesInv, CallsOK
<1>2. (\E came, got : Return(call, came, got)) \/ \E it : ForAwait(call, it)
  BY DEF PageAnswered
<1> QED
  BY <1>1, <1>2, ReturnsElsewhere, ForAwaitElsewhere

\* Single entities are not what the other calls are for.
LEMMA OtherCalls ==
    ASSUME QueriesInv,
           \/ GetList \/ NextPage \/ \E want \in Counts : Take(want)
           \/ \E operation \in Sends : SendRequest(operation)
           \/ \E q \in Questions : QuestionAsked(q)
           \/ PageAnswered \/ SendAnswered
    PROVE  Elsewhere({"get", "follow"})
<1>1. PICK kinds : kinds = {"get", "follow"}
  OBVIOUS
<1>2. \A what \in {"none", "take", "page", "send", "question"} : what \notin kinds
  BY <1>1
<1>3. CASE \E q \in Questions : QuestionAsked(q)
  <2>1. PICK q \in Questions : QuestionAsked(q)
    BY <1>3
  <2>2. \/ GetFirstVersion(q)
        \/ \E params : AskChangeset(q, params)
        \/ \E operation, params, want : AskList(q, operation, params, want)
    BY <2>1, QuestionKinds
  <2>3. CASE GetFirstVersion(q)
    BY <1>2, <2>3 DEF GetFirstVersion, Return, NewCall, Elsewhere
  <2>4. CASE \E params : AskChangeset(q, params)
    BY <1>2, <2>4 DEF AskChangeset, NewCall, Elsewhere, NoOutcome
  <2>5. CASE \E operation, params, want : AskList(q, operation, params, want)
    BY <1>2, <2>5 DEF AskList, NewCall, Elsewhere, NoOutcome
  <2> QED
    BY <1>1, <2>2, <2>3, <2>4, <2>5
<1>4. CASE PageAnswered
  <2>1. step = "sent" /\ request.operation.verb = "list"
    BY <1>4 DEF PageAnswered
  <2>2. Awaiting /\ request.operation \in ListOperations
    BY <2>1, PageThatComes
  <2>3. call.what \notin kinds
    BY <1>2, <2>2 DEF Awaiting
  <2> QED
    BY <1>1, <1>2, <1>4, <2>3, PagesElsewhere
<1> QED
  BY <1>1, <1>2, <1>3, <1>4, PlainCalls

\* An operation asks for the url of the entity its parameters name.
LEMMA GetSingleNames ==
    ASSUME QueriesInv, NEW operation \in Gets, GetSingle(operation)
    PROVE  NamedInv' /\ NamedIsReturned'
<1>1. PICK params \in GetParams(operation), caller \in Callers(Headers) :
        /\ Begin
        /\ call' = NewCall("get", 0, NamedBy(operation, params), caller)
        /\ Ask(operation, GetUrl(operation, params), <<>>, 0)
        /\ outcome' = NoOutcome
  BY DEF GetSingle
<1>2. call'.what = "get" /\ call'.wanted = NamedBy(operation, params)
  BY <1>1 DEF NewCall
<1>3. request'.url = GetUrl(operation, params)
  BY <1>1 DEF Ask, QueriesInv, CallsOK, AnyRequest
<1>4. operation \in GetOperations /\ Sound(content) /\ content' = content
  BY <1>1, QueriesAssumption DEF QueriesInv, ServiceOK, Begin, service
<1>5. call'.wanted # <<>> => Stands(content', request'.url, call'.wanted)
  BY <1>2, <1>3, <1>4, ParametersStand
<1> QED
  BY <1>1, <1>2, <1>5 DEF NamedInv, NamedIsReturned, NoOutcome

\* An attached function asks for the url of the entity its link stood for.
LEMMA FollowNames ==
    ASSUME QueriesInv, NEW f \in DOMAIN hand.linked, Follow(f)
    PROVE  NamedInv' /\ NamedIsReturned'
<1>1. f \in AttachedNames /\ hand.linked[f] \subseteq Entities
      /\ \A entity \in hand.linked[f] : entity[1] = Target(f) /\ entity[2] \in There(content, entity[1])
  BY HandNames DEF QueriesInv, HandOK, LinksLead, AnyHand
<1>2. CASE Return(NewCall("follow", 0, <<>>, hand.caller), "undefined", <<>>)
  BY <1>2 DEF Return, NewCall, NamedInv, NamedIsReturned
<1>3. CASE /\ \E entity \in hand.linked[f] : \E link \in Links(entity) :
                /\ call' = NewCall("follow", 0, entity, hand.caller)
                /\ Ask(AttachedFunction[f].operation, UrlOfLink(f, link), <<>>, 0)
           /\ outcome' = NoOutcome
  <2>1. PICK entity \in hand.linked[f] : \E link \in Links(entity) :
                /\ call' = NewCall("follow", 0, entity, hand.caller)
                /\ Ask(AttachedFunction[f].operation, UrlOfLink(f, link), <<>>, 0)
    BY <1>3
  <2>2. PICK link \in Links(entity) :
                /\ call' = NewCall("follow", 0, entity, hand.caller)
                /\ Ask(AttachedFunction[f].operation, UrlOfLink(f, link), <<>>, 0)
    BY <2>1
  <2>3. call'.what = "follow" /\ call'.wanted = entity
    BY <2>2 DEF NewCall
  <2>4. request'.url = UrlOfLink(f, link)
    BY <2>2 DEF Ask, QueriesInv, CallsOK, AnyRequest
  <2>5. Stands(content, UrlOfLink(f, link), entity)
    BY <1>1, LinksStand
  <2>6. Stands(content', UrlOfLink(f, link), entity) /\ content' = content
    BY <2>5 DEF Follow, Begin, service
  <2>7. entity[1] \in KeptTypes /\ entity[2] \in There(content', entity[1])
    BY <1>1, <2>6 DEF Target, KeptTypes
  <2> QED
    BY <1>3, <2>3, <2>4, <2>6, <2>7 DEF NamedInv, NamedIsReturned, NoOutcome
<1> QED
  BY <1>2, <1>3 DEF Follow

\* What a url names is what is returned.
LEMMA SingleAnsweredNames ==
    ASSUME QueriesInv, NamedInv, SingleAnswered
    PROVE  NamedInv' /\ NamedIsReturned'
<1>1. step # "idle" /\ Awaiting /\ request \in AnyRequest /\ request.operation.verb = "get"
  BY DEF SingleAnswered, QueriesInv, CallsOK, AwaitInv
<1>2. call.what \in {"get", "follow", "question"}
  <2>1. request.operation \in GetOperations
    BY <1>1, Verbs DEF AnyRequest
  <2> QED
    BY <1>1, <2>1 DEF Awaiting
<1>3. CASE Found(content, request.url) = {} /\ Fail("notFound")
  <2>1. call.what # "follow"
    BY <1>1, <1>3, StandsIsFound DEF NamedInv
  <2>2. Return(call, "notFound", <<>>)
    BY <1>3 DEF Fail
  <2> QED
    BY <1>2, <2>1, <2>2 DEF Return, NamedInv, NamedIsReturned
<1>4. CASE \E entity \in Found(content, request.url) :
              Return(call, "returned", IF Asked(call) THEN <<entity[2]>> ELSE entity)
  <2>1. PICK entity \in Found(content, request.url) :
            Return(call, "returned", IF Asked(call) THEN <<entity[2]>> ELSE entity)
    BY <1>4
  <2>2. /\ step' = "idle" /\ outcome'.of = call.what /\ outcome'.wanted = call.wanted /\ outcome'.came = "returned"
        /\ call.what \in {"get", "follow"} => outcome'.got = entity
    BY <2>1 DEF Return, Asked
  <2>3. call.what \in {"get", "follow"} /\ call.wanted # <<>> => entity = call.wanted
    BY <1>1, <2>1, StandsIsFound DEF NamedInv
  <2> QED
    BY <2>2, <2>3 DEF NamedInv, NamedIsReturned
<1> QED
  BY <1>3, <1>4 DEF SingleAnswered

\* Every step keeps what the url of a request stands for.
LEMMA NamedStep ==
    ASSUME QueriesInv, NamedInv, NamedIsReturned, [Next]_vars
    PROVE  NamedInv' /\ NamedIsReturned'
<1>1. Elsewhere({"get", "follow"}) => NamedInv' /\ NamedIsReturned'
  BY DEF Elsewhere, NamedInv, NamedIsReturned
<1>2. UNCHANGED <<step, call, request, outcome>> /\ Keeps(content, content') => NamedInv' /\ NamedIsReturned'
  <2>1. SUFFICES ASSUME UNCHANGED <<step, call, request, outcome>>, Keeps(content, content')
                 PROVE  NamedInv' /\ NamedIsReturned'
    OBVIOUS
  <2>2. NamedIsReturned'
    BY <2>1 DEF NamedIsReturned
  <2>3. NamedInv'
    BY <2>1, StandsStays, ThereStays DEF NamedInv
  <2> QED
    BY <2>2, <2>3
<1>3. CASE Call
  <2>1. \A operation \in Gets : GetSingle(operation) => NamedInv' /\ NamedIsReturned'
    BY GetSingleNames
  <2>2. \A f \in DOMAIN hand.linked : Follow(f) => NamedInv' /\ NamedIsReturned'
    BY FollowNames
  <2> QED
    BY <1>1, <1>3, <2>1, <2>2, OtherCalls DEF Call, QuestionAsked
<1>4. CASE Proceed
  <2>1. Authorized => NamedInv' /\ NamedIsReturned'
    <3>1. SUFFICES ASSUME Authorized PROVE NamedInv' /\ NamedIsReturned'
      OBVIOUS
    <3>2. request'.url = request.url /\ step # "idle" /\ UNCHANGED <<content, call, outcome>>
      BY <3>1 DEF Authorized, QueriesInv, CallsOK, AnyRequest, service
    <3>3. NamedIsReturned'
      BY <3>2 DEF NamedIsReturned
    <3> QED
      BY <3>2, <3>3 DEF NamedInv
  <2>2. \A came \in {"unauthorized", "failed"} : Fail(came) => NamedInv' /\ NamedIsReturned'
    BY DEF Fail, Return, NamedInv, NamedIsReturned
  <2>3. AuthorizationFails \/ Unauthorized \/ RequestFails => NamedInv' /\ NamedIsReturned'
    BY <2>2 DEF AuthorizationFails, Unauthorized, RequestFails
  <2> QED
    BY <1>1, <1>4, <2>1, <2>3, OtherCalls, SingleAnsweredNames DEF Proceed
<1>5. CASE OthersChange
  <2>a. PICK operation \in OthersDo : \E effect \in Effects(content, operation) :
          Becomes(effect[1]) /\ UNCHANGED <<expired, calls, step, call, request, iterator, hand, outcome>>
    BY <1>5 DEF OthersChange
  <2>1. PICK effect \in Effects(content, operation) :
          Becomes(effect[1]) /\ UNCHANGED <<expired, calls, step, call, request, iterator, hand, outcome>>
    BY <2>a
  <2>2. Keeps(content, effect[1]) /\ content' = effect[1]
    BY <2>1, QueriesAssumption, EffectsKeep DEF QueriesInv, ServiceOK, Becomes
  <2> QED
    BY <1>2, <2>1, <2>2
<1>6. CASE TokenExpires \/ UNCHANGED vars
  BY <1>2, <1>6, KeepsAll DEF TokenExpires, vars, service
<1> QED
  BY <1>3, <1>4, <1>5, <1>6 DEF Next

\* A function attached to an entity finds and returns what its link stood for, and an
\* operation what its parameters name: the url made of either, by id, index, version or
\* checkpoint, names that entity until the answer, whatever others do to the service.
THEOREM NamedReturned == Spec => []NamedIsReturned
<1>1. Init => NamedInv /\ NamedIsReturned
  BY DEF Init, NamedInv, NamedIsReturned, NoOutcome
<1>2. QueriesInv /\ NamedInv /\ NamedIsReturned /\ [Next]_vars => NamedInv' /\ NamedIsReturned'
  BY NamedStep
<1> QED
  BY <1>1, <1>2, QueriesInvariant, PTL DEF Spec

-------------------------------------------------------------------------------
(* Counting what lists have.                                               *)

\* A number is in one list after another as often as in the two.
LEMMA TimesAdd ==
    ASSUME NEW a \in Seq(Ids), NEW b \in Seq(Ids), NEW n
    PROVE  /\ Times(n, a) \in Nat
           /\ Times(n, a \o b) = Times(n, a) + Times(n, b)
<1> DEFINE A == {i \in DOMAIN a : a[i] = n}
           B == {i \in DOMAIN b : b[i] = n}
           C == {i \in 1..(Len(a) + Len(b)) : i > Len(a) /\ b[i - Len(a)] = n}
           W == {i \in DOMAIN (a \o b) : (a \o b)[i] = n}
<1>1. /\ Len(a) \in Nat /\ Len(b) \in Nat /\ DOMAIN a = 1..Len(a) /\ DOMAIN b = 1..Len(b)
      /\ DOMAIN (a \o b) = 1..(Len(a) + Len(b))
      /\ \A i \in 1..(Len(a) + Len(b)) : (a \o b)[i] = IF i <= Len(a) THEN a[i] ELSE b[i - Len(a)]
  <2>1. /\ a \o b \in Seq(Ids) /\ Len(a \o b) = Len(a) + Len(b)
        /\ \A i \in 1..(Len(a) + Len(b)) : (a \o b)[i] = IF i <= Len(a) THEN a[i] ELSE b[i - Len(a)]
    BY ConcatProperties
  <2> QED
    BY <2>1
<1>2. IsFiniteSet(A) /\ IsFiniteSet(B) /\ IsFiniteSet(C)
  <2>1. IsFiniteSet(1..Len(a)) /\ IsFiniteSet(1..Len(b)) /\ IsFiniteSet(1..(Len(a) + Len(b)))
    BY <1>1, FS_Interval
  <2>2. A \in SUBSET (1..Len(a)) /\ B \in SUBSET (1..Len(b)) /\ C \in SUBSET (1..(Len(a) + Len(b)))
    BY <1>1
  <2> QED
    BY <2>1, <2>2, FS_Subset
<1>3. W = A \union C /\ A \intersect C = {}
  BY <1>1
<1> HIDE DEF A, B, C, W
<1>4. Cardinality(W) = Cardinality(A) + Cardinality(C)
  <2>1. Cardinality(A \union C) = Cardinality(A) + Cardinality(C) - Cardinality(A \intersect C)
    BY <1>2, FS_Union
  <2>2. Cardinality({}) = 0
    BY FS_EmptySet
  <2>3. Cardinality(A) \in Nat /\ Cardinality(C) \in Nat
    BY <1>2, FS_CardinalityType
  <2>4. Cardinality(W) = Cardinality(A \union C) /\ Cardinality(A \intersect C) = 0
    BY <1>3, <2>2
  <2> QED
    BY <2>1, <2>3, <2>4
<1>5. Cardinality(C) = Cardinality(B)
  <2> DEFINE f == [i \in B |-> i + Len(a)]
  <2>1. f \in [B -> C]
    BY <1>1 DEF B, C
  <2>2. \A i, j \in B : f[i] = f[j] => i = j
    BY <1>1 DEF B
  <2>3. \A k \in C : \E i \in B : f[i] = k
    <3>1. SUFFICES ASSUME NEW k \in C PROVE k - Len(a) \in B /\ (k - Len(a)) + Len(a) = k
      BY DEF f
    <3> QED
      BY <1>1 DEF B, C
  <2> HIDE DEF f
  <2>4. f \in Bijection(B, C)
    BY <2>1, <2>2, <2>3 DEF Bijection, Injection, IsInjective, Surjection
  <2>5. ExistsBijection(B, C)
    BY <2>4 DEF ExistsBijection
  <2> QED
    BY <1>2, <2>5, FS_Bijection
<1>6. Times(n, a) = Cardinality(A) /\ Times(n, b) = Cardinality(B) /\ Times(n, a \o b) = Cardinality(W)
  BY DEF Times, A, B, W
<1> QED
  BY <1>2, <1>4, <1>5, <1>6, FS_CardinalityType

\* What was given, what is being taken and what is still to come of an iterator are what
\* was read, one after another unless pages were taken in between.
Whole(it, taking) ==
    /\ \A n \in 0..MaxId : Times(n, it.given) + Times(n, taking) + Times(n, it.buffer) = Times(n, it.fetched)
    /\ ~it.byPage => it.given \o taking \o it.buffer = it.fetched

\* Four lists one after another are the same however they are taken together.
LEMMA FourLists ==
    \A a, b, c, d \in Seq(Ids) : (a \o (b \o c)) \o d = (a \o b) \o (c \o d)
<1> SUFFICES ASSUME NEW a \in Seq(Ids), NEW b \in Seq(Ids), NEW c \in Seq(Ids), NEW d \in Seq(Ids)
             PROVE  (a \o (b \o c)) \o d = (a \o b) \o (c \o d)
  OBVIOUS
<1>1. PICK e : e = a \o b
  OBVIOUS
<1>2. e \in Seq(Ids)
  BY <1>1, ConcatProperties
<1>3. (e \o c) \o d = e \o (c \o d)
  BY <1>2, ConcatAssociative
<1>4. (a \o b) \o c = a \o (b \o c)
  BY ConcatAssociative
<1>5. e \o c = a \o (b \o c)
  BY <1>1, <1>4
<1> QED
  BY <1>1, <1>3, <1>5

\* Taking from what is to come.
LEMMA TakingIsWhole ==
    ASSUME NEW it \in AnyIterator, NEW taking \in Seq(Ids), Whole(it, taking),
           NEW n \in 0..Len(it.buffer), NEW left \in AnyIterator,
           left.given = it.given, left.fetched = it.fetched, left.byPage = it.byPage,
           left.buffer = SubSeq(it.buffer, n + 1, Len(it.buffer))
    PROVE  Whole(left, taking \o SubSeq(it.buffer, 1, n))
<1>1. PICK a : a = SubSeq(it.buffer, 1, n)
  OBVIOUS
<1>2. PICK b : b = left.buffer
  OBVIOUS
<1>3. it.buffer \in Seq(Ids) /\ it.given \in Seq(Ids) /\ it.fetched \in Seq(Ids) /\ b \in Seq(Ids)
  BY <1>2 DEF AnyIterator
<1>4. a \in Seq(Ids) /\ a \o b = it.buffer
  BY <1>1, <1>2, <1>3, Split
<1>5. \A m \in 0..MaxId : Times(m, it.given) + Times(m, taking \o a) + Times(m, b) = Times(m, it.fetched)
  <2>1. SUFFICES ASSUME NEW m \in 0..MaxId
                 PROVE  Times(m, it.given) + Times(m, taking \o a) + Times(m, b) = Times(m, it.fetched)
    OBVIOUS
  <2>2. Times(m, it.given) + Times(m, taking) + Times(m, it.buffer) = Times(m, it.fetched)
    BY DEF Whole
  <2>3. Times(m, taking \o a) = Times(m, taking) + Times(m, a) /\ Times(m, taking) \in Nat
    BY <1>4, TimesAdd
  <2>4. Times(m, a \o b) = Times(m, a) + Times(m, b) /\ Times(m, a) \in Nat
    BY <1>3, <1>4, TimesAdd
  <2>5. Times(m, it.given) \in Nat /\ Times(m, b) \in Nat
    BY <1>3, TimesAdd
  <2> QED
    BY <2>2, <2>3, <2>4, <2>5, <1>4
<1>6. (it.given \o (taking \o a)) \o b = (it.given \o taking) \o (a \o b)
  <2>1. PICK given : given = it.given
    OBVIOUS
  <2>2. given \in Seq(Ids) /\ taking \in Seq(Ids) /\ a \in Seq(Ids) /\ b \in Seq(Ids)
    BY <1>3, <1>4, <2>1
  <2>3. (given \o (taking \o a)) \o b = (given \o taking) \o (a \o b)
    <3>1. \A x, y, z \in Seq(Ids) : (given \o (x \o y)) \o z = (given \o x) \o (y \o z)
      BY ONLY <2>2, FourLists
    <3> QED
      BY ONLY <2>2, <3>1
  <2> QED
    BY <2>1, <2>3
<1> QED
  BY <1>1, <1>2, <1>4, <1>5, <1>6 DEF Whole

\* What was taken is given when the call returns.
LEMMA GivingIsWhole ==
    ASSUME NEW it \in AnyIterator, NEW taking \in Seq(Ids), Whole(it, taking)
    PROVE  Whole([it EXCEPT !.given = it.given \o taking], <<>>)
<1>1. PICK after : after = [it EXCEPT !.given = it.given \o taking]
  OBVIOUS
<1>2. /\ after.given = it.given \o taking /\ after.fetched = it.fetched
      /\ after.buffer = it.buffer /\ after.byPage = it.byPage
      /\ it.given \in Seq(Ids) /\ it.buffer \in Seq(Ids)
  BY <1>1 DEF AnyIterator
<1>3. <<>> \in Seq(Ids) /\ \A n : Times(n, <<>>) = 0
  <2>1. \A n : {i \in DOMAIN <<>> : <<>>[i] = n} = {}
    OBVIOUS
  <2> QED
    BY <2>1, FS_EmptySet DEF Times
<1>4. \A n \in 0..MaxId : Times(n, after.given) + Times(n, <<>>) + Times(n, after.buffer) = Times(n, after.fetched)
  <2>1. SUFFICES ASSUME NEW n \in 0..MaxId
                 PROVE  Times(n, after.given) + Times(n, <<>>) + Times(n, after.buffer) = Times(n, after.fetched)
    OBVIOUS
  <2>2. /\ Times(n, it.given \o taking) = Times(n, it.given) + Times(n, taking)
        /\ Times(n, it.given) \in Nat /\ Times(n, taking) \in Nat
    BY <1>2, TimesAdd
  <2> QED
    BY <1>2, <1>3, <2>2 DEF Whole
<1>5. (after.given \o <<>>) \o after.buffer = (it.given \o taking) \o it.buffer
  <2>1. it.given \o taking \in Seq(Ids)
    BY <1>2, ConcatProperties
  <2>2. (it.given \o taking) \o <<>> = it.given \o taking
    BY <2>1, ConcatEmptySeq
  <2> QED
    BY <1>2, <2>2
<1> QED
  BY <1>1, <1>2, <1>4, <1>5 DEF Whole

\* A page that came for entities taken one at a time.
LEMMA PageIsWhole ==
    ASSUME NEW it \in AnyIterator, NEW taking \in Seq(Ids), Whole(it, taking), it.buffer = <<>>,
           NEW page \in Seq(Ids), NEW after \in AnyIterator,
           after.given = it.given, after.fetched = it.fetched \o page, after.byPage = it.byPage,
           after.buffer = page
    PROVE  Whole(after, taking)
<1>1. it.given \in Seq(Ids) /\ it.fetched \in Seq(Ids) /\ <<>> \in Seq(Ids)
  BY DEF AnyIterator
<1>2. \A n \in 0..MaxId : Times(n, after.given) + Times(n, taking) + Times(n, after.buffer) = Times(n, after.fetched)
  <2>1. SUFFICES ASSUME NEW n \in 0..MaxId
                 PROVE  Times(n, it.given) + Times(n, taking) + Times(n, page) = Times(n, it.fetched \o page)
    OBVIOUS
  <2>2. Times(n, <<>>) = 0
    <3>1. {i \in DOMAIN <<>> : <<>>[i] = n} = {}
      OBVIOUS
    <3> QED
      BY <3>1, FS_EmptySet DEF Times
  <2>3. /\ Times(n, it.fetched \o page) = Times(n, it.fetched) + Times(n, page)
        /\ Times(n, it.given) \in Nat /\ Times(n, taking) \in Nat /\ Times(n, page) \in Nat
        /\ Times(n, it.given) + Times(n, taking) + 0 = Times(n, it.fetched)
    BY <1>1, <2>2, TimesAdd DEF Whole
  <2> QED
    BY <2>3
<1>3. ~it.byPage => (it.given \o taking) \o page = it.fetched \o page
  <2>1. it.given \o taking \in Seq(Ids)
    BY <1>1, ConcatProperties
  <2>2. (it.given \o taking) \o <<>> = it.given \o taking
    BY <2>1, ConcatEmptySeq
  <2> QED
    BY <2>2 DEF Whole
<1> QED
  BY <1>2, <1>3 DEF Whole

\* A page that was taken as it is.
LEMMA TakenPageIsWhole ==
    ASSUME NEW it \in AnyIterator, Whole(it, <<>>), it.byPage,
           NEW page \in Seq(Ids), NEW after,
           after.given = it.given \o page, after.fetched = it.fetched \o page, after.byPage = it.byPage,
           after.buffer = it.buffer
    PROVE  Whole(after, <<>>)
<1>1. it.given \in Seq(Ids) /\ it.fetched \in Seq(Ids) /\ it.buffer \in Seq(Ids) /\ <<>> \in Seq(Ids)
  BY DEF AnyIterator
<1>2. ASSUME NEW n \in 0..MaxId
      PROVE  Times(n, it.given \o page) + Times(n, <<>>) + Times(n, it.buffer) = Times(n, it.fetched \o page)
  <2>1. /\ Times(n, it.fetched \o page) = Times(n, it.fetched) + Times(n, page)
        /\ Times(n, it.given \o page) = Times(n, it.given) + Times(n, page)
        /\ Times(n, it.given) \in Nat /\ Times(n, <<>>) \in Nat /\ Times(n, page) \in Nat
        /\ Times(n, it.buffer) \in Nat /\ Times(n, it.fetched) \in Nat
    <3>1. \A a, b \in Seq(Ids) : Times(n, a) \in Nat /\ Times(n, a \o b) = Times(n, a) + Times(n, b)
      BY TimesAdd
    <3> QED
      BY <1>1, <3>1
  <2>2. Times(n, it.given) + Times(n, <<>>) + Times(n, it.buffer) = Times(n, it.fetched)
    BY DEF Whole
  <2> QED
    BY <2>1, <2>2
<1> QED
  BY <1>2 DEF Whole

\* Nothing is read of an iterator that is new.
LEMMA NewIsWhole ==
    ASSUME NEW it, it.given = <<>>, it.buffer = <<>>, it.fetched = <<>>
    PROVE  Whole(it, <<>>)
<1>1. \A n : Times(n, <<>>) = 0
  <2>1. \A n : {i \in DOMAIN <<>> : <<>>[i] = n} = {}
    OBVIOUS
  <2> QED
    BY <2>1, FS_EmptySet DEF Times
<1>2. (<<>> \o <<>>) \o <<>> = <<>>
  <2>1. <<>> \in Seq(Ids)
    OBVIOUS
  <2> QED
    BY <2>1, ConcatEmptySeq
<1> QED
  BY <1>1, <1>2 DEF Whole

\* What a call takes of the list.
Taking == IF call.what = "take" \/ (call.what = "question" /\ request.operation \in ListOperations)
          THEN call.got ELSE <<>>

CountsInv ==
    /\ ~iterator.failed => Whole(iterator, Taking)
    /\ call.what = "page" => iterator.byPage

\* Nobody gets less than asked for before the end, nor more.
OutcomeInv ==
    outcome.of = "take" /\ outcome.came = "returned" /\ step = "idle" =>
        /\ \/ Len(outcome.got) = outcome.wanted[1]
           \/ iterator.next = {} /\ iterator.buffer = <<>>
        /\ outcome.wanted[1] # 0 => Len(outcome.got) <= outcome.wanted[1]

TakesInv == CountsInv /\ OutcomeInv

\* What a call has after a step that is not about its list.
Aside == Taking' = <<>> /\ call'.what # "page" /\ outcome'.of # "take"

\* What does not touch a list, or leaves it, loses nothing of it.
LEMMA AsideIsWhole ==
    ASSUME TakesInv, Taking = <<>>, Aside, iterator' \in {iterator, NoIterator}
    PROVE  TakesInv'
<1>1. Whole(NoIterator, <<>>) /\ ~NoIterator.failed
  BY NewIsWhole DEF NoIterator
<1>2. ~iterator'.failed => Whole(iterator', <<>>)
  BY <1>1 DEF TakesInv, CountsInv
<1> QED
  BY <1>2 DEF Aside, TakesInv, CountsInv, OutcomeInv

\* for await hands each entity of a page out once or leaves it in the page.
LEMMA ForAwaitIsWhole ==
    ASSUME NEW c \in AnyCall, NEW it \in AnyIterator, request \in AnyRequest, ForAwait(c, it),
           c.want # 0 => Len(c.got) < c.want, c.what \in {"take", "question"},
           c.what = "take" => c.wanted = <<c.want>>,
           ~it.failed => Whole(it, c.got)
    PROVE  TakesInv'
<1>1. PICK n \in 0..Len(it.buffer), after \in AnyCall, left \in AnyIterator :
               /\ after = [c EXCEPT !.got = c.got \o SubSeq(it.buffer, 1, n)]
               /\ left = [it EXCEPT !.buffer = SubSeq(it.buffer, n + 1, Len(it.buffer))]
               /\ after.got = c.got \o SubSeq(it.buffer, 1, n)
               /\ left.buffer = SubSeq(it.buffer, n + 1, Len(it.buffer))
               /\ c.want # 0 => Len(after.got) <= c.want
               /\ AsksOn(c, it, after, left) \/ HasRead(c, it, after, left)
  BY ForAwaitStep
<1>2. /\ after.want = c.want /\ after.what = c.what /\ after.wanted = c.wanted
      /\ left.next = it.next /\ left.fetched = it.fetched /\ left.failed = it.failed
      /\ left.given = it.given /\ left.byPage = it.byPage /\ left.operation = it.operation
      /\ c.got \in Seq(Ids) /\ after.got \in Seq(Ids) /\ it.operation \in ListOperations
  BY <1>1 DEF AnyCall, AnyIterator
<1>3. ~left.failed => Whole(left, after.got)
  BY <1>1, <1>2, TakingIsWhole
<1>4. CASE AsksOn(c, it, after, left)
  <2>1. /\ iterator' = left /\ call' = after /\ outcome' = NoOutcome
        /\ \E skip \in it.next : AskForPage(it, skip)
    BY <1>4 DEF AsksOn
  <2>2. request'.operation = it.operation
    BY <2>1 DEF AskForPage, Ask, AnyRequest
  <2>3. Taking' = after.got
    BY <2>1, <2>2, <1>2 DEF Taking
  <2> QED
    BY <2>1, <2>3, <1>2, <1>3 DEF TakesInv, CountsInv, OutcomeInv, NoOutcome
<1>5. CASE HasRead(c, it, after, left)
  <2>1. ListRead(after, left) /\ (Enough(after) \/ (it.next = {} /\ left.buffer = <<>>))
    BY <1>5 DEF HasRead
  <2>2. PICK it2 : it2 = [left EXCEPT !.given = left.given \o after.got]
    OBVIOUS
  <2>3. iterator' = it2 /\ it2.next = it.next /\ it2.buffer = left.buffer /\ it2.failed = left.failed
    BY <2>1, <2>2, <1>2 DEF ListRead, AnyIterator
  <2>4. ~iterator'.failed => Whole(iterator', <<>>)
    BY <2>2, <2>3, <1>2, <1>3, GivingIsWhole
  <2>5. CASE /\ NeedsChangeset(after)
             /\ call' = [after EXCEPT !.got = NamedChangeset(after)]
             /\ Ask(ChangesetGetSingle, EntityUrl("changeset", Part(NamedChangeset(after)[1])), <<>>, 0)
             /\ outcome' = NoOutcome
    <3>1. request'.operation = ChangesetGetSingle
      BY <2>5 DEF Ask, AnyRequest
    <3>2. ChangesetGetSingle \notin ListOperations
      <4>1. ChangesetGetSingle \in GetOperations
        BY DEF GetOperations
      <4> QED
        BY <4>1, Verbs DEF Operations
    <3>3. call'.what = "question"
      BY <2>5 DEF AnyCall, NeedsChangeset, Asked
    <3>4. Taking' = <<>>
      BY <3>1, <3>2, <3>3 DEF Taking
    <3> QED
      BY <2>4, <2>5, <3>3, <3>4 DEF TakesInv, CountsInv, OutcomeInv, NoOutcome
  <2>6. CASE Return(after, "returned", IF Asked(after) THEN AnswerFromList(after) ELSE after.got)
    <3>1. call' = NoCall /\ outcome'.of = after.what /\ outcome'.wanted = after.wanted
          /\ outcome'.got = IF Asked(after) THEN AnswerFromList(after) ELSE after.got
      BY <2>6 DEF Return
    <3>2. Taking' = <<>> /\ call'.what # "page"
      BY <3>1 DEF Taking, NoCall
    <3>3. after.what = "take" => outcome'.got = after.got
      BY <3>1 DEF Asked
    <3>4. OutcomeInv'
      <4>1. SUFFICES ASSUME outcome'.of = "take"
                     PROVE  /\ \/ Len(outcome'.got) = outcome'.wanted[1]
                               \/ iterator'.next = {} /\ iterator'.buffer = <<>>
                            /\ outcome'.wanted[1] # 0 => Len(outcome'.got) <= outcome'.wanted[1]
        BY DEF OutcomeInv
      <4>2. outcome'.got = after.got /\ outcome'.wanted[1] = after.want
        BY <4>1, <3>1, <3>3, <1>2
      <4> QED
        BY <4>2, <2>1, <2>3, <1>1 DEF Enough
    <3> QED
      BY <2>4, <3>2, <3>4 DEF TakesInv, CountsInv
  <2> QED
    BY <2>1, <2>5, <2>6 DEF ListRead
<1> QED
  BY <1>1, <1>4, <1>5

\* A page that is asked for by itself.
LEMMA NextPageTakes ==
    ASSUME QueriesInv, TakesInv, NextPage PROVE TakesInv'
<1>1. PICK c : c = NewCall("page", 0, <<>>, iterator.caller)
  OBVIOUS
<1>2. c.what = "page"
  BY <1>1 DEF NewCall
<1>3. call = NoCall /\ iterator \in AnyIterator
  BY DEF NextPage, Begin, QueriesInv, CallsOK, AwaitInv
<1>4. Taking = <<>>
  BY <1>3 DEF Taking, NoCall
<1>5. CASE Return(c, "returned", <<>>) /\ UNCHANGED iterator
  <2>1. Aside
    BY <1>2, <1>5 DEF Return, Aside, Taking, NoCall
  <2> QED
    BY <2>1, <1>4, <1>5, AsideIsWhole
<1>6. CASE call' = c /\ iterator' = [iterator EXCEPT !.byPage = TRUE] /\ outcome' = NoOutcome
  <2>1. Taking' = <<>> /\ outcome'.of # "take"
    BY <1>2, <1>6 DEF Taking, NoOutcome
  <2>2. /\ iterator'.byPage /\ iterator'.given = iterator.given /\ iterator'.buffer = iterator.buffer
        /\ iterator'.fetched = iterator.fetched /\ iterator'.failed = iterator.failed
    BY <1>3, <1>6 DEF AnyIterator
  <2>3. ~iterator'.failed => Whole(iterator', <<>>)
    BY <2>2, <1>4 DEF TakesInv, CountsInv, Whole
  <2> QED
    BY <2>1, <2>2, <2>3 DEF TakesInv, CountsInv, OutcomeInv
<1> QED
  BY <1>1, <1>5, <1>6 DEF NextPage

\* PageAnswered loses nothing of the page, whether it is returned or read on.
LEMMA PageAnsweredTakes ==
    ASSUME QueriesInv, TakesInv, PageAnswered PROVE TakesInv'
<1>1. step = "sent" /\ request.operation.verb = "list"
  BY DEF PageAnswered
<1>2. PICK page : page = PageOf(content, request.operation.on, request.query, request.skip)
  OBVIOUS
<1>3. PICK it : it = [iterator EXCEPT !.next = page.next, !.fetched = iterator.fetched \o page.entities]
  OBVIOUS
<1>4. /\ Awaiting /\ request.operation \in ListOperations /\ iterator \in AnyIterator /\ call \in AnyCall
      /\ page.entities \in Seq(Ids) /\ page.next \subseteq Nat
      /\ iterator.fetched \o page.entities \in Seq(Ids)
      /\ iterator.given \o page.entities \in Seq(Ids)
      /\ ~iterator.failed
  BY <1>1, <1>2, PageThatComes
<1>5. /\ it \in AnyIterator /\ it.fetched = iterator.fetched \o page.entities /\ ~it.failed
      /\ it.given = iterator.given /\ it.byPage = iterator.byPage /\ it.buffer = iterator.buffer
  BY <1>3, <1>4 DEF AnyIterator
<1>6. /\ \/ /\ call.what = "page"
            /\ iterator' = [it EXCEPT !.given = it.given \o page.entities]
            /\ Return(call, "returned", page.entities)
         \/ /\ call.what # "page"
            /\ ForAwait(call, [it EXCEPT !.buffer = page.entities])
  BY <1>2, <1>3 DEF PageAnswered, ContinueAt
<1>7. CASE /\ call.what = "page"
           /\ iterator' = [it EXCEPT !.given = it.given \o page.entities]
           /\ Return(call, "returned", page.entities)
  <2>1. Whole(iterator, <<>>) /\ iterator.byPage
    BY <1>4, <1>7 DEF TakesInv, CountsInv, Taking
  <2>2. /\ iterator'.given = iterator.given \o page.entities /\ iterator'.fetched = iterator.fetched \o page.entities
        /\ iterator'.byPage = iterator.byPage /\ iterator'.buffer = iterator.buffer
    BY <1>5, <1>7 DEF AnyIterator
  <2>3. Whole(iterator', <<>>)
    BY <2>1, <2>2, <1>4, TakenPageIsWhole
  <2>4. Taking' = <<>> /\ call'.what # "page" /\ outcome'.of # "take"
    BY <1>7 DEF Return, Taking, NoCall
  <2> QED
    BY <2>3, <2>4 DEF TakesInv, CountsInv, OutcomeInv
<1>8. CASE call.what # "page" /\ ForAwait(call, [it EXCEPT !.buffer = page.entities])
  <2>1. PICK it2 : it2 = [it EXCEPT !.buffer = page.entities]
    OBVIOUS
  <2>2. /\ it2 \in AnyIterator /\ it2.fetched = iterator.fetched \o page.entities /\ it2.given = iterator.given
        /\ it2.byPage = iterator.byPage /\ it2.buffer = page.entities
    BY <2>1, <1>4, <1>5 DEF AnyIterator
  <2>3. /\ call.what \in {"take", "question"}
        /\ call.what = "take" => call.wanted = <<call.want>>
        /\ call.want # 0 => Len(call.got) < call.want
        /\ iterator.buffer = <<>>
    BY <1>4, <1>8 DEF Awaiting
  <2>4. Whole(iterator, call.got) /\ call.got \in Seq(Ids)
    BY <2>3, <1>4 DEF TakesInv, CountsInv, Taking, AnyCall
  <2>5. Whole(it2, call.got)
    BY <2>2, <2>3, <2>4, <1>4, PageIsWhole
  <2>6. request \in AnyRequest /\ ForAwait(call, it2)
    BY <1>8, <2>1 DEF QueriesInv, CallsOK
  <2> QED
    BY <2>2, <2>3, <2>5, <2>6, <1>4, ForAwaitIsWhole
<1> QED
  BY <1>6, <1>7, <1>8

\* Nothing is taken while no call is about a list.
LEMMA NothingTaken ==
    ASSUME QueriesInv, step = "idle" \/ request.operation.verb # "list" PROVE Taking = <<>>
<1>1. CASE step = "idle"
  BY <1>1 DEF QueriesInv, CallsOK, AwaitInv, Taking, NoCall
<1>2. CASE step # "idle" /\ request.operation.verb # "list"
  <2>1. request.operation \in Operations /\ Awaiting
    BY <1>2 DEF QueriesInv, CallsOK, AwaitInv, AnyRequest
  <2>2. request.operation \notin ListOperations
    BY <1>2, <2>1, Verbs
  <2>3. call.what # "take"
    BY <2>1, <2>2 DEF Awaiting, Operations
  <2> QED
    BY <2>2, <2>3 DEF Taking
<1> QED
  BY <1>1, <1>2

\* A call that is no take ends without taking.
LEMMA ReturnIsAside ==
    ASSUME NEW c, NEW came, NEW got, Return(c, came, got), c.what # "take" PROVE Aside
BY DEF Return, Aside, Taking, NoCall

\* A failure of a list gives it up; one of something else leaves it.
LEMMA FailTakes ==
    ASSUME QueriesInv, TakesInv, NEW came, came # "returned", Fail(came) PROVE TakesInv'
<1>1. Return(call, came, <<>>)
  BY DEF Fail
<1>2. Taking' = <<>> /\ call'.what # "page" /\ OutcomeInv'
  BY <1>1 DEF Return, Taking, NoCall, OutcomeInv
<1>3. CASE request.operation.verb = "list"
  <2>1. iterator' = [iterator EXCEPT !.next = {}, !.failed = TRUE] /\ iterator \in AnyIterator
    BY <1>3 DEF Fail, QueriesInv, CallsOK
  <2>2. iterator'.failed
    BY <2>1 DEF AnyIterator
  <2> QED
    BY <2>2, <1>2 DEF TakesInv, CountsInv
<1>4. CASE request.operation.verb # "list"
  <2>1. iterator' = iterator /\ Taking = <<>>
    BY <1>4, NothingTaken DEF Fail
  <2> QED
    BY <2>1, <1>2 DEF TakesInv, CountsInv
<1> QED
  BY <1>3, <1>4

\* take goes on with what the last one left.
LEMMA TakeTakes ==
    ASSUME QueriesInv, TakesInv, NEW want \in Counts, Take(want) PROVE TakesInv'
<1>1. PICK c : c = NewCall("take", want, <<want>>, iterator.caller)
  OBVIOUS
<1>2. want \in Nat /\ <<want>> \in AnyWanted /\ iterator.caller \in AnyCaller /\ "take" \in AnyWhat
  BY QueriesAssumption DEF AnyWanted, AnyWhat, QueriesInv, CallsOK, AnyIterator
<1>3. c \in AnyCall /\ c.what = "take" /\ c.want = want /\ c.got = <<>> /\ c.wanted = <<want>>
  BY ONLY <1>1, <1>2, NewCallIs
<1>4. step = "idle" /\ ForAwait(c, iterator) /\ iterator \in AnyIterator /\ request \in AnyRequest
  BY <1>1 DEF Take, Begin, QueriesInv, CallsOK
<1>5. ~iterator.failed => Whole(iterator, c.got)
  BY <1>3, <1>4, NothingTaken DEF TakesInv, CountsInv
<1>6. c.want # 0 => Len(c.got) < c.want
  BY <1>2, <1>3
<1> QED
  BY <1>3, <1>4, <1>5, <1>6, ForAwaitIsWhole

\* Nothing has been taken of a list that begins.
LEMMA NewListTakes ==
    ASSUME NEW operation, NEW params, NEW caller, iterator' = NewIterator(operation, params, caller),
           Taking' = <<>>, call'.what # "page", outcome' = NoOutcome
    PROVE  TakesInv'
<1>1. Whole(iterator', <<>>)
  BY NewIsWhole DEF NewIterator
<1> QED
  BY <1>1 DEF TakesInv, CountsInv, OutcomeInv, NoOutcome

\* Other calls leave the list or do not touch it.
LEMMA OthersTake ==
    ASSUME QueriesInv, TakesInv,
           \/ \E operation \in Gets : GetSingle(operation)
           \/ \E operation \in Sends : SendRequest(operation)
           \/ \E f \in DOMAIN hand.linked : Follow(f)
    PROVE  TakesInv'
<1>1. Taking = <<>>
  BY NothingTaken DEF GetSingle, SendRequest, Follow, Begin
<1>2. \A what, wanted, caller : NewCall(what, 0, wanted, caller).got = <<>>
                                /\ NewCall(what, 0, wanted, caller).what = what
  BY DEF NewCall
<1>3. Aside /\ iterator' \in {iterator, NoIterator}
  <2>1. CASE \E operation \in Gets : GetSingle(operation)
    BY <2>1, <1>2 DEF GetSingle, Aside, Taking, NoOutcome, LeaveList
  <2>2. CASE \E operation \in Sends : SendRequest(operation)
    BY <2>2, <1>2 DEF SendRequest, Aside, Taking, NoOutcome
  <2>3. CASE \E f \in DOMAIN hand.linked : Follow(f)
    BY <2>3, <1>2, ReturnIsAside DEF Follow, Aside, Taking, NoOutcome
  <2> QED
    BY <2>1, <2>2, <2>3
<1> QED
  BY <1>1, <1>3, AsideIsWhole

\* A question leaves the list for its own.
LEMMA QuestionTakes ==
    ASSUME QueriesInv, TakesInv, NEW q \in Questions, QuestionAsked(q) PROVE TakesInv'
<1>1. \/ GetFirstVersion(q)
      \/ \E params : AskChangeset(q, params)
      \/ \E operation, params, want : AskList(q, operation, params, want)
  BY QuestionKinds
<1>2. \A want, caller : NewCall("question", want, q, caller).got = <<>>
                        /\ NewCall("question", want, q, caller).what = "question"
  BY DEF NewCall
<1>3. Taking = <<>>
  BY <1>1, NothingTaken DEF GetFirstVersion, AskChangeset, AskList, Question, Begin
<1>4. CASE GetFirstVersion(q)
  <2>1. Aside /\ iterator' = NoIterator
    BY <1>2, <1>4, ReturnIsAside DEF GetFirstVersion, LeaveList
  <2> QED
    BY <2>1, <1>3, AsideIsWhole
<1>5. CASE \E params : AskChangeset(q, params)
  <2>1. Aside /\ iterator' = NoIterator
    BY <1>2, <1>5 DEF AskChangeset, LeaveList, Aside, Taking, NoOutcome
  <2> QED
    BY <2>1, <1>3, AsideIsWhole
<1>6. CASE \E operation, params, want : AskList(q, operation, params, want)
  <2>1. PICK operation, params, want : AskList(q, operation, params, want)
    BY <1>6
  <2>2. PICK caller \in Callers({<<>>}) :
        /\ call' = NewCall("question", want, q, caller)
        /\ iterator' = NewIterator(operation, params, caller)
        /\ outcome' = NoOutcome
    BY <2>1 DEF AskList
  <2>3. Taking' = <<>> /\ call'.what # "page"
    BY <2>2, <1>2 DEF Taking
  <2> QED
    BY <2>2, <2>3, NewListTakes
<1> QED
  BY <1>1, <1>4, <1>5, <1>6

\* Every step keeps account of what was fetched.
LEMMA TakesStep ==
    ASSUME QueriesInv, TakesInv, [Next]_vars PROVE TakesInv'
<1>1. UNCHANGED <<step, call, iterator, outcome>> /\ request'.operation = request.operation => TakesInv'
  BY DEF TakesInv, CountsInv, OutcomeInv, Taking
<1>2. CASE Call
  <2>1. GetList => TakesInv'
    <3>1. SUFFICES ASSUME GetList PROVE TakesInv'
      OBVIOUS
    <3>2. PICK list \in Lists, caller \in Callers(Headers) :
            /\ step = "idle"
            /\ iterator' = NewIterator(list.operation, list.params, caller)
            /\ outcome' = NoOutcome
            /\ UNCHANGED <<step, call, request>>
      BY <3>1 DEF GetList
    <3>3. Taking = <<>> /\ call = NoCall
      BY <3>2, NothingTaken DEF QueriesInv, CallsOK, AwaitInv
    <3>4. Taking' = <<>> /\ call'.what # "page"
      BY <3>2, <3>3 DEF Taking, NoCall
    <3> QED
      BY <3>2, <3>4, NewListTakes
  <2>2. \A want \in Counts : Take(want) => TakesInv'
    BY TakeTakes
  <2>3. \A q \in Questions : QuestionAsked(q) => TakesInv'
    BY QuestionTakes
  <2> QED
    BY <1>2, <2>1, <2>2, <2>3, NextPageTakes, OthersTake DEF Call, QuestionAsked
<1>3. CASE Proceed
  <2>1. Authorized => TakesInv'
    <3>1. SUFFICES ASSUME Authorized PROVE TakesInv'
      OBVIOUS
    <3>2. /\ request'.operation = request.operation /\ step = "authorizing" /\ step' = "sent"
          /\ UNCHANGED <<call, iterator, outcome>>
      BY <3>1 DEF Authorized, QueriesInv, CallsOK, AnyRequest
    <3> QED
      BY <3>2 DEF TakesInv, CountsInv, OutcomeInv, Taking
  <2>2. AuthorizationFails \/ Unauthorized \/ RequestFails => TakesInv'
    BY FailTakes DEF AuthorizationFails, Unauthorized, RequestFails
  <2>3. SingleAnswered \/ SendAnswered => TakesInv'
    <3>1. SUFFICES ASSUME SingleAnswered \/ SendAnswered PROVE TakesInv'
      OBVIOUS
    <3>2. step = "sent" /\ request.operation \in Operations
          /\ (request.operation.verb = "get" \/ request.operation \in SendOperations)
      BY <3>1 DEF SingleAnswered, SendAnswered, QueriesInv, CallsOK, AnyRequest
    <3>3. Taking = <<>> /\ call.what # "take"
      <4>1. request.operation \notin ListOperations /\ request.operation.verb # "list"
        BY <3>2, Verbs
      <4>2. request.operation \in GetOperations \/ request.operation \in SendOperations
        BY <3>2, Verbs
      <4>3. Awaiting
        BY <3>2 DEF QueriesInv, CallsOK, AwaitInv
      <4>4. call.what # "take"
        BY <4>2, <4>3 DEF Awaiting
      <4> QED
        BY <4>1, <4>4, NothingTaken
    <3>4. Fail("notFound") \/ (UNCHANGED iterator /\ \E got : Return(call, "returned", got))
      BY <3>1 DEF SingleAnswered, SendAnswered
    <3>5. CASE Fail("notFound")
      BY <3>5, FailTakes
    <3>6. CASE UNCHANGED iterator /\ \E got : Return(call, "returned", got)
      BY <3>3, <3>6, ReturnIsAside, AsideIsWhole
    <3> QED
      BY <3>4, <3>5, <3>6
  <2> QED
    BY <1>3, <2>1, <2>2, <2>3, PageAnsweredTakes DEF Proceed
<1>4. CASE OthersChange
  BY <1>1, <1>4 DEF OthersChange
<1>5. CASE TokenExpires \/ UNCHANGED vars
  BY <1>1, <1>5 DEF TokenExpires, vars
<1> QED
  BY <1>2, <1>3, <1>4, <1>5 DEF Next

\* What take, toArray and byPage hand out of a list, over any number of iterations that were
\* broken off, is with the rest of the page what was fetched, each once and in order unless
\* pages were asked for in between; take returns fewer than asked for only at the end,
\* and never more, but that a count of 0 takes all.
THEOREM TakesGoOn == Spec => []TakesContinue
<1>1. Init => TakesInv
  <2>1. Whole(NoIterator, <<>>)
    BY NewIsWhole DEF NoIterator
  <2> QED
    BY <2>1 DEF Init, TakesInv, CountsInv, OutcomeInv, Taking, NoCall, NoOutcome
<1>2. QueriesInv /\ TakesInv /\ [Next]_vars => TakesInv'
  BY TakesStep
<1>3. QueriesInv /\ TakesInv => TakesContinue
  <2>1. SUFFICES ASSUME QueriesInv, TakesInv, ~iterator.failed,
                        step # "idle" => call.what # "question" \/ request.operation.verb = "list"
                 PROVE  Whole(iterator, InProgress) /\ OutcomeInv
    BY DEF TakesContinue, Whole, OutcomeInv
  <2>2. InProgress = Taking
    <3>1. CASE step = "idle"
      BY <2>1, <3>1 DEF QueriesInv, CallsOK, AwaitInv, NoCall, InProgress, Taking
    <3>2. CASE step # "idle"
      <4>1. request.operation \in Operations
        BY <2>1 DEF QueriesInv, CallsOK, AnyRequest
      <4>2. call.what = "question" => request.operation \in ListOperations
        BY <4>1, <3>2, <2>1, Verbs
      <4> QED
        BY <4>2 DEF InProgress, Taking
    <3> QED
      BY <3>1, <3>2
  <2> QED
    BY <2>1, <2>2 DEF TakesInv, CountsInv
<1> QED
  BY <1>1, <1>2, <1>3, QueriesInvariant, PTL DEF Spec

-------------------------------------------------------------------------------
(* Lists as they were read.                                                *)

\* A list begins with another one if it has what the other has at each place.
LEMMA PrefixIs ==
    ASSUME NEW S, NEW T, NEW s \in Seq(S), NEW t \in Seq(T)
    PROVE  IsPrefix(s, t) <=> Len(s) <= Len(t) /\ \A i \in 1..Len(s) : s[i] = t[i]
<1>1. Len(s) \in Nat /\ Len(t) \in Nat
  OBVIOUS
<1>2. ASSUME Len(s) <= Len(t)
      PROVE  SubSeq(s, 1, Len(s)) = SubSeq(t, 1, Len(s)) <=> \A i \in 1..Len(s) : s[i] = t[i]
  <2>1. PICK a : a = SubSeq(s, 1, Len(s))
    OBVIOUS
  <2>2. PICK b : b = SubSeq(t, 1, Len(s))
    OBVIOUS
  <2>3. /\ a \in Seq(S \union T) /\ Len(a) = Len(s) /\ \A i \in 1..Len(s) : a[i] = s[i]
        /\ b \in Seq(S \union T) /\ Len(b) = Len(s) /\ \A i \in 1..Len(s) : b[i] = t[i]
    <3>1. a \in Seq(S) /\ Len(a) = Len(s) /\ \A i \in 1..Len(s) : a[i] = s[i]
      BY <1>1, <2>1
    <3>2. b \in Seq(T) /\ Len(b) = Len(s) /\ \A i \in 1..Len(s) : b[i] = t[i]
      BY <1>1, <1>2, <2>2
    <3>3. a \in Seq(S \union T) /\ b \in Seq(S \union T)
      BY <3>1, <3>2, SeqMonotonic
    <3> QED
      BY <3>1, <3>2, <3>3
  <2>4. (\A i \in 1..Len(s) : s[i] = t[i]) => a = b
    <3>1. SUFFICES ASSUME \A i \in 1..Len(s) : s[i] = t[i] PROVE a = b
      OBVIOUS
    <3>2. \A i \in 1..Len(a) : a[i] = b[i]
      BY <2>3, <3>1
    <3> QED
      BY <2>3, <3>2, SeqEqual
  <2>5. a = b => \A i \in 1..Len(s) : s[i] = t[i]
    BY <2>3
  <2> QED
    BY <2>1, <2>2, <2>4, <2>5
<1> QED
  BY <1>2 DEF IsPrefix

\* The beginning of a beginning.
LEMMA PrefixOfPrefix ==
    ASSUME NEW S, NEW r \in Seq(S), NEW s \in Seq(S), NEW t \in Seq(S), IsPrefix(r, s), IsPrefix(s, t)
    PROVE  IsPrefix(r, t) /\ Len(s) <= Len(t)
<1>1. /\ Len(r) \in Nat /\ Len(s) \in Nat /\ Len(t) \in Nat
      /\ Len(r) <= Len(s) /\ \A i \in 1..Len(r) : r[i] = s[i]
      /\ Len(s) <= Len(t) /\ \A i \in 1..Len(s) : s[i] = t[i]
  BY PrefixIs
<1>2. Len(r) <= Len(t) /\ \A i \in 1..Len(r) : r[i] = t[i]
  BY <1>1
<1> QED
  BY <1>1, <1>2, PrefixIs

\* The latest list, as it is now.
Now == Listing(content, iterator.operation.on, iterator.query)

WholeInv ==
    ~history.disturbed =>
        /\ IsPrefix(iterator.fetched, Now)
        /\ Len(Now) >= iterator.atLeast
        /\ iterator.next = {} /\ ~iterator.failed => Len(iterator.fetched) >= iterator.atLeast

\* The list now, and what was read of it, are lists of numbers.
LEMMA NowIs ==
    ASSUME NEW now, Sound(now), NEW it \in AnyIterator
    PROVE  /\ Listing(now, it.operation.on, it.query) \in Seq(0..MaxId)
           /\ it.fetched \in Seq(0..MaxId)
<1>1. it.operation.on \in Types /\ it.fetched \in Seq(Ids)
  BY ListedOperations, TypesAre DEF AnyIterator
<1>2. PICK all : all = Listing(now, it.operation.on, it.query)
  OBVIOUS
<1>3. PICK T : T = There(now, it.operation.on)
  OBVIOUS
<1>4. all \in Seq(T) /\ T \subseteq 0..MaxId
  BY <1>1, <1>2, <1>3, ListingOf, Stored
<1>5. all \in Seq(0..MaxId)
  BY <1>4, SeqMonotonic
<1>6. it.fetched \in Seq(0..MaxId)
  <2>1. Ids \subseteq 0..MaxId
    BY QueriesAssumption DEF Ids
  <2> QED
    BY <2>1, <1>1, SeqMonotonic
<1> QED
  BY <1>2, <1>5, <1>6

\* A list of which nothing has been read.
LEMMA FreshIsWhole ==
    ASSUME QueriesInv', iterator'.fetched = <<>>,
           iterator'.atLeast \in {0, Len(Now')}, iterator'.atLeast = 0 \/ iterator'.next # {}
    PROVE  WholeInv'
<1>1. Now' \in Seq(0..MaxId) /\ <<>> \in Seq(0..MaxId)
  BY NowIs DEF QueriesInv, ServiceOK, CallsOK, Now
<1>2. Len(Now') \in Nat
  BY <1>1
<1>3. IsPrefix(<<>>, Now') /\ Len(<<>>) = 0
  <2>1. PICK s : s = <<>>
    OBVIOUS
  <2>2. PICK t : t = Now'
    OBVIOUS
  <2>3. s \in Seq(0..MaxId) /\ t \in Seq(0..MaxId) /\ Len(s) = 0 /\ Len(t) \in Nat
    BY <1>1, <2>1, <2>2
  <2>4. IsPrefix(s, t)
    <3>1. Len(s) <= Len(t) /\ \A i \in 1..Len(s) : s[i] = t[i]
      BY <2>3
    <3> QED
      BY <2>3, <3>1, PrefixIs
  <2> QED
    BY <2>1, <2>2, <2>3, <2>4
<1> QED
  BY <1>2, <1>3 DEF WholeInv

\* What is read stays as it is, or no more is read.
ListStays ==
    /\ iterator'.operation = iterator.operation /\ iterator'.query = iterator.query
    /\ iterator'.fetched = iterator.fetched /\ iterator'.atLeast = iterator.atLeast
    /\ \/ iterator'.next = iterator.next /\ iterator'.failed = iterator.failed
       \/ iterator'.failed

\* A step that reads no page and changes no list.
LEMMA StaysWhole ==
    ASSUME WholeInv, ListStays, UNCHANGED <<content, history>> PROVE WholeInv'
BY DEF WholeInv, ListStays, Now

\* What others do to the list, or the caller.
LEMMA ChangedIsWhole ==
    ASSUME QueriesInv, QueriesInv', WholeInv, UNCHANGED iterator,
           ~history'.disturbed => ~history.disturbed /\ ~Disturbed(content, content')
    PROVE  WholeInv'
<1>1. SUFFICES ASSUME ~history'.disturbed PROVE WholeInv'
  BY DEF WholeInv
<1>2. ~history.disturbed /\ IsPrefix(Now, Now')
  <2>1. ~history.disturbed /\ ~Disturbed(content, content')
    BY <1>1
  <2>2. iterator'.operation = iterator.operation /\ iterator'.query = iterator.query
    OBVIOUS
  <2>3. Now' = Listing(content', iterator.operation.on, iterator.query)
    BY <2>2 DEF Now
  <2> QED
    BY <2>1, <2>3 DEF Disturbed, Now
<1>3. Now \in Seq(0..MaxId) /\ Now' \in Seq(0..MaxId) /\ iterator.fetched \in Seq(0..MaxId)
  BY NowIs DEF QueriesInv, ServiceOK, CallsOK, Now
<1>4. PICK r : r = iterator.fetched
  OBVIOUS
<1>5. PICK s : s = Now
  OBVIOUS
<1>6. PICK t : t = Now'
  OBVIOUS
<1>7. IsPrefix(r, t) /\ Len(s) <= Len(t) /\ Len(s) \in Nat /\ Len(t) \in Nat
  <2>1. r \in Seq(0..MaxId) /\ s \in Seq(0..MaxId) /\ t \in Seq(0..MaxId) /\ IsPrefix(r, s) /\ IsPrefix(s, t)
    BY <1>2, <1>3, <1>4, <1>5, <1>6 DEF WholeInv
  <2> QED
    BY <2>1, PrefixOfPrefix
<1>8. iterator.atLeast \in Nat
  BY DEF QueriesInv, CallsOK, AnyIterator
<1>9. IsPrefix(iterator'.fetched, Now') /\ Len(Now') >= iterator'.atLeast
  BY <1>2, <1>4, <1>5, <1>6, <1>7, <1>8 DEF WholeInv
<1> QED
  BY <1>2, <1>9 DEF WholeInv

\* What others do, or the caller sends, either adds at the end of the list or disturbs it.
LEMMA BecomesWhole ==
    ASSUME QueriesInv, QueriesInv', WholeInv, UNCHANGED iterator, NEW after, Becomes(after)
    PROVE  WholeInv'
<1>1. ~history'.disturbed => ~history.disturbed /\ ~Disturbed(content, content')
  <2>1. history'.disturbed = (history.disturbed \/ Disturbed(content, after)) /\ content' = after
    BY DEF Becomes
  <2>2. history.disturbed \in BOOLEAN /\ Disturbed(content, after) \in BOOLEAN
    BY DEF QueriesInv, ServiceOK, Disturbed
  <2> QED
    BY <2>1, <2>2
<1> QED
  BY <1>1, ChangedIsWhole

\* for await fetches nothing by itself.
LEMMA ForAwaitStays ==
    ASSUME NEW c \in AnyCall, NEW it \in AnyIterator, c.want # 0 => Len(c.got) < c.want, ForAwait(c, it)
    PROVE  /\ iterator'.operation = it.operation /\ iterator'.query = it.query
           /\ iterator'.fetched = it.fetched /\ iterator'.atLeast = it.atLeast
           /\ iterator'.next = it.next /\ iterator'.failed = it.failed
<1>1. PICK n \in 0..Len(it.buffer), after \in AnyCall, left \in AnyIterator :
               /\ left = [it EXCEPT !.buffer = SubSeq(it.buffer, n + 1, Len(it.buffer))]
               /\ AsksOn(c, it, after, left) \/ HasRead(c, it, after, left)
  BY ForAwaitStep
<1>2. /\ left.operation = it.operation /\ left.query = it.query
      /\ left.fetched = it.fetched /\ left.atLeast = it.atLeast
      /\ left.next = it.next /\ left.failed = it.failed
  BY <1>1 DEF AnyIterator
<1>3. CASE AsksOn(c, it, after, left)
  BY <1>2, <1>3 DEF AsksOn
<1>4. CASE HasRead(c, it, after, left)
  <2>1. iterator' = [left EXCEPT !.given = left.given \o after.got]
    BY <1>4 DEF HasRead, ListRead
  <2> QED
    BY <1>2, <2>1 DEF AnyIterator
<1> QED
  BY <1>1, <1>3, <1>4

\* The page that comes follows what was fetched, and the last one reaches the end of the list.
LEMMA PageAnsweredWhole ==
    ASSUME QueriesInv, WholeInv, PageAnswered PROVE WholeInv'
<1>1. step = "sent" /\ request.operation.verb = "list" /\ UNCHANGED <<content, history>>
  BY DEF PageAnswered, service
<1>2. PICK page : page = PageOf(content, request.operation.on, request.query, request.skip)
  OBVIOUS
<1>3. PICK it : it = [iterator EXCEPT !.next = page.next, !.fetched = iterator.fetched \o page.entities]
  OBVIOUS
<1>4. /\ Awaiting /\ request.operation \in ListOperations /\ iterator \in AnyIterator /\ call \in AnyCall
      /\ page.entities \in Seq(Ids) /\ page.next \subseteq Nat
      /\ iterator.fetched \o page.entities \in Seq(Ids)
      /\ ~iterator.failed
  BY <1>1, <1>2, PageThatComes
<1>5. /\ it \in AnyIterator /\ it.fetched = iterator.fetched \o page.entities /\ it.next = page.next
      /\ it.operation = iterator.operation /\ it.query = iterator.query /\ it.atLeast = iterator.atLeast
  BY <1>3, <1>4 DEF AnyIterator
<1>6. /\ \/ iterator' = [it EXCEPT !.given = it.given \o page.entities]
         \/ /\ call.what # "page"
            /\ ForAwait(call, [it EXCEPT !.buffer = page.entities])
  BY <1>2, <1>3 DEF PageAnswered, ContinueAt
<1>7. /\ iterator'.operation = iterator.operation /\ iterator'.query = iterator.query
      /\ iterator'.fetched = iterator.fetched \o page.entities /\ iterator'.atLeast = iterator.atLeast
      /\ iterator'.next = page.next
  <2>1. CASE iterator' = [it EXCEPT !.given = it.given \o page.entities]
    BY <1>5, <2>1 DEF AnyIterator
  <2>2. CASE call.what # "page" /\ ForAwait(call, [it EXCEPT !.buffer = page.entities])
    <3>1. PICK it2 : it2 = [it EXCEPT !.buffer = page.entities]
      OBVIOUS
    <3>2. /\ it2 \in AnyIterator /\ it2.fetched = it.fetched /\ it2.next = it.next
          /\ it2.operation = it.operation /\ it2.query = it.query /\ it2.atLeast = it.atLeast
      BY <3>1, <1>4, <1>5 DEF AnyIterator
    <3>3. call.want # 0 => Len(call.got) < call.want
      BY <1>4, <2>2 DEF Awaiting
    <3>4. ForAwait(call, it2)
      BY <2>2, <3>1
    <3> QED
      BY <3>2, <3>3, <3>4, <1>4, <1>5, ForAwaitStays
  <2> QED
    BY <1>6, <2>1, <2>2
<1>8. PICK all : all = Now
  OBVIOUS
<1>9. /\ all = Listing(content, request.operation.on, request.query)
      /\ request.skip = Len(iterator.fetched)
      /\ request.query \in AnyQuery /\ request.skip \in Nat /\ request.operation.on \in Listed
  BY <1>4, <1>8, ListedOperations DEF Awaiting, Now, QueriesInv, CallsOK, AnyRequest
<1>10. /\ all \in Seq(Ids)
       /\ page.next = {} => request.skip + Len(page.entities) >= Len(all)
       /\ request.skip <= Len(all) => request.skip + Len(page.entities) <= Len(all)
       /\ \A i \in 1..Len(page.entities) : page.entities[i] = all[request.skip + i]
  <2>1. Sound(content)
    BY DEF QueriesInv, ServiceOK
  <2>2. PICK now, on, query, skip :
            now = content /\ on = request.operation.on /\ query = request.query /\ skip = request.skip
    OBVIOUS
  <2>3. Sound(now) /\ on \in Listed /\ query \in AnyQuery /\ skip \in Nat
    BY <1>9, <2>1, <2>2
  <2>4. all = Listing(now, on, query) /\ page = PageOf(now, on, query, skip)
    BY <1>2, <1>9, <2>2
  <2>5. /\ all \in Seq(Ids)
        /\ page.next = {} => skip + Len(page.entities) >= Len(all)
        /\ skip <= Len(all) => skip + Len(page.entities) <= Len(all)
        /\ \A i \in 1..Len(page.entities) : page.entities[i] = all[skip + i]
    BY <2>3, <2>4, PageIs
  <2> QED
    BY <2>2, <2>5
<1>11. Now' = all
  BY <1>1, <1>7, <1>8 DEF Now
<1>12. PICK fetched : fetched = iterator.fetched
  OBVIOUS
<1>13. /\ fetched \in Seq(Ids) /\ Len(fetched) = request.skip /\ iterator.atLeast \in Nat
       /\ Len(page.entities) \in Nat /\ Len(all) \in Nat
       /\ fetched \o page.entities \in Seq(Ids)
       /\ Len(fetched \o page.entities) = Len(fetched) + Len(page.entities)
       /\ \A i \in 1..(Len(fetched) + Len(page.entities)) :
              (fetched \o page.entities)[i] = IF i <= Len(fetched) THEN fetched[i]
                                              ELSE page.entities[i - Len(fetched)]
  BY <1>4, <1>9, <1>10, <1>12, ConcatProperties DEF AnyIterator
<1>14. SUFFICES ASSUME ~history.disturbed
                PROVE  /\ IsPrefix(fetched \o page.entities, all)
                       /\ Len(all) >= iterator.atLeast
                       /\ page.next = {} => Len(fetched \o page.entities) >= iterator.atLeast
  BY <1>1, <1>7, <1>11, <1>12 DEF WholeInv
<1>15. IsPrefix(fetched, all) /\ Len(all) >= iterator.atLeast
  BY <1>8, <1>12, <1>14 DEF WholeInv
<1>16. Len(fetched) <= Len(all) /\ \A i \in 1..Len(fetched) : fetched[i] = all[i]
  BY <1>10, <1>13, <1>15, PrefixIs
<1>17. IsPrefix(fetched \o page.entities, all)
  <2>1. PICK more : more = fetched \o page.entities
    OBVIOUS
  <2>2. Len(more) <= Len(all)
    BY <1>10, <1>13, <1>16, <2>1
  <2>3. ASSUME NEW i \in 1..Len(more) PROVE more[i] = all[i]
    <3>1. CASE i <= Len(fetched)
      BY <1>13, <1>16, <2>1, <3>1
    <3>2. CASE i > Len(fetched)
      <4>1. i - Len(fetched) \in 1..Len(page.entities) /\ request.skip + (i - Len(fetched)) = i
        BY <1>9, <1>13, <2>1, <3>2
      <4> QED
        BY <4>1, <1>10, <1>13, <2>1, <3>2
    <3> QED
      BY <1>13, <3>1, <3>2
  <2>4. more \in Seq(Ids)
    BY <1>13, <2>1
  <2>5. IsPrefix(more, all)
    BY <1>10, <2>2, <2>3, <2>4, PrefixIs
  <2> QED
    BY <2>1, <2>5
<1>18. page.next = {} => Len(fetched \o page.entities) >= iterator.atLeast
  BY <1>10, <1>13, <1>15
<1> QED
  BY <1>15, <1>17, <1>18

\* A list the caller asks for, or leaves.
LEMMA NewListWhole ==
    ASSUME QueriesInv', UNCHANGED content,
           NEW operation, NEW params, NEW caller, iterator' = NewIterator(operation, params, caller)
    PROVE  WholeInv'
<1>1. /\ iterator'.fetched = <<>> /\ iterator'.next # {}
      /\ iterator'.operation = operation /\ iterator'.query = FormQueryString(params)
      /\ iterator'.atLeast = Len(Listing(content, operation.on, FormQueryString(params)))
  BY DEF NewIterator
<1>2. Now' = Listing(content, operation.on, FormQueryString(params))
  BY <1>1 DEF Now
<1> QED
  BY <1>1, <1>2, FreshIsWhole

\* A list that is left has nothing read.
LEMMA LeftListWhole ==
    ASSUME QueriesInv', LeaveList PROVE WholeInv'
<1>1. iterator'.fetched = <<>> /\ iterator'.atLeast = 0
  BY DEF LeaveList, NoIterator
<1> QED
  BY <1>1, FreshIsWhole

\* Nothing is read of the list that a question begins.
LEMMA QuestionWhole ==
    ASSUME QueriesInv', NEW q \in Questions, QuestionAsked(q) PROVE WholeInv'
<1>1. \/ q.ask = "first" /\ GetFirstVersion(q)
      \/ \E params : AskChangeset(q, params)
      \/ \E operation, params, want : AskList(q, operation, params, want)
  BY QuestionKinds
<1>2. CASE GetFirstVersion(q)
  BY <1>2, LeftListWhole DEF GetFirstVersion
<1>3. CASE \E params : AskChangeset(q, params)
  BY <1>3, LeftListWhole DEF AskChangeset
<1>4. CASE \E operation, params, want : AskList(q, operation, params, want)
  <2>1. PICK operation, params, want : AskList(q, operation, params, want)
    BY <1>4
  <2>2. PICK caller \in Callers({<<>>}) :
            Question(q) /\ iterator' = NewIterator(operation, params, caller)
    BY <2>1 DEF AskList
  <2>3. UNCHANGED content
    BY <2>2 DEF Question, Begin, service
  <2> QED
    BY <2>2, <2>3, NewListWhole
<1> QED
  BY <1>1, <1>2, <1>3, <1>4

\* One call after another.
LEMMA CallWhole ==
    ASSUME QueriesInv, QueriesInv', WholeInv, Call PROVE WholeInv'
<1>1. iterator \in AnyIterator /\ (step = "idle" => call = NoCall)
  BY DEF QueriesInv, CallsOK, AwaitInv
<1>2. ASSUME GetList PROVE WholeInv'
  <2>1. PICK list \in Lists, caller \in Callers(Headers) :
            iterator' = NewIterator(list.operation, list.params, caller) /\ UNCHANGED content
    BY <1>2 DEF GetList, service
  <2> QED
    BY <2>1, NewListWhole
<1>3. ASSUME NextPage PROVE WholeInv'
  <2>1. UNCHANGED <<content, history>>
    BY <1>3 DEF NextPage, Begin, service
  <2>2. iterator' = iterator \/ iterator' = [iterator EXCEPT !.byPage = TRUE]
    BY <1>3 DEF NextPage
  <2>3. ListStays
    BY <1>1, <2>2 DEF ListStays, AnyIterator
  <2> QED
    BY <2>1, <2>3, StaysWhole
<1>4. ASSUME NEW want \in Counts, Take(want) PROVE WholeInv'
  <2>1. PICK c : c = NewCall("take", want, <<want>>, iterator.caller)
    OBVIOUS
  <2>2. ForAwait(c, iterator) /\ UNCHANGED <<content, history>>
    BY <1>4, <2>1 DEF Take, Begin, service
  <2>3. c \in AnyCall /\ (c.want # 0 => Len(c.got) < c.want)
    <3>1. want \in Nat /\ iterator.caller \in AnyCaller /\ <<want>> \in AnyWanted /\ "take" \in AnyWhat
      BY <1>1, QueriesAssumption DEF AnyIterator, AnyWanted, AnyWhat
    <3>2. <<>> \in Seq(Ids) /\ Len(<<>>) = 0
      OBVIOUS
    <3> QED
      BY <2>1, <3>1, <3>2 DEF NewCall, AnyCall
  <2>4. ListStays
    BY <1>1, <2>2, <2>3, ForAwaitStays DEF ListStays
  <2> QED
    BY <2>2, <2>4, StaysWhole
<1>5. ASSUME NEW operation \in Gets, GetSingle(operation) PROVE WholeInv'
  BY <1>5, LeftListWhole DEF GetSingle
<1>6. ASSUME NEW operation \in Sends, SendRequest(operation) PROVE WholeInv'
  <2>1. UNCHANGED <<content, history, iterator>>
    BY <1>6 DEF SendRequest, Begin, service
  <2> QED
    BY <2>1, StaysWhole DEF ListStays
<1>7. ASSUME NEW f \in DOMAIN hand.linked, Follow(f) PROVE WholeInv'
  <2>1. UNCHANGED <<content, history, iterator>>
    BY <1>7 DEF Follow, Begin, service
  <2> QED
    BY <2>1, StaysWhole DEF ListStays
<1>8. ASSUME NEW q \in Questions, QuestionAsked(q) PROVE WholeInv'
  BY <1>8, QuestionWhole
<1> QED
  BY <1>2, <1>3, <1>4, <1>5, <1>6, <1>7, <1>8 DEF Call, QuestionAsked

\* A call that fails reads no more of its list.
LEMMA FailStays ==
    ASSUME iterator \in AnyIterator, NEW came, Fail(came) PROVE ListStays
<1>1. \/ iterator' = iterator
      \/ iterator' = [iterator EXCEPT !.next = {}, !.failed = TRUE]
  BY DEF Fail
<1> QED
  BY <1>1 DEF ListStays, AnyIterator

\* The answers to requests, and their failures.
LEMMA ProceedWhole ==
    ASSUME QueriesInv, QueriesInv', WholeInv, Proceed PROVE WholeInv'
<1>1. iterator \in AnyIterator /\ request \in AnyRequest
  BY DEF QueriesInv, CallsOK
<1>2. ASSUME Authorized PROVE WholeInv'
  <2>1. UNCHANGED <<content, history, iterator>>
    BY <1>2 DEF Authorized, service
  <2> QED
    BY <2>1, StaysWhole DEF ListStays
<1>3. ASSUME AuthorizationFails \/ Unauthorized PROVE WholeInv'
  <2>1. ListStays /\ UNCHANGED <<content, history>>
    BY <1>1, <1>3, FailStays DEF AuthorizationFails, Unauthorized
  <2> QED
    BY <2>1, StaysWhole
<1>4. ASSUME RequestFails PROVE WholeInv'
  <2>1. CASE UNCHANGED <<content, changes, history>>
    <3>1. ListStays
      BY <1>1, <1>4, FailStays DEF RequestFails
    <3> QED
      BY <2>1, <3>1, StaysWhole
  <2>2. CASE request.operation \in SendOperations /\ \E after : Becomes(after)
    <3>1. request.operation.verb # "list"
      BY <2>2, Verbs DEF Operations
    <3>2. UNCHANGED iterator
      BY <1>4, <3>1 DEF RequestFails, Fail
    <3> QED
      BY <2>2, <3>2, BecomesWhole
  <2> QED
    BY <1>4, <2>1, <2>2 DEF RequestFails
<1>5. ASSUME SingleAnswered PROVE WholeInv'
  <2>1. UNCHANGED <<content, history>> /\ ListStays
    BY <1>1, <1>5, FailStays DEF SingleAnswered, service, ListStays
  <2> QED
    BY <2>1, StaysWhole
<1>6. ASSUME SendAnswered PROVE WholeInv'
  <2>1. (\E after : Becomes(after)) /\ UNCHANGED iterator
    BY <1>6 DEF SendAnswered
  <2> QED
    BY <2>1, BecomesWhole
<1> QED
  BY <1>2, <1>3, <1>4, <1>5, <1>6, PageAnsweredWhole DEF Proceed

\* As long as a list changes at its end only, the pages read of it, with whatever is done
\* in between, are how it begins: the iterator asks for the next page where the last one
\* says, goes on after a break where it was, and is at the end when no page has a link.
THEOREM ListsWhole == Spec => []ListsAreWhole
<1>1. Init => WholeInv
  <2>1. SUFFICES ASSUME Init PROVE WholeInv
    OBVIOUS
  <2>2. iterator.fetched = <<>> /\ iterator.atLeast = 0
    BY <2>1 DEF Init, NoIterator
  <2>3. QueriesInv
    BY <2>1, QueriesInit
  <2>4. PICK all : all = Now
    OBVIOUS
  <2>5. all \in Seq(0..MaxId)
    BY <2>3, <2>4, NowIs DEF QueriesInv, ServiceOK, CallsOK, Now
  <2>6. PICK s : s = <<>>
    OBVIOUS
  <2>7. s \in Seq(0..MaxId) /\ Len(s) = 0 /\ Len(all) \in Nat
    BY <2>5, <2>6
  <2>8. IsPrefix(s, all)
    <3>1. Len(s) <= Len(all) /\ \A i \in 1..Len(s) : s[i] = all[i]
      BY <2>7
    <3> QED
      BY <2>5, <2>7, <3>1, PrefixIs
  <2> QED
    BY <2>2, <2>4, <2>6, <2>7, <2>8 DEF WholeInv
<1>2. QueriesInv /\ QueriesInv' /\ WholeInv /\ [Next]_vars => WholeInv'
  <2>1. SUFFICES ASSUME QueriesInv, QueriesInv', WholeInv, [Next]_vars PROVE WholeInv'
    OBVIOUS
  <2>2. CASE OthersChange
    <3>1. (\E after : Becomes(after)) /\ UNCHANGED iterator
      BY <2>2 DEF OthersChange
    <3> QED
      BY <2>1, <3>1, BecomesWhole
  <2>3. CASE TokenExpires \/ UNCHANGED vars
    <3>1. UNCHANGED <<content, history, iterator>>
      BY <2>3 DEF TokenExpires, vars, service
    <3> QED
      BY <2>1, <3>1, StaysWhole DEF ListStays
  <2> QED
    BY <2>1, <2>2, <2>3, CallWhole, ProceedWhole DEF Next
<1>3. WholeInv => ListsAreWhole
  BY DEF WholeInv, ListsAreWhole, Now
<1> QED
  BY <1>1, <1>2, <1>3, QueriesInvariant, PTL DEF Spec

-------------------------------------------------------------------------------
(* What the lists that questions read begin with.                          *)

\* Numbers that are added after the others do not change where those are.
LEMMA LongerList ==
    ASSUME NEW S \in SUBSET Nat, NEW T \in SUBSET Nat, IsFiniteSet(T), S \subseteq T,
           \A s \in S, t \in T \ S : s < t
    PROVE  /\ IsFiniteSet(S) /\ Cardinality(S) <= Cardinality(T)
           /\ Cardinality(S) \in Nat /\ Cardinality(T) \in Nat
           /\ \A k \in 1..Cardinality(S) : InOrder(T, Less(T))[k] = InOrder(S, Less(S))[k]
<1> DEFINE m == Cardinality(S)
           n == Cardinality(T)
<1>1. IsFiniteSet(S) /\ m \in Nat /\ n \in Nat /\ m <= n
  BY FS_Subset, FS_CardinalityType
<1>2. PICK s : s = InOrder(S, Less(S))
  OBVIOUS
<1>3. PICK t : t = InOrder(T, Less(T))
  OBVIOUS
<1>4. /\ s \in [1..m -> S] /\ \A k \in 1..m : Cardinality(Ahead(S, Less(S), s[k])) = k - 1
  BY <1>1, <1>2, LessIsTotal, InOrderLists
<1>5. /\ t \in [1..n -> T] /\ \A k \in 1..n : Cardinality(Ahead(T, Less(T), t[k])) = k - 1
      /\ \A p \in T : \E k \in 1..n : t[k] = p
  BY <1>3, LessIsTotal, InOrderLists
<1>6. \A p \in S : Ahead(S, Less(S), p) = Ahead(T, Less(T), p)
  <2>1. ASSUME NEW p \in S, NEW q \in T, q < p PROVE q \in S
    <3>1. q \notin T \ S
      BY <2>1
    <3> QED
      BY <3>1
  <2> QED
    BY <2>1 DEF Ahead, Less
<1>7. ASSUME NEW k \in 1..m PROVE t[k] = s[k]
  <2>1. s[k] \in S /\ s[k] \in T /\ Cardinality(Ahead(T, Less(T), s[k])) = k - 1
    BY <1>4, <1>6, <1>7
  <2>2. PICK j \in 1..n : t[j] = s[k]
    BY <1>5, <2>1
  <2>3. j - 1 = k - 1
    BY <1>5, <2>1, <2>2
  <2>4. j = k
    BY <1>1, <2>2, <2>3
  <2> QED
    BY <2>2, <2>4
<1> QED
  BY <1>1, <1>2, <1>3, <1>7

\* What a page adds to the beginning of a list is the beginning of it.
LEMMA PageGoesOn ==
    ASSUME NEW S, NEW all \in Seq(S), NEW fetched \in Seq(S), NEW more \in Seq(S),
           IsPrefix(fetched, all), Len(fetched) + Len(more) <= Len(all),
           \A i \in 1..Len(more) : more[i] = all[Len(fetched) + i]
    PROVE  IsPrefix(fetched \o more, all) /\ Len(fetched \o more) = Len(fetched) + Len(more)
<1>1. /\ Len(fetched) \in Nat /\ Len(more) \in Nat /\ Len(all) \in Nat
      /\ fetched \o more \in Seq(S)
      /\ Len(fetched \o more) = Len(fetched) + Len(more)
      /\ \A i \in 1..(Len(fetched) + Len(more)) :
             (fetched \o more)[i] = IF i <= Len(fetched) THEN fetched[i] ELSE more[i - Len(fetched)]
  BY ConcatProperties
<1>2. \A i \in 1..Len(fetched) : fetched[i] = all[i]
  BY PrefixIs
<1>3. PICK both : both = fetched \o more
  OBVIOUS
<1>4. ASSUME NEW i \in 1..Len(both) PROVE both[i] = all[i]
  <2>1. CASE i <= Len(fetched)
    BY <1>1, <1>2, <1>3, <2>1
  <2>2. CASE i > Len(fetched)
    <3>1. i - Len(fetched) \in 1..Len(more) /\ Len(fetched) + (i - Len(fetched)) = i
      BY <1>1, <1>3, <2>2
    <3> QED
      BY <1>1, <1>3, <2>2, <3>1
  <2> QED
    BY <1>1, <1>3, <2>1, <2>2
<1>5. both \in Seq(S) /\ Len(both) <= Len(all)
  BY <1>1, <1>3
<1>6. IsPrefix(both, all)
  BY <1>4, <1>5, PrefixIs
<1> QED
  BY <1>1, <1>3, <1>6

\* A beginning that is as long as the list is the list.
LEMMA WholePrefix ==
    ASSUME NEW S, NEW s \in Seq(S), NEW t \in Seq(S), IsPrefix(s, t), Len(s) >= Len(t)
    PROVE  s = t
<1>1. Len(s) \in Nat /\ Len(t) \in Nat /\ Len(s) <= Len(t) /\ \A i \in 1..Len(s) : s[i] = t[i]
  BY PrefixIs
<1>2. Len(s) = Len(t)
  BY <1>1
<1> QED
  BY <1>1, <1>2, SeqEqual

\* Nothing is the beginning of any list.
LEMMA NothingIsPrefix ==
    ASSUME NEW S, NEW t \in Seq(S) PROVE IsPrefix(<<>>, t)
<1>1. PICK s : s = <<>>
  OBVIOUS
<1>2. s \in Seq(S) /\ Len(s) = 0 /\ Len(t) \in Nat
  BY <1>1
<1>3. Len(s) <= Len(t) /\ \A i \in 1..Len(s) : s[i] = t[i]
  BY <1>2
<1>4. IsPrefix(s, t)
  BY <1>2, <1>3, PrefixIs
<1> QED
  BY <1>1, <1>4

\* The latest comes first.
LEMMA FirstIsLatest ==
    ASSUME NEW now, Sound(now), NEW on \in Types, NEW query, "orderBy" \in DOMAIN query,
           "name" \notin DOMAIN query, "afterIndex" \notin DOMAIN query, "lastIndex" \notin DOMAIN query
    PROVE  LET all == Listing(now, on, query)
           IN  /\ all = <<>> => There(now, on) = {}
               /\ all # <<>> => /\ all[1] \in There(now, on)
                                /\ \A n \in There(now, on) : Rank(now, on, n) <= Rank(now, on, all[1])
<1>1. PICK all : all = Listing(now, on, query)
  OBVIOUS
<1>2. PICK F : F = Filtered(now, on, query)
  OBVIOUS
<1>3. F = DOMAIN now.store[on]
  BY <1>2 DEF Filtered
<1>4. PICK o : o = InOrder(F, Later(now, on))
  OBVIOUS
<1>5. PICK c : c = Cardinality(F)
  OBVIOUS
<1>6. /\ c \in Nat /\ o \in [1..c -> F]
      /\ \A p \in F : \E k \in 1..c : o[k] = p
      /\ \A i, j \in 1..c : i < j => <<o[i], o[j]>> \in Later(now, on)
      /\ all \in Seq(There(now, on)) /\ Len(all) = c
      /\ \A k \in 1..c : all[k] = now.store[on][o[k]]
  <2>1. PICK before : before = IF "orderBy" \in DOMAIN query THEN Later(now, on) ELSE Less(F)
    OBVIOUS
  <2>2. before = Later(now, on)
    BY <2>1
  <2>3. /\ F \subseteq DOMAIN now.store[on] /\ IsFiniteSet(F) /\ TotalOrder(F, before)
    BY <1>2, <2>1, ListingOf
  <2>4. o = InOrder(F, before)
    BY <1>4, <2>2
  <2>5. /\ Cardinality(F) \in Nat /\ o \in [1..Cardinality(F) -> F]
        /\ \A p \in F : \E k \in 1..Cardinality(F) : o[k] = p
        /\ \A i, j \in 1..Cardinality(F) : i < j => <<o[i], o[j]>> \in before
    BY ONLY <2>4, <2>3, InOrderLists
  <2>6. all \in Seq(There(now, on)) /\ Len(all) = Cardinality(F)
    BY <1>1, <1>2, ListingOf
  <2>7. all = [k \in DOMAIN o |-> now.store[on][o[k]]]
    BY <1>1, <1>2, <1>4 DEF Listing
  <2>8. \A k \in 1..Cardinality(F) : all[k] = now.store[on][o[k]]
    BY <2>5, <2>7
  <2> QED
    BY <1>5, <2>2, <2>5, <2>6, <2>8
<1>7. ASSUME NEW n \in There(now, on) PROVE 1 \in 1..c /\ Rank(now, on, n) <= Rank(now, on, all[1])
  <2>1. PICK p \in F : now.store[on][p] = n
    BY <1>3, Stored
  <2>2. PICK k \in 1..c : o[k] = p
    BY <1>6
  <2>3. 1 \in 1..c /\ 1 <= k
    BY <1>6
  <2>4. o[1] \in F /\ all[1] = now.store[on][o[1]]
    BY <1>6, <2>3
  <2>5. Rank(now, on, n) \in Nat /\ Rank(now, on, all[1]) \in Nat
    BY <1>3, <2>1, <2>4, Ranked
  <2>6. CASE k = 1
    BY <2>1, <2>2, <2>3, <2>4, <2>5, <2>6
  <2>7. CASE k > 1
    <3>1. <<o[1], p>> \in Later(now, on)
      BY <1>6, <2>2, <2>3, <2>7
    <3>2. \/ Rank(now, on, all[1]) > Rank(now, on, n)
          \/ Rank(now, on, all[1]) = Rank(now, on, n)
      BY <1>3, <2>1, <2>4, <3>1 DEF Later
    <3> QED
      BY <2>3, <2>5, <3>2
  <2> QED
    BY <2>3, <2>6, <2>7
<1>8. all = <<>> => There(now, on) = {}
  BY <1>6, <1>7
<1>9. ASSUME all # <<>> PROVE all[1] \in There(now, on)
  <2>1. 1 \in 1..Len(all)
    BY <1>6, <1>9
  <2> QED
    BY <1>6, <2>1
<1> QED
  BY <1>1, <1>7, <1>8, <1>9

\* One has a name at most.
LEMMA NamedList ==
    ASSUME NEW now, Sound(now), NEW on \in {"iModel", "namedVersion"}, NEW name, NEW query,
           DOMAIN query = {"name"}, <<query.name>> = name
    PROVE  LET all == Listing(now, on, query)
           IN  /\ all \in Seq(There(now, on)) /\ Len(all) <= 1
               /\ all = <<>> => \A n \in There(now, on) : now.names[on][n] # name
               /\ all # <<>> => all[1] \in There(now, on) /\ now.names[on][all[1]] = name
<1>1. on \in Types
  BY TypesAre DEF Listed
<1>2. PICK all : all = Listing(now, on, query)
  OBVIOUS
<1>3. PICK F : F = Filtered(now, on, query)
  OBVIOUS
<1>4. F = {p \in DOMAIN now.store[on] : now.names[on][now.store[on][p]] = name}
  BY <1>3 DEF Filtered
<1>5. PICK o : o = InOrder(F, Less(F))
  OBVIOUS
<1>6. IsFiniteSet(F) /\ F \subseteq DOMAIN now.store[on] /\ F \subseteq Nat
  <2>1. PICK places : places = DOMAIN now.store[on]
    OBVIOUS
  <2>2. PICK n : n = Len(now.store[on])
    OBVIOUS
  <2>3. n \in Nat /\ places = 1..n
    BY <1>1, <2>1, <2>2, Stored
  <2>4. IsFiniteSet(places) /\ places \subseteq Nat
    BY <2>3, FS_Interval
  <2>5. F \subseteq places
    BY <1>4, <2>1
  <2> QED
    BY <2>1, <2>4, <2>5, FS_Subset
<1>7. /\ Cardinality(F) \in Nat /\ o \in [1..Cardinality(F) -> F]
      /\ \A p \in F : \E k \in 1..Cardinality(F) : o[k] = p
      /\ \A i, j \in 1..Cardinality(F) : o[i] = o[j] => i = j
  <2>1. PICK before : before = Less(F)
    OBVIOUS
  <2>2. IsFiniteSet(F) /\ TotalOrder(F, before) /\ o = InOrder(F, before)
    BY <1>5, <1>6, <2>1, LessIsTotal
  <2> QED
    BY ONLY <2>2, InOrderLists
<1>8. all \in Seq(There(now, on)) /\ Len(all) = Cardinality(F)
  BY <1>1, <1>2, <1>3, ListingOf
<1>9. \A k \in 1..Cardinality(F) : all[k] = now.store[on][o[k]]
  <2>1. all = [k \in DOMAIN o |-> now.store[on][o[k]]]
    BY <1>2, <1>3, <1>5 DEF Listing
  <2> QED
    BY <1>7, <2>1
<1>10. \A p, q \in F : p = q
  <2>1. ASSUME NEW p \in F, NEW q \in F PROVE p = q
    <3>1. /\ now.store[on][p] \in There(now, on) /\ now.store[on][q] \in There(now, on)
          /\ now.names[on][now.store[on][p]] = now.names[on][now.store[on][q]]
      BY <1>1, <1>4, Stored
    <3>2. now.store[on][p] = now.store[on][q]
      BY <3>1 DEF Sound
    <3> QED
      BY <1>1, <1>6, <3>2, Stored
  <2> QED
    BY <2>1
<1>11. Cardinality(F) <= 1
  <2>1. SUFFICES ASSUME Cardinality(F) >= 2 PROVE FALSE
    BY <1>7
  <2>2. 1 \in 1..Cardinality(F) /\ 2 \in 1..Cardinality(F)
    BY <1>7, <2>1
  <2>3. o[1] = o[2]
    BY <1>7, <1>10, <2>2
  <2> QED
    BY <1>7, <2>2, <2>3
<1>12. ASSUME all = <<>>, NEW n \in There(now, on) PROVE now.names[on][n] # name
  <2>1. F = {}
    BY <1>7, <1>8, <1>12
  <2>2. PICK p \in DOMAIN now.store[on] : now.store[on][p] = n
    BY <1>1, Stored
  <2> QED
    BY <1>4, <2>1, <2>2
<1>13. ASSUME all # <<>> PROVE all[1] \in There(now, on) /\ now.names[on][all[1]] = name
  <2>1. 1 \in 1..Len(all)
    BY <1>8, <1>13
  <2>2. 1 \in 1..Cardinality(F) /\ all[1] \in There(now, on)
    BY <1>8, <2>1
  <2>3. o[1] \in F /\ all[1] = now.store[on][o[1]]
    BY <1>7, <1>9, <2>2
  <2> QED
    BY <1>4, <2>2, <2>3
<1> QED
  BY <1>2, <1>8, <1>11, <1>12, <1>13

\* A range is asked for by the indexes around it.
LEMMA RangeQuery ==
    ASSUME NEW q \in Questions, NEW query, query = FormQueryString(ToChangesetRangeUrlParams(q.range))
    PROVE  /\ "name" \notin DOMAIN query /\ "orderBy" \notin DOMAIN query /\ "top" \notin DOMAIN query
           /\ \A c \in Nat \ {0} :
                  /\ "afterIndex" \in DOMAIN query => c > query.afterIndex
                  /\ "lastIndex" \in DOMAIN query => c <= query.lastIndex
                  <=> c >= q.range.first /\ (q.range.end # <<>> => c <= q.range.end[1])
<1>1. q.range.first \in Nat /\ q.range.end \in Seq(Nat)
  BY QuestionsAssumption
<1>2. PICK params : params = ToChangesetRangeUrlParams(q.range)
  OBVIOUS
<1>3. /\ DOMAIN params = {"lastIndex", "afterIndex"} /\ params.lastIndex = q.range.end
      /\ params.afterIndex = IF q.range.first = 0 THEN <<0>> ELSE <<q.range.first - 1>>
  BY <1>2 DEF ToChangesetRangeUrlParams
<1>4. query = [key \in {key \in DOMAIN params : params[key] # <<>>} |-> params[key][1]]
  BY <1>2 DEF FormQueryString
<1>5. /\ "afterIndex" \in DOMAIN query
      /\ query.afterIndex = IF q.range.first = 0 THEN 0 ELSE q.range.first - 1
      /\ "lastIndex" \in DOMAIN query <=> q.range.end # <<>>
      /\ "lastIndex" \in DOMAIN query => query.lastIndex = q.range.end[1]
      /\ DOMAIN query \subseteq {"lastIndex", "afterIndex"}
  BY <1>3, <1>4
<1>6. q.range.end # <<>> => q.range.end[1] \in Nat
  BY <1>1
<1> QED
  BY <1>1, <1>5, <1>6

\* Which changesets are within a range.
LEMMA RangeIs ==
    ASSUME NEW now, Sound(now), NEW q \in Questions, NEW query,
           query = FormQueryString(ToChangesetRangeUrlParams(q.range))
    PROVE  LET S == Within(now, q.range)
           IN  /\ S \subseteq Ids /\ S \subseteq Nat /\ IsFiniteSet(S)
               /\ Filtered(now, "changeset", query) = S
               /\ Listing(now, "changeset", query) = InOrder(S, Less(S))
<1>1. "changeset" \in Types
  BY TypesAre DEF Listed
<1>2. PICK S : S = Within(now, q.range)
  OBVIOUS
<1>3. PICK store : store = now.store["changeset"]
  OBVIOUS
<1>4. /\ There(now, "changeset") \subseteq Ids /\ \A p \in DOMAIN store : store[p] = p /\ p \in There(now, "changeset")
      /\ \A c \in There(now, "changeset") : c \in DOMAIN store
  <2>1. There(now, "changeset") \subseteq Ids
    BY <1>1, Stored
  <2>2. \A p \in DOMAIN store : store[p] = p
    BY <1>3 DEF Sound
  <2>3. \A p \in DOMAIN store : store[p] \in There(now, "changeset")
    BY <1>1, <1>3, Stored
  <2>4. \A c \in There(now, "changeset") : \E p \in DOMAIN store : store[p] = c
    BY <1>1, <1>3, Stored
  <2> QED
    BY <2>1, <2>2, <2>3, <2>4
<1>5. Ids \subseteq Nat \ {0} /\ IsFiniteSet(Ids)
  BY QueriesAssumption, FS_Interval DEF Ids
<1>6. S \subseteq Ids /\ S \subseteq Nat /\ IsFiniteSet(S)
  <2>1. S \subseteq There(now, "changeset")
    BY <1>2 DEF Within
  <2> QED
    BY <1>4, <1>5, <2>1, FS_Subset
<1>7. PICK F : F = Filtered(now, "changeset", query)
  OBVIOUS
<1>8. F = S
  <2>1. /\ "name" \notin DOMAIN query
        /\ \A c \in Nat \ {0} :
               /\ "afterIndex" \in DOMAIN query => c > query.afterIndex
               /\ "lastIndex" \in DOMAIN query => c <= query.lastIndex
               <=> c >= q.range.first /\ (q.range.end # <<>> => c <= q.range.end[1])
    BY RangeQuery
  <2>2. F = {p \in DOMAIN store : /\ "afterIndex" \in DOMAIN query => p > query.afterIndex
                                  /\ "lastIndex" \in DOMAIN query => p <= query.lastIndex}
    BY <1>3, <1>4, <1>7, <2>1 DEF Filtered
  <2>3. S = {c \in There(now, "changeset") : c >= q.range.first /\ (q.range.end # <<>> => c <= q.range.end[1])}
    BY <1>2 DEF Within
  <2>4. \A p \in DOMAIN store : p \in Nat \ {0}
    BY <1>4, <1>5
  <2>5. \A p : p \in F <=> p \in S
    BY <1>4, <2>1, <2>2, <2>3, <2>4
  <2> QED
    BY <2>5
<1>9. PICK o : o = InOrder(S, Less(S))
  OBVIOUS
<1>10. o \in [1..Cardinality(S) -> S]
  <2>1. PICK before : before = Less(S)
    OBVIOUS
  <2>2. IsFiniteSet(S) /\ TotalOrder(S, before) /\ o = InOrder(S, before)
    BY <1>6, <1>9, <2>1, LessIsTotal
  <2> QED
    BY ONLY <2>2, InOrderLists
<1>11. Listing(now, "changeset", query) = [k \in DOMAIN o |-> store[o[k]]]
  <2>1. "orderBy" \notin DOMAIN query
    BY RangeQuery
  <2> QED
    BY <1>3, <1>7, <1>8, <1>9, <2>1 DEF Listing
<1>12. \A k \in DOMAIN o : store[o[k]] = o[k]
  <2>1. \A c \in S : c \in DOMAIN store
    BY <1>2, <1>4 DEF Within
  <2> QED
    BY <1>4, <1>10, <2>1
<1>13. Listing(now, "changeset", query) = o
  BY <1>10, <1>11, <1>12
<1> QED
  BY <1>2, <1>6, <1>7, <1>8, <1>9, <1>13

\* A range grows at its end.
LEMMA RangeGrows ==
    ASSUME NEW now, Sound(now), NEW after, Sound(after), Keeps(now, after), NEW q \in Questions, NEW query,
           query = FormQueryString(ToChangesetRangeUrlParams(q.range))
    PROVE  IsPrefix(Listing(now, "changeset", query), Listing(after, "changeset", query))
<1>1. PICK S : S = Within(now, q.range)
  OBVIOUS
<1>2. PICK T : T = Within(after, q.range)
  OBVIOUS
<1>3. /\ S \subseteq Nat /\ T \subseteq Nat /\ IsFiniteSet(T)
      /\ Listing(now, "changeset", query) = InOrder(S, Less(S))
      /\ Listing(after, "changeset", query) = InOrder(T, Less(T))
  BY <1>1, <1>2, RangeIs
<1>4. There(now, "changeset") \subseteq There(after, "changeset")
  BY DEF Keeps
<1>5. S \subseteq T
  BY <1>1, <1>2, <1>4 DEF Within
<1>6. ASSUME NEW s \in S, NEW t \in T \ S PROVE s < t
  <2>1. s \in There(now, "changeset") /\ t \in There(after, "changeset") \ There(now, "changeset")
    BY <1>1, <1>2, <1>6 DEF Within
  <2>2. PICK n : n = Len(now.store["changeset"])
    OBVIOUS
  <2>3. n \in Nat /\ DOMAIN now.store["changeset"] = 1..n
    BY <2>2, Stored, TypesAre DEF Listed
  <2>4. There(now, "changeset") = 1..n
    BY <2>3 DEF There, Sound
  <2>5. t \in Nat \ {0}
    <3>1. t \in Ids
      BY <2>1, Stored, TypesAre DEF Listed
    <3> QED
      BY <3>1, QueriesAssumption DEF Ids
  <2> QED
    BY <2>1, <2>3, <2>4, <2>5
<1>7. /\ IsFiniteSet(S) /\ Cardinality(S) <= Cardinality(T)
      /\ Cardinality(S) \in Nat /\ Cardinality(T) \in Nat
      /\ \A k \in 1..Cardinality(S) : InOrder(T, Less(T))[k] = InOrder(S, Less(S))[k]
  BY <1>3, <1>5, <1>6, LongerList
<1>8. PICK s : s = InOrder(S, Less(S))
  OBVIOUS
<1>9. PICK t : t = InOrder(T, Less(T))
  OBVIOUS
<1>10. s \in Seq(Nat) /\ Len(s) = Cardinality(S) /\ t \in Seq(Nat) /\ Len(t) = Cardinality(T)
  <2>1. ASSUME NEW U \in SUBSET Nat, IsFiniteSet(U)
        PROVE  InOrder(U, Less(U)) \in Seq(Nat) /\ Len(InOrder(U, Less(U))) = Cardinality(U)
    <3>1. PICK before : before = Less(U)
      OBVIOUS
    <3>2. PICK o : o = InOrder(U, before)
      OBVIOUS
    <3>3. IsFiniteSet(U) /\ TotalOrder(U, before)
      BY <2>1, <3>1, LessIsTotal
    <3>4. o \in [1..Cardinality(U) -> U] /\ Cardinality(U) \in Nat
      BY ONLY <3>2, <3>3, InOrderLists
    <3>5. o \in [1..Cardinality(U) -> Nat]
      BY <3>4
    <3>6. o \in Seq(Nat) /\ Len(o) = Cardinality(U)
      BY <3>4, <3>5, FunctionIsList
    <3> QED
      BY <3>1, <3>2, <3>6
  <2> QED
    BY <1>3, <1>7, <1>8, <1>9, <2>1
<1>11. Len(s) <= Len(t) /\ \A k \in 1..Len(s) : s[k] = t[k]
  BY <1>7, <1>8, <1>9, <1>10
<1>12. IsPrefix(s, t)
  BY <1>10, <1>11, PrefixIs
<1> QED
  BY <1>3, <1>8, <1>9, <1>12

\* The query for the latest.
LEMMA LatestQuery ==
    ASSUME NEW query, query = FormQueryString(ByChangesetIndex)
    PROVE  DOMAIN query = {"top", "orderBy"} /\ query.top = 1
<1>1. PICK params : params = ByChangesetIndex
  OBVIOUS
<1>2. DOMAIN params = {"top", "orderBy"} /\ params.top = <<1>> /\ params.orderBy = <<"desc">>
  BY <1>1 DEF ByChangesetIndex
<1>3. query = [key \in {key \in DOMAIN params : params[key] # <<>>} |-> params[key][1]]
  BY <1>1 DEF FormQueryString
<1>4. params.top # <<>> /\ params.orderBy # <<>>
  BY <1>2
<1> QED
  BY <1>2, <1>3, <1>4

\* What the latest changeset is, as its list begins.
LEMMA LatestAnswer ==
    ASSUME NEW now, Sound(now), NEW q \in Questions, q.ask = "latest", NEW all,
           all = Listing(now, "changeset", FormQueryString(ByChangesetIndex))
    PROVE  RightAnswer(now, q) = IF all = <<>> THEN <<0>> ELSE <<all[1]>>
<1>1. RightAnswer(now, q) = IF There(now, "changeset") = {} THEN <<0>> ELSE <<LatestOf(There(now, "changeset"))>>
  BY DEF RightAnswer
<1>2. /\ all = <<>> => There(now, "changeset") = {}
      /\ all # <<>> => /\ all[1] \in There(now, "changeset")
                       /\ \A n \in There(now, "changeset") : n <= all[1]
  <2>1. PICK query : query = FormQueryString(ByChangesetIndex)
    OBVIOUS
  <2>2. DOMAIN query = {"top", "orderBy"} /\ "changeset" \in Types
    BY <2>1, LatestQuery, TypesAre DEF Listed
  <2>3. \A n : Rank(now, "changeset", n) = n
    BY DEF Rank
  <2>4. /\ all = <<>> => There(now, "changeset") = {}
        /\ all # <<>> => /\ all[1] \in There(now, "changeset")
                         /\ \A n \in There(now, "changeset") : Rank(now, "changeset", n) <= Rank(now, "changeset", all[1])
    BY <2>1, <2>2, FirstIsLatest
  <2> QED
    BY <2>3, <2>4
<1>3. ASSUME all # <<>> PROVE LatestOf(There(now, "changeset")) = all[1]
  <2>1. PICK S : S = There(now, "changeset")
    OBVIOUS
  <2>2. PICK n : n = LatestOf(S)
    OBVIOUS
  <2>3. S # {} /\ all[1] \in S /\ \A d \in S : d <= all[1]
    BY <1>2, <1>3, <2>1
  <2>4. n \in S /\ \A d \in S : d <= n
    BY <2>1, <2>2, <2>3, LatestIs
  <2>5. n \in Int /\ all[1] \in Int
    <3>1. "changeset" \in Types
      BY TypesAre DEF Listed
    <3>2. S \subseteq 0..MaxId
      BY <2>1, <3>1, Stored
    <3>3. \A x \in S : x \in Int
      BY <3>2, QueriesAssumption
    <3> QED
      BY <2>3, <2>4, <3>3
  <2> QED
    BY <2>1, <2>2, <2>3, <2>4, <2>5
<1> QED
  BY <1>1, <1>2, <1>3

\* The changeset that a list of named versions gives.
ChangesetOf(now, all) == IF all = <<>> THEN <<>> ELSE <<now.madeOn[all[1]]>>

\* All right answers but one are reported as they are.
LEMMA ReportedAsItIs ==
    ASSUME NEW q, NEW right
    PROVE  q.ask \notin {"namedVersion", "latestNamedVersion"} \/ right # <<0>>
               => Reported(q, right) = right
BY DEF Reported

\* What the latest named version is made on, as its list begins.
LEMMA LatestVersionAnswer ==
    ASSUME NEW now, Sound(now), NEW q \in Questions, q.ask = "latestNamedVersion", NEW all,
           all = Listing(now, "namedVersion", FormQueryString(ByChangesetIndex))
    PROVE  RightAnswer(now, q) = ChangesetOf(now, all)
<1>1. PICK V : V = There(now, "namedVersion")
  OBVIOUS
<1>2. PICK Best : Best = {v \in V : \A w \in V : now.madeOn[w] <= now.madeOn[v]}
  OBVIOUS
<1>3. PICK v : v = CHOOSE u \in V : \A w \in V : now.madeOn[w] <= now.madeOn[u]
  OBVIOUS
<1>4. RightAnswer(now, q) = IF V = {} THEN <<>> ELSE <<now.madeOn[v]>>
  BY <1>1, <1>3 DEF RightAnswer
<1>5. /\ all = <<>> => V = {}
      /\ all # <<>> => all[1] \in V /\ \A w \in V : now.madeOn[w] <= now.madeOn[all[1]]
  <2>1. PICK query : query = FormQueryString(ByChangesetIndex)
    OBVIOUS
  <2>2. DOMAIN query = {"top", "orderBy"} /\ "namedVersion" \in Types
    BY <2>1, LatestQuery, TypesAre DEF Listed
  <2>3. \A n : Rank(now, "namedVersion", n) = now.madeOn[n]
    BY DEF Rank
  <2>4. /\ all = <<>> => There(now, "namedVersion") = {}
        /\ all # <<>> => /\ all[1] \in There(now, "namedVersion")
                         /\ \A n \in There(now, "namedVersion") :
                                Rank(now, "namedVersion", n) <= Rank(now, "namedVersion", all[1])
    BY <2>1, <2>2, FirstIsLatest
  <2> QED
    BY <1>1, <2>3, <2>4
<1>6. ASSUME all # <<>> PROVE V # {} /\ now.madeOn[v] = now.madeOn[all[1]]
  <2>1. all[1] \in V /\ \A w \in V : now.madeOn[w] <= now.madeOn[all[1]]
    BY <1>5, <1>6
  <2>2. v \in V /\ \A w \in V : now.madeOn[w] <= now.madeOn[v]
    BY <1>3, <2>1
  <2>3. now.madeOn[v] \in Int /\ now.madeOn[all[1]] \in Int
    BY <1>1, <2>1, <2>2, VersionsAre
  <2> QED
    BY <2>1, <2>2, <2>3
<1> QED
  BY <1>4, <1>5, <1>6 DEF ChangesetOf

\* The query for a name.
LEMMA NameQuery ==
    ASSUME NEW name, Len(name) = 1, name \in Seq(STRING), NEW query, query = FormQueryString([name |-> name])
    PROVE  DOMAIN query = {"name"} /\ <<query.name>> = name
<1>1. PICK params : params = [name |-> name]
  OBVIOUS
<1>2. DOMAIN params = {"name"} /\ params.name = name
  BY <1>1
<1>3. query = [key \in {key \in DOMAIN params : params[key] # <<>>} |-> params[key][1]]
  BY <1>1 DEF FormQueryString
<1>4. name # <<>> /\ <<name[1]>> = name
  OBVIOUS
<1> QED
  BY <1>2, <1>3, <1>4

\* The one with a name, as the list of it begins.
LEMMA NamedAnswer ==
    ASSUME NEW now, Sound(now), NEW q \in Questions, Len(q.name) = 1,
           NEW on \in {"iModel", "namedVersion"}, q.ask = on, NEW all,
           all = Listing(now, on, FormQueryString([name |-> q.name]))
    PROVE  /\ RightAnswer(now, q) = IF on = "iModel" THEN IF all = <<>> THEN <<>> ELSE <<all[1]>>
                                    ELSE ChangesetOf(now, all)
           /\ Len(all) <= 1
<1>1. PICK query : query = FormQueryString([name |-> q.name])
  OBVIOUS
<1>2. q.name \in Seq(STRING)
  BY QuestionsAssumption, QueriesAssumption
<1>3. DOMAIN query = {"name"} /\ <<query.name>> = q.name
  BY <1>1, <1>2, NameQuery
<1>4. PICK name : name = q.name
  OBVIOUS
<1>5. /\ all \in Seq(There(now, on)) /\ Len(all) <= 1
      /\ all = <<>> => \A n \in There(now, on) : now.names[on][n] # name
      /\ all # <<>> => all[1] \in There(now, on) /\ now.names[on][all[1]] = name
  BY <1>1, <1>3, <1>4, NamedList
<1>6. \A m, n \in There(now, on) : now.names[on][m] = now.names[on][n] => m = n
  BY DEF Sound
<1>7. CASE on = "iModel"
  BY <1>4, <1>5, <1>6, <1>7 DEF RightAnswer
<1>8. CASE on = "namedVersion"
  BY <1>4, <1>5, <1>6, <1>8 DEF RightAnswer, ChangesetOf
<1> QED
  BY <1>5, <1>7, <1>8

-------------------------------------------------------------------------------
(* Questions to the adapters.                                              *)

\* The list that a question reads.
QueryOf(q) ==
    FormQueryString(IF q.ask \in {"latest", "latestNamedVersion"} THEN ByChangesetIndex
                    ELSE IF q.ask = "range" THEN ToChangesetRangeUrlParams(q.range)
                    ELSE [name |-> q.name])

OnOf(q) == IF q.ask \in {"namedVersion", "latestNamedVersion"} THEN "namedVersion"
           ELSE IF q.ask = "iModel" THEN "iModel" ELSE "changeset"

WantOf(q) == IF q.ask \in {"latest", "latestNamedVersion"} THEN 1 ELSE 0

\* Pages of a range have been read, or nothing has.
ReadsList(q) ==
    /\ request.query = QueryOf(q) /\ request.operation.on = OnOf(q) /\ call.want = WantOf(q)
    /\ call.got = iterator.fetched /\ (q.ask # "range" => call.got = <<>>)
    /\ q.ask = "range" => IsPrefix(call.got, Listing(content, "changeset", request.query))

\* The request is for the changeset in question, or that of a named version as the list
\* of it was.
GetsChangeset(q) ==
    /\ request.url.under = "changeset"
    /\ \/ /\ q.ask = "changeset" /\ request.url.part.number = q.changeset.number
          /\ q.changeset.number = 0 => request.url.part.form = "index"
       \/ /\ q.ask = "namedVersion" /\ request.url.part.number \in There(content, "changeset")
          /\ <<request.url.part.number>> \in history.right

QuestionInv ==
    step # "idle" /\ call.what = "question" /\ Len(call.wanted.name) = 1 =>
        /\ RightAnswer(content, call.wanted) \in history.right
        /\ request.operation \in ListOperations => ReadsList(call.wanted)
        /\ request.operation \notin ListOperations => GetsChangeset(call.wanted)

\* A list that has been read as far as it needs to be gives the answer.
LEMMA ListAnswers ==
    ASSUME Sound(content), NEW q \in Questions, Len(q.name) = 1, q.ask \in ListAsks,
           NEW all, all = Listing(content, OnOf(q), QueryOf(q)),
           NEW a \in AnyCall, a.wanted = q,
           IF q.ask \in {"latest", "latestNamedVersion"} /\ all # <<>> THEN a.got = <<all[1]>> ELSE a.got = all
    PROVE  /\ AnswerFromList(a) = Reported(q, RightAnswer(content, q))
           /\ q.ask = "namedVersion" => NamedChangeset(a) = Reported(q, RightAnswer(content, q))
<1>1. NamedChangeset(a) = IF a.got = <<>> \/ content.madeOn[a.got[1]] = 0 THEN <<>> ELSE <<content.madeOn[a.got[1]]>>
  BY DEF NamedChangeset
<1>2. all # <<>> /\ a.got = <<all[1]>> => a.got # <<>> /\ a.got[1] = all[1]
  OBVIOUS
<1>3. ASSUME q.ask \in {"namedVersion", "latestNamedVersion"}
      PROVE  NamedChangeset(a) = Reported(q, ChangesetOf(content, all))
  <2>1. CASE all = <<>>
    BY <1>1, <2>1 DEF ChangesetOf, Reported
  <2>2. CASE all # <<>>
    <3>1. PICK n : n = content.madeOn[all[1]]
      OBVIOUS
    <3>2. NamedChangeset(a) = IF n = 0 THEN <<>> ELSE <<n>>
      BY <1>1, <1>2, <2>2, <3>1
    <3>3. ChangesetOf(content, all) = <<n>>
      BY <2>2, <3>1 DEF ChangesetOf
    <3>4. <<n>> = <<0>> <=> n = 0
      OBVIOUS
    <3> QED
      BY <1>3, <3>2, <3>3, <3>4 DEF Reported
  <2> QED
    BY <2>1, <2>2
<1>4. CASE q.ask = "latest"
  <2>1. all = Listing(content, "changeset", FormQueryString(ByChangesetIndex))
    BY <1>4 DEF OnOf, QueryOf
  <2>2. RightAnswer(content, q) = IF all = <<>> THEN <<0>> ELSE <<all[1]>>
    BY <1>4, <2>1, LatestAnswer
  <2>3. AnswerFromList(a) = IF a.got = <<>> THEN <<0>> ELSE <<a.got[1]>>
    BY <1>4 DEF AnswerFromList
  <2> QED
    BY <1>2, <1>4, <2>2, <2>3, ReportedAsItIs
<1>5. CASE q.ask = "latestNamedVersion"
  <2>1. all = Listing(content, "namedVersion", FormQueryString(ByChangesetIndex))
    BY <1>5 DEF OnOf, QueryOf
  <2>2. RightAnswer(content, q) = ChangesetOf(content, all)
    BY <1>5, <2>1, LatestVersionAnswer
  <2> QED
    BY <1>3, <1>5, <2>2 DEF AnswerFromList
<1>6. CASE q.ask = "namedVersion"
  <2>1. all = Listing(content, "namedVersion", FormQueryString([name |-> q.name]))
    BY <1>6 DEF OnOf, QueryOf
  <2>2. RightAnswer(content, q) = ChangesetOf(content, all)
    BY <1>6, <2>1, NamedAnswer
  <2> QED
    BY <1>3, <1>6, <2>2 DEF AnswerFromList
<1>7. CASE q.ask = "iModel"
  <2>1. all = Listing(content, "iModel", FormQueryString([name |-> q.name]))
    BY <1>7 DEF OnOf, QueryOf
  <2>2. RightAnswer(content, q) = IF all = <<>> THEN <<>> ELSE <<all[1]>>
    BY <1>7, <2>1, NamedAnswer
  <2>3. AnswerFromList(a) = IF a.got = <<>> THEN <<>> ELSE <<a.got[1]>>
    BY <1>7 DEF AnswerFromList
  <2> QED
    BY <1>7, <2>2, <2>3, ReportedAsItIs
<1>8. CASE q.ask = "range"
  <2>1. all = Listing(content, "changeset", FormQueryString(ToChangesetRangeUrlParams(q.range)))
    BY <1>8 DEF OnOf, QueryOf
  <2>2. PICK S : S = Within(content, q.range)
    OBVIOUS
  <2>3. all = InOrder(S, Less(S))
    BY <2>1, <2>2, RangeIs
  <2>4. RightAnswer(content, q) = InOrder(S, Less(S))
    BY <1>8, <2>2 DEF RightAnswer, Within
  <2> QED
    BY <1>8, <2>3, <2>4, ReportedAsItIs DEF AnswerFromList
<1> QED
  BY <1>4, <1>5, <1>6, <1>7, <1>8 DEF ListAsks

\* A name is on one page.
LEMMA NameOnOnePage ==
    ASSUME NEW now, Sound(now), NEW q \in Questions, Len(q.name) = 1, q.ask \in {"iModel", "namedVersion"},
           NEW page, page = PageOf(now, OnOf(q), QueryOf(q), 0)
    PROVE  page.next = {}
<1>1. PICK on : on = q.ask
  OBVIOUS
<1>2. PICK query : query = FormQueryString([name |-> q.name])
  OBVIOUS
<1>3. page = PageOf(now, on, query, 0) /\ on \in {"iModel", "namedVersion"}
  BY <1>1, <1>2 DEF OnOf, QueryOf
<1>4. PICK all : all = Listing(now, on, query)
  OBVIOUS
<1>5. Len(all) <= 1
  BY <1>1, <1>2, <1>3, <1>4, NamedAnswer
<1>6. DOMAIN query = {"name"}
  <2>1. q.name \in Seq(STRING)
    BY QuestionsAssumption, QueriesAssumption
  <2> QED
    BY <1>2, <2>1, NameQuery
<1>7. Len(all) \in Nat
  <2>1. on \in Types
    BY <1>3, TypesAre DEF Listed
  <2>2. all \in Seq(There(now, on))
    BY <1>4, <2>1, ListingOf
  <2> QED
    BY <2>2
<1>8. PICK end : end = 0 + (IF "top" \in DOMAIN query THEN query.top ELSE PageSize)
  OBVIOUS
<1>9. "top" \notin DOMAIN query
  BY <1>6
<1>10. ~(end < Len(all))
  BY <1>5, <1>7, <1>8, <1>9, QueriesAssumption
<1>11. page = [entities |-> SubSeq(all, 0 + 1, Len(all)), next |-> {}]
  BY <1>3, <1>4, <1>8, <1>10 DEF PageOf
<1> QED
  BY <1>11

\* for await goes on with a question that reads a list, or answers it: what it has taken is
\* how the list begins, all of it at the end.
LEMMA PageAnswersQuestion ==
    ASSUME QueriesInv, QuestionInv, PageAnswered, call.what = "question", Len(call.wanted.name) = 1
    PROVE  QuestionInv' /\ ResolvedWithinCall'
<1>1. step = "sent" /\ request.operation.verb = "list" /\ UNCHANGED <<content, history>> /\ Sound(content)
  BY DEF PageAnswered, service, QueriesInv, ServiceOK
<1>2. PICK page : page = PageOf(content, request.operation.on, request.query, request.skip)
  OBVIOUS
<1>3. PICK it : it = [iterator EXCEPT !.next = page.next, !.fetched = iterator.fetched \o page.entities]
  OBVIOUS
<1>4. /\ Awaiting /\ request.operation \in ListOperations /\ iterator \in AnyIterator /\ call \in AnyCall
      /\ page.entities \in Seq(Ids) /\ page.next \subseteq Nat
      /\ iterator.fetched \o page.entities \in Seq(Ids)
  BY <1>1, <1>2, PageThatComes
<1>5. PICK q : q = call.wanted
  OBVIOUS
<1>6. /\ q \in Questions /\ q.ask \in ListAsks /\ Len(q.name) = 1
      /\ request.skip = Len(iterator.fetched) /\ iterator.fetched \in Seq(Ids)
      /\ call.want # 0 => Len(call.got) < call.want
  BY <1>4, <1>5 DEF Awaiting, AnyIterator
<1>7. RightAnswer(content, q) \in history.right /\ ReadsList(q)
  BY <1>1, <1>4, <1>5, <1>6 DEF QuestionInv
<1>8. PICK all : all = Listing(content, OnOf(q), QueryOf(q))
  OBVIOUS
<1>9. PICK it2 : it2 = [it EXCEPT !.buffer = page.entities]
  OBVIOUS
<1>10. /\ it2 \in AnyIterator /\ it2.buffer = page.entities /\ it2.next = page.next
       /\ it2.fetched = iterator.fetched \o page.entities
  <2>1. it \in AnyIterator /\ it.next = page.next /\ it.fetched = iterator.fetched \o page.entities
    BY <1>3, <1>4 DEF AnyIterator
  <2> QED
    BY <1>4, <1>9, <2>1 DEF AnyIterator
<1>11. ForAwait(call, it2)
  BY <1>2, <1>3, <1>9 DEF PageAnswered, ContinueAt
<1>a. PICK n \in 0..Len(it2.buffer), after \in AnyCall, left \in AnyIterator :
               /\ after = [call EXCEPT !.got = call.got \o SubSeq(it2.buffer, 1, n)]
               /\ left = [it2 EXCEPT !.buffer = SubSeq(it2.buffer, n + 1, Len(it2.buffer))]
               /\ after.got = call.got \o SubSeq(it2.buffer, 1, n)
               /\ left.buffer = SubSeq(it2.buffer, n + 1, Len(it2.buffer))
               /\ Len(after.got) = Len(call.got) + n
               /\ call.want # 0 => Len(after.got) <= call.want
               /\ AsksOn(call, it2, after, left) \/ HasRead(call, it2, after, left)
  <2>1. call \in AnyCall /\ it2 \in AnyIterator /\ (call.want # 0 => Len(call.got) < call.want) /\ ForAwait(call, it2)
    BY <1>4, <1>6, <1>10, <1>11
  <2> QED
    BY ONLY <2>1, ForAwaitStep
<1>12. /\ n \in 0..Len(page.entities)
       /\ after = [call EXCEPT !.got = call.got \o SubSeq(page.entities, 1, n)]
       /\ left = [it2 EXCEPT !.buffer = SubSeq(page.entities, n + 1, Len(page.entities))]
       /\ after.got = call.got \o SubSeq(page.entities, 1, n)
       /\ left.buffer = SubSeq(page.entities, n + 1, Len(page.entities))
       /\ Len(after.got) = Len(call.got) + n
       /\ call.want # 0 => Len(after.got) <= call.want
       /\ AsksOn(call, it2, after, left) \/ HasRead(call, it2, after, left)
  BY <1>10, <1>a
<1>b. Len(page.entities) \in Nat /\ n \in Nat /\ n <= Len(page.entities)
  <2>1. PICK s, k : s = page.entities /\ k = Len(s)
    OBVIOUS
  <2>2. s \in Seq(Ids)
    BY <1>4, <2>1
  <2>3. k \in Nat
    BY <2>1, <2>2
  <2>4. n \in 0..k
    BY <1>12, <2>1
  <2>5. n \in Nat /\ n <= k
    BY <2>3, <2>4
  <2> QED
    BY <2>1, <2>3, <2>5
<1>13. after.what = "question" /\ after.wanted = q /\ after.want = WantOf(q) /\ after.want = call.want
       /\ left.fetched = iterator.fetched \o page.entities
       /\ after.got \in Seq(Ids)
  BY <1>4, <1>5, <1>7, <1>10, <1>12 DEF ReadsList, AnyCall, AnyIterator
<1>14. PICK fetched : fetched = iterator.fetched
  OBVIOUS
<1>15. /\ fetched \in Seq(Ids) /\ call.got = fetched /\ (q.ask # "range" => fetched = <<>>)
       /\ request.skip = Len(fetched)
       /\ request.operation.on = OnOf(q) /\ request.query = QueryOf(q)
  BY <1>6, <1>7, <1>14 DEF ReadsList
<1>16. /\ all \in Seq(Ids)
       /\ page.next = {} => Len(fetched) + Len(page.entities) >= Len(all)
       /\ Len(fetched) <= Len(all) => Len(fetched) + Len(page.entities) <= Len(all)
       /\ \A i \in 1..Len(page.entities) : page.entities[i] = all[Len(fetched) + i]
  <2>1. PICK on, query, skip : on = OnOf(q) /\ query = QueryOf(q) /\ skip = Len(fetched)
    OBVIOUS
  <2>2. on \in Listed /\ query \in AnyQuery /\ skip \in Nat
    BY <1>4, <1>15, <2>1, ListedOperations DEF QueriesInv, CallsOK, AnyRequest
  <2>3. all = Listing(content, on, query) /\ page = PageOf(content, on, query, skip)
    BY <1>2, <1>8, <1>15, <2>1
  <2>4. /\ all \in Seq(Ids)
        /\ page.next = {} => skip + Len(page.entities) >= Len(all)
        /\ skip <= Len(all) => skip + Len(page.entities) <= Len(all)
        /\ \A i \in 1..Len(page.entities) : page.entities[i] = all[skip + i]
    BY <1>1, <2>2, <2>3, PageIs
  <2> QED
    BY <2>1, <2>4
<1>17. IsPrefix(fetched, all) /\ Len(fetched) <= Len(all)
  <2>1. IsPrefix(fetched, all)
    <3>1. CASE q.ask = "range"
      <4>1. all = Listing(content, "changeset", request.query)
        BY <1>8, <1>15, <3>1 DEF OnOf
      <4> QED
        BY <1>7, <1>15, <3>1, <4>1 DEF ReadsList
    <3>2. CASE q.ask # "range"
      BY <1>15, <1>16, <3>2, NothingIsPrefix
    <3> QED
      BY <3>1, <3>2
  <2> QED
    BY <1>15, <1>16, <2>1, PrefixIs
<1>18. PICK got : got = after.got
  OBVIOUS
<1>19. /\ got \in Seq(Ids) /\ IsPrefix(got, all) /\ Len(got) = Len(fetched) + n
       /\ Len(got) <= Len(all) /\ Len(fetched) \in Nat /\ Len(all) \in Nat
  <2>1. PICK more : more = SubSeq(page.entities, 1, n)
    OBVIOUS
  <2>2. more \in Seq(Ids) /\ Len(more) = n /\ \A i \in 1..n : more[i] = page.entities[i]
    <3>1. PICK s : s = page.entities
      OBVIOUS
    <3>2. s \in Seq(Ids) /\ n \in 0..Len(s) /\ more = SubSeq(s, 1, n)
      BY <1>4, <1>12, <2>1, <3>1
    <3>3. more \in Seq(Ids) /\ Len(more) = n /\ \A i \in 1..n : more[i] = s[i]
      BY ONLY <3>2, Split
    <3> QED
      BY <3>1, <3>3
  <2>a. Len(fetched) \in Nat
    BY <1>15
  <2>3. Len(all) \in Nat
    BY <1>16
  <2>4. Len(fetched) + Len(more) <= Len(all) /\ \A i \in 1..Len(more) : more[i] = all[Len(fetched) + i]
    <3>1. n <= Len(page.entities) /\ n \in Nat /\ Len(page.entities) \in Nat
      BY <1>b
    <3>2. \A i \in 1..n : i \in 1..Len(page.entities)
      BY <3>1
    <3>3. \A i \in 1..n : page.entities[i] = all[Len(fetched) + i]
      BY <1>16, <3>2
    <3>4. Len(fetched) + Len(page.entities) <= Len(all)
      BY <1>16, <1>17
    <3>5. Len(fetched) + n <= Len(all)
      BY <2>a, <2>3, <3>1, <3>4
    <3> QED
      BY <2>2, <3>3, <3>5
  <2>5. IsPrefix(fetched \o more, all) /\ Len(fetched \o more) = Len(fetched) + Len(more)
    BY <1>15, <1>16, <1>17, <2>2, <2>4, PageGoesOn
  <2>6. got = fetched \o more
    BY <1>12, <1>15, <1>18, <2>1
  <2> QED
    BY <1>13, <1>18, <2>2, <2>a, <2>3, <2>4, <2>5, <2>6
<1>20. left.buffer = <<>> => n = Len(page.entities) /\ got = iterator.fetched \o page.entities
  <2>1. SUFFICES ASSUME left.buffer = <<>>
                 PROVE  n = Len(page.entities) /\ got = iterator.fetched \o page.entities
    OBVIOUS
  <2>2. Len(SubSeq(page.entities, n + 1, Len(page.entities))) = Len(page.entities) - n
    <3>1. PICK s : s = page.entities
      OBVIOUS
    <3>2. s \in Seq(Ids) /\ n \in 0..Len(s)
      BY <1>4, <1>12, <3>1
    <3>3. Len(SubSeq(s, n + 1, Len(s))) = Len(s) - n
      BY ONLY <3>2, Split
    <3> QED
      BY <3>1, <3>3
  <2>3. Len(page.entities) - n = 0 /\ Len(page.entities) \in Nat
    <3>1. Len(left.buffer) = 0
      BY <2>1
    <3> QED
      BY <1>b, <1>12, <2>2, <3>1
  <2>4. n = Len(page.entities)
    BY <1>b, <2>3
  <2>5. SubSeq(page.entities, 1, n) = page.entities
    BY <1>4, <2>4
  <2> QED
    BY <1>12, <1>14, <1>15, <1>18, <2>4, <2>5
<1>21. CASE AsksOn(call, it2, after, left)
  <2>1. /\ step' = "authorizing" /\ ~Enough(after) /\ left.buffer = <<>> /\ page.next # {}
        /\ \E skip \in it2.next : AskForPage(it2, skip)
        /\ iterator' = left /\ call' = after /\ outcome' = NoOutcome
    BY <1>10, <1>21 DEF AsksOn
  <2>2. request'.query = request.query /\ request'.operation = request.operation
    <3>1. it2.operation = iterator.operation /\ it2.query = iterator.query
      BY <1>3, <1>4, <1>9 DEF AnyIterator
    <3>2. request'.operation = it2.operation /\ request'.query = it2.query
      BY <2>1 DEF AskForPage, Ask, QueriesInv, CallsOK, AnyRequest
    <3> QED
      BY <1>4, <3>1, <3>2 DEF Awaiting
  <2>3. after.got = left.fetched
    BY <1>13, <1>18, <1>20, <2>1
  <2>4. q.ask # "range" => after.got = <<>>
    <3>1. ASSUME q.ask \in {"latest", "latestNamedVersion"} PROVE after.got = <<>>
      <4>1. after.want = 1 /\ Len(after.got) # 1 /\ Len(after.got) <= 1
        BY <1>12, <1>13, <2>1, <3>1 DEF WantOf, Enough
      <4>2. Len(got) = 0
        <5>1. PICK k : k = Len(got)
          OBVIOUS
        <5>2. k \in Nat
          BY <1>19, <5>1
        <5>3. k # 1 /\ k <= 1
          BY <1>18, <4>1, <5>1
        <5> QED
          BY <5>1, <5>2, <5>3
      <4> QED
        BY <1>13, <1>18, <4>2
    <3>2. ASSUME q.ask \in {"namedVersion", "iModel"} PROVE FALSE
      <4>1. Len(fetched) = 0
        BY <1>15, <3>2
      <4>2. page = PageOf(content, OnOf(q), QueryOf(q), 0)
        BY <1>2, <1>15, <4>1
      <4> QED
        BY <1>1, <1>6, <2>1, <3>2, <4>2, NameOnOnePage
    <3> QED
      BY <1>6, <3>1, <3>2 DEF ListAsks
  <2>5. q.ask = "range" => IsPrefix(after.got, Listing(content', "changeset", request'.query))
    BY <1>1, <1>8, <1>15, <1>18, <1>19, <2>2 DEF OnOf
  <2>6. ReadsList(q)'
    BY <1>13, <1>15, <2>1, <2>2, <2>3, <2>4, <2>5 DEF ReadsList
  <2>7. QuestionInv'
    BY <1>1, <1>4, <1>7, <1>13, <2>1, <2>2, <2>6 DEF QuestionInv
  <2> QED
    BY <2>1, <2>7 DEF ResolvedWithinCall, NoOutcome
<1>22. CASE HasRead(call, it2, after, left)
  <2>1. (Enough(after) \/ (page.next = {} /\ left.buffer = <<>>)) /\ ListRead(after, left)
    BY <1>10, <1>22 DEF HasRead
  <2>2. page.next = {} /\ left.buffer = <<>> => got = all
    <3>1. SUFFICES ASSUME page.next = {}, left.buffer = <<>> PROVE got = all
      OBVIOUS
    <3>2. Len(got) >= Len(all)
      BY <1>16, <1>19, <1>20, <3>1
    <3> QED
      BY <1>16, <1>19, <3>2, WholePrefix
  <2>3. IF q.ask \in {"latest", "latestNamedVersion"} /\ all # <<>> THEN got = <<all[1]>> ELSE got = all
    <3>1. CASE q.ask \notin {"latest", "latestNamedVersion"}
      BY <1>13, <2>1, <2>2, <3>1 DEF WantOf, Enough
    <3>2. CASE q.ask \in {"latest", "latestNamedVersion"}
      <4>1. Len(got) <= 1
        BY <1>12, <1>13, <1>18, <3>2 DEF WantOf
      <4>2. Len(got) = 1 \/ got = all
        BY <1>13, <1>18, <2>1, <2>2, <3>2 DEF WantOf, Enough
      <4>3. Len(got) = 1 => got = <<all[1]>> /\ all # <<>>
        <5>1. \A i \in 1..Len(got) : got[i] = all[i]
          BY <1>16, <1>19, PrefixIs
        <5>2. SUFFICES ASSUME Len(got) = 1 PROVE got = <<all[1]>> /\ all # <<>>
          OBVIOUS
        <5>3. got[1] = all[1] /\ Len(all) >= 1
          <6>1. 1 \in 1..Len(got)
            BY <5>2
          <6>2. got[1] = all[1]
            BY <5>1, <6>1
          <6>3. Len(all) >= 1
            BY <1>19, <5>2
          <6> QED
            BY <6>2, <6>3
        <5>4. got = <<got[1]>>
          <6>1. PICK one : one = <<got[1]>>
            OBVIOUS
          <6>2. one \in Seq(Ids) /\ Len(one) = 1 /\ one[1] = got[1]
            BY <1>19, <5>2, <6>1
          <6>3. \A i \in 1..1 : one[i] = got[i]
            BY <6>2
          <6>4. one = got
            BY <1>19, <5>2, <6>2, <6>3, SeqEqual
          <6> QED
            BY <6>1, <6>4
        <5> QED
          BY <1>16, <5>3, <5>4
      <4>4. got = all /\ Len(got) # 1 => all = <<>>
        BY <1>19, <4>1
      <4> QED
        BY <3>2, <4>2, <4>3, <4>4
    <3> QED
      BY <3>1, <3>2
  <2>4. /\ AnswerFromList(after) = Reported(q, RightAnswer(content, q))
        /\ q.ask = "namedVersion" => NamedChangeset(after) = Reported(q, RightAnswer(content, q))
    BY <1>1, <1>6, <1>8, <1>13, <1>18, <2>3, ListAnswers
  <2>5. CASE /\ NeedsChangeset(after)
             /\ call' = [after EXCEPT !.got = NamedChangeset(after)]
             /\ Ask(ChangesetGetSingle, EntityUrl("changeset", Part(NamedChangeset(after)[1])), <<>>, 0)
             /\ outcome' = NoOutcome
    <3>1. q.ask = "namedVersion" /\ NamedChangeset(after) # <<>>
      BY <1>13, <2>5 DEF NeedsChangeset
    <3>2. call'.wanted = q /\ step' = "authorizing"
      BY <1>13, <2>5 DEF Ask, AnyCall
    <3>3. /\ request'.operation = ChangesetGetSingle
          /\ request'.url = [under |-> "changeset", part |-> [form |-> "id", number |-> NamedChangeset(after)[1]]]
      BY <2>5 DEF Ask, EntityUrl, Part, QueriesInv, CallsOK, AnyRequest
    <3>4. ChangesetGetSingle \notin ListOperations
      <4>1. ChangesetGetSingle \in GetOperations
        BY DEF GetOperations
      <4> QED
        BY <4>1, Verbs DEF Operations
    <3>5. NamedChangeset(after) = <<NamedChangeset(after)[1]>>
      BY <3>1 DEF NamedChangeset
    <3>6. NamedChangeset(after)[1] \in There(content, "changeset")
      <4>1. after.got # <<>> /\ NamedChangeset(after)[1] = content.madeOn[after.got[1]]
            /\ content.madeOn[after.got[1]] # 0
        BY <3>1 DEF NamedChangeset
      <4>2. got = all /\ all = Listing(content, "namedVersion", FormQueryString([name |-> q.name]))
        BY <1>8, <2>3, <3>1 DEF OnOf, QueryOf
      <4>3. all \in Seq(There(content, "namedVersion"))
        BY <1>1, <4>2, ListingOf, TypesAre DEF Listed
      <4>4. after.got[1] \in There(content, "namedVersion")
        BY <1>18, <4>1, <4>2, <4>3
      <4> QED
        BY <1>1, <4>1, <4>4 DEF Sound
    <3>7. <<NamedChangeset(after)[1]>> \in history.right
      <4>1. NamedChangeset(after) = RightAnswer(content, q)
        BY <2>4, <3>1 DEF Reported
      <4> QED
        BY <1>7, <3>5, <4>1
    <3>8. GetsChangeset(q)'
      BY <1>1, <3>1, <3>3, <3>6, <3>7 DEF GetsChangeset
    <3>9. QuestionInv'
      BY <1>1, <1>7, <3>2, <3>3, <3>4, <3>8 DEF QuestionInv
    <3> QED
      BY <2>5, <3>9 DEF ResolvedWithinCall, NoOutcome
  <2>6. CASE Return(after, "returned", IF Asked(after) THEN AnswerFromList(after) ELSE after.got)
    <3>1. /\ step' = "idle" /\ outcome'.came = "returned" /\ outcome'.wanted = q
          /\ outcome'.got = Reported(q, RightAnswer(content, q))
      BY <1>13, <2>4, <2>6 DEF Return, Asked
    <3> QED
      BY <1>1, <1>7, <3>1 DEF QuestionInv, ResolvedWithinCall
  <2> QED
    BY <2>1, <2>5, <2>6 DEF ListRead
<1> QED
  BY <1>12, <1>21, <1>22

\* A list of changesets is one of numbers.
LEMMA ChangesetsListed ==
    ASSUME NEW now, Sound(now), NEW query PROVE Listing(now, "changeset", query) \in Seq(Ids)
<1>1. "changeset" \in Types
  BY TypesAre DEF Listed
<1>2. PICK all : all = Listing(now, "changeset", query)
  OBVIOUS
<1>3. PICK T : T = There(now, "changeset")
  OBVIOUS
<1>4. all \in Seq(T)
  BY <1>1, <1>2, <1>3, ListingOf
<1>5. T \subseteq Ids
  BY <1>1, <1>3, Stored
<1> QED
  BY <1>2, <1>4, <1>5, SeqMonotonic

\* A question that reads a list begins with nothing of it.
LEMMA ListIsAsked ==
    ASSUME QueriesInv, NEW q \in Questions, NEW operation \in ListOperations, operation.on = OnOf(q),
           NEW params, FormQueryString(params) = QueryOf(q), NEW want, want = WantOf(q),
           AskList(q, operation, params, want)
    PROVE  QuestionInv' /\ ResolvedWithinCall'
<1>1. PICK caller : /\ Question(q)
                    /\ call' = NewCall("question", want, q, caller)
                    /\ iterator' = NewIterator(operation, params, caller)
                    /\ Ask(operation, ListUrl(operation.on), FormQueryString(params), 0)
                    /\ outcome' = NoOutcome
  BY DEF AskList
<1>2. Sound(content) /\ content' = content /\ RightAnswer(content, q) \in history'.right
  BY <1>1 DEF Question, Begin, service, QueriesInv, ServiceOK
<1>3. call'.wanted = q /\ call'.want = want /\ call'.got = <<>>
  BY <1>1 DEF NewCall
<1>4. request'.operation = operation /\ request'.query = QueryOf(q)
  BY <1>1 DEF Ask, QueriesInv, CallsOK, AnyRequest
<1>5. iterator'.fetched = <<>>
  BY <1>1 DEF NewIterator
<1>6. IsPrefix(<<>>, Listing(content, "changeset", QueryOf(q)))
  BY <1>2, ChangesetsListed, NothingIsPrefix
<1>7. ReadsList(q)'
  BY <1>2, <1>3, <1>4, <1>5, <1>6 DEF ReadsList
<1>8. QuestionInv'
  BY <1>2, <1>3, <1>4, <1>7 DEF QuestionInv
<1> QED
  BY <1>1, <1>8 DEF ResolvedWithinCall, NoOutcome

\* A question for a changeset asks for that one.
LEMMA ChangesetIsAsked ==
    ASSUME QueriesInv, NEW q \in Questions, q.ask = "changeset",
           NEW params, ChangesetPart(params).number = q.changeset.number,
           q.changeset.number = 0 => ChangesetPart(params).form = "index",
           AskChangeset(q, params)
    PROVE  QuestionInv' /\ ResolvedWithinCall'
<1>1. PICK caller : /\ Question(q)
                    /\ call' = NewCall("question", 0, q, caller)
                    /\ Ask(ChangesetGetSingle, EntityUrl("changeset", ChangesetPart(params)), <<>>, 0)
                    /\ outcome' = NoOutcome
  BY DEF AskChangeset
<1>2. content' = content /\ RightAnswer(content, q) \in history'.right
  BY <1>1 DEF Question, Begin, service
<1>3. call'.wanted = q
  BY <1>1 DEF NewCall
<1>4. request'.operation = ChangesetGetSingle /\ request'.url = EntityUrl("changeset", ChangesetPart(params))
  BY <1>1 DEF Ask, QueriesInv, CallsOK, AnyRequest
<1>5. ChangesetGetSingle \notin ListOperations
  <2>1. ChangesetGetSingle \in GetOperations
    BY DEF GetOperations
  <2> QED
    BY <2>1, Verbs DEF Operations
<1>6. GetsChangeset(q)'
  BY <1>4 DEF GetsChangeset, EntityUrl
<1>7. QuestionInv'
  BY <1>2, <1>3, <1>4, <1>5, <1>6 DEF QuestionInv
<1> QED
  BY <1>1, <1>7 DEF ResolvedWithinCall, NoOutcome

\* Each way of asking is for the list or the changeset in question.
LEMMA QuestionIsAsked ==
    ASSUME QueriesInv, NEW q \in Questions, QuestionAsked(q)
    PROVE  QuestionInv' /\ ResolvedWithinCall'
<1>1. /\ LatestChangesetList(q.side) \in ListOperations /\ LatestChangesetList(q.side).on = "changeset"
      /\ ChangesetGetRepresentationList \in ListOperations /\ ChangesetGetRepresentationList.on = "changeset"
      /\ NamedVersionGetMinimalList \in ListOperations /\ NamedVersionGetMinimalList.on = "namedVersion"
      /\ IModelGetMinimalList \in ListOperations /\ IModelGetMinimalList.on = "iModel"
  BY QuestionQueries DEF LatestChangesetList, ChangesetGetRepresentationList, ChangesetGetMinimalList,
     NamedVersionGetMinimalList, IModelGetMinimalList, FullList, MinimalList, Operation
<1>2. q.changeset.form \in {"id", "index"} /\ q.changeset.number \in Nat
      /\ (q.ask = "changeset" /\ q.side = "frontend" => q.changeset.number # 0)
  BY QuestionsAssumption
<1>3. CASE q.ask = "first" /\ GetFirstVersion(q)
  <2>1. /\ Question(q) /\ step' = "idle" /\ outcome'.came = "returned" /\ outcome'.got = <<0>>
        /\ outcome'.wanted = q
    BY <1>3 DEF GetFirstVersion, Return, NewCall
  <2>2. RightAnswer(content, q) = <<0>>
    BY <1>3 DEF RightAnswer
  <2> QED
    BY <1>3, <2>1, <2>2, ReportedAsItIs DEF Question, QuestionInv, ResolvedWithinCall
<1>4. CASE q.ask = "changeset" /\ AskChangeset(q, ToChangesetIdOrIndex(q.changeset))
  <2>1. PICK params : params = ToChangesetIdOrIndex(q.changeset)
    OBVIOUS
  <2>2. ChangesetPart(params).number = q.changeset.number
        /\ (q.changeset.number = 0 => ChangesetPart(params).form = "index")
    BY <1>2, <2>1 DEF ToChangesetIdOrIndex, ChangesetPart
  <2> QED
    BY <1>4, <2>1, <2>2, ChangesetIsAsked
<1>5. CASE q.ask = "changeset" /\ q.side = "frontend" /\ AskChangeset(q, [changesetId |-> q.changeset.number])
  <2>1. PICK params : params = [changesetId |-> q.changeset.number]
    OBVIOUS
  <2>2. ChangesetPart(params).number = q.changeset.number
    BY <2>1 DEF ChangesetPart
  <2> QED
    BY <1>2, <1>5, <2>1, <2>2, ChangesetIsAsked
<1>6. CASE q.ask = "latest" /\ AskList(q, LatestChangesetList(q.side), ByChangesetIndex, 1)
  <2>1. OnOf(q) = "changeset" /\ QueryOf(q) = FormQueryString(ByChangesetIndex) /\ WantOf(q) = 1
    BY <1>6 DEF OnOf, QueryOf, WantOf
  <2> QED
    BY <1>1, <1>6, <2>1, ListIsAsked
<1>7. CASE q.ask = "latestNamedVersion" /\ AskList(q, NamedVersionGetMinimalList, ByChangesetIndex, 1)
  <2>1. OnOf(q) = "namedVersion" /\ QueryOf(q) = FormQueryString(ByChangesetIndex) /\ WantOf(q) = 1
    BY <1>7 DEF OnOf, QueryOf, WantOf
  <2> QED
    BY <1>1, <1>7, <2>1, ListIsAsked
<1>8. CASE q.ask = "namedVersion" /\ AskList(q, NamedVersionGetMinimalList, [name |-> q.name], 0)
  <2>1. OnOf(q) = "namedVersion" /\ QueryOf(q) = FormQueryString([name |-> q.name]) /\ WantOf(q) = 0
    BY <1>8 DEF OnOf, QueryOf, WantOf
  <2> QED
    BY <1>1, <1>8, <2>1, ListIsAsked
<1>9. CASE q.ask = "iModel" /\ AskList(q, IModelGetMinimalList, [name |-> q.name], 0)
  <2>1. OnOf(q) = "iModel" /\ QueryOf(q) = FormQueryString([name |-> q.name]) /\ WantOf(q) = 0
    BY <1>9 DEF OnOf, QueryOf, WantOf
  <2> QED
    BY <1>1, <1>9, <2>1, ListIsAsked
<1>10. CASE q.ask = "range" /\ AskList(q, ChangesetGetRepresentationList, ToChangesetRangeUrlParams(q.range), 0)
  <2>1. OnOf(q) = "changeset" /\ QueryOf(q) = FormQueryString(ToChangesetRangeUrlParams(q.range)) /\ WantOf(q) = 0
    BY <1>10 DEF OnOf, QueryOf, WantOf
  <2> QED
    BY <1>1, <1>10, <2>1, ListIsAsked
<1> QED
  BY <1>3, <1>4, <1>5, <1>6, <1>7, <1>8, <1>9, <1>10, QuestionKinds

\* The changeset that comes, or that there is none, is a right answer.
LEMMA SingleAnswersQuestion ==
    ASSUME QueriesInv, QuestionInv, SingleAnswered
    PROVE  QuestionInv' /\ ResolvedWithinCall'
<1>1. /\ step = "sent" /\ request.operation \in GetOperations /\ request.operation \notin ListOperations
      /\ UNCHANGED <<content, history>>
  <2>1. step = "sent" /\ request.operation.verb = "get" /\ UNCHANGED <<content, history>>
    BY DEF SingleAnswered, service
  <2> QED
    BY <2>1, Verbs DEF QueriesInv, CallsOK, AnyRequest
<1>2. /\ step' = "idle" /\ outcome'.of = call.what /\ outcome'.wanted = call.wanted
      /\ \/ outcome'.came = "notFound" /\ Found(content, request.url) = {}
         \/ /\ outcome'.came = "returned"
            /\ \E entity \in Found(content, request.url) :
                   outcome'.got = IF Asked(call) THEN <<entity[2]>> ELSE entity
  <2>1. PICK found : found = Found(content, request.url)
    OBVIOUS
  <2>2. \/ found = {} /\ Return(call, "notFound", <<>>)
        \/ \E entity \in found : Return(call, "returned", IF Asked(call) THEN <<entity[2]>> ELSE entity)
    BY <2>1 DEF SingleAnswered, Fail
  <2>3. CASE found = {} /\ Return(call, "notFound", <<>>)
    BY <2>1, <2>3 DEF Return
  <2>4. CASE \E entity \in found : Return(call, "returned", IF Asked(call) THEN <<entity[2]>> ELSE entity)
    <3>1. PICK entity \in found : Return(call, "returned", IF Asked(call) THEN <<entity[2]>> ELSE entity)
      BY <2>4
    <3> QED
      BY <2>1, <3>1 DEF Return
  <2> QED
    BY <2>2, <2>3, <2>4
<1>3. QuestionInv'
  BY <1>2 DEF QuestionInv
<1>4. SUFFICES ASSUME call.what = "question", Len(call.wanted.name) = 1
               PROVE  ResolvedWithinCall'
  BY <1>2, <1>3 DEF ResolvedWithinCall
<1>5. PICK q : q = call.wanted
  OBVIOUS
<1>6. PICK part : part = request.url.part
  OBVIOUS
<1>7. RightAnswer(content, q) \in history.right /\ GetsChangeset(q)
  BY <1>1, <1>4, <1>5 DEF QuestionInv
<1>8. Found(content, request.url) =
          {<<"changeset", c>> : c \in {part.number} \intersect (There(content, "changeset")
                                       \union (IF part.form = "index" THEN {0} ELSE {}))}
  BY <1>6, <1>7 DEF Found, GetsChangeset
<1>9. CASE /\ q.ask = "changeset" /\ part.number = q.changeset.number
           /\ q.changeset.number = 0 => part.form = "index"
  <2>1. RightAnswer(content, q) = IF part.number \in There(content, "changeset") \union {0}
                                  THEN <<part.number>> ELSE <<>>
    BY <1>9 DEF RightAnswer
  <2>2. Found(content, request.url) = {} => RightAnswer(content, q) = <<>>
    BY <1>8, <1>9, <2>1
  <2>3. \A entity \in Found(content, request.url) : RightAnswer(content, q) = <<entity[2]>>
    BY <1>8, <2>1
  <2>4. outcome'.came = "notFound" => <<>> \in history'.right
    BY <1>1, <1>2, <1>7, <2>2
  <2>5. outcome'.came = "returned" => outcome'.got \in history'.right
    <3>1. SUFFICES ASSUME outcome'.came = "returned" PROVE outcome'.got \in history'.right
      OBVIOUS
    <3>2. PICK entity \in Found(content, request.url) : outcome'.got = <<entity[2]>>
      BY <1>2, <1>4, <3>1 DEF Asked
    <3> QED
      BY <1>1, <1>7, <2>3, <3>2
  <2>6. outcome'.wanted.ask = "changeset"
    BY <1>2, <1>5, <1>9
  <2>7. outcome'.got = Reported(outcome'.wanted, outcome'.got)
    BY <2>6, ReportedAsItIs
  <2> QED
    BY <2>4, <2>5, <2>7 DEF ResolvedWithinCall
<1>10. CASE q.ask = "namedVersion" /\ part.number \in There(content, "changeset") /\ <<part.number>> \in history.right
  <2>1. PICK S : S = Found(content, request.url)
    OBVIOUS
  <2>2. S = {<<"changeset", c>> : c \in {part.number}}
    <3>1. PICK T : T = {part.number} \intersect (There(content, "changeset")
                                                 \union (IF part.form = "index" THEN {0} ELSE {}))
      OBVIOUS
    <3>2. T = {part.number}
      BY <1>10, <3>1
    <3>3. S = {<<"changeset", c>> : c \in T}
      BY <1>8, <2>1, <3>1
    <3> QED
      BY <3>2, <3>3
  <2>3. S # {} /\ \A entity \in S : entity[2] = part.number
    <3>1. PICK n, e : n = part.number /\ e = <<"changeset", n>>
      OBVIOUS
    <3>2. e[2] = n
      BY <3>1
    <3>3. S = {e}
      BY <2>2, <3>1
    <3> QED
      BY <3>1, <3>2, <3>3
  <2> QED
    <3>1. outcome'.came = "returned" /\ outcome'.got = <<part.number>>
      BY <1>2, <1>4, <2>1, <2>3 DEF Asked
    <3>2. part.number # 0
      <4>1. "changeset" \in Types
        BY TypesAre DEF Listed
      <4>2. There(content, "changeset") \subseteq Ids
        BY <4>1, Stored DEF QueriesInv, ServiceOK
      <4> QED
        BY <1>10, <4>2, QueriesAssumption DEF Ids
    <3>3. <<part.number>> # <<0>>
      BY <3>2
    <3>4. Reported(outcome'.wanted, <<part.number>>) = <<part.number>>
      BY <3>3, ReportedAsItIs
    <3> QED
      BY <1>1, <1>10, <3>1, <3>4 DEF ResolvedWithinCall
<1> QED
  BY <1>6, <1>7, <1>9, <1>10 DEF GetsChangeset

\* While others change what there is, a question stays as good as it was: what has been read
\* of a range stays its beginning, a changeset stays, and the answer that is right now is known.
LEMMA OthersAnswerQuestion ==
    ASSUME QueriesInv, QuestionInv, ResolvedWithinCall, OthersChange
    PROVE  QuestionInv' /\ ResolvedWithinCall'
<1>a. PICK operation \in OthersDo : \E effect \in Effects(content, operation) :
          Becomes(effect[1]) /\ UNCHANGED <<expired, calls, step, call, request, iterator, hand, outcome>>
  BY DEF OthersChange
<1>1. PICK effect \in Effects(content, operation) :
          Becomes(effect[1]) /\ UNCHANGED <<expired, calls, step, call, request, iterator, hand, outcome>>
  BY <1>a
<1>2. operation \in SendOperations \union {Push}
  BY QueriesAssumption
<1>3. PICK after : after = effect[1]
  OBVIOUS
<1>4. Sound(content) /\ Sound(after) /\ Keeps(content, after) /\ content' = after
  BY <1>1, <1>2, <1>3, EffectsKeep DEF QueriesInv, ServiceOK, Becomes
<1>5. /\ history.right \subseteq history'.right
      /\ Asked(call) => RightAnswer(after, call.wanted) \in history'.right
  BY <1>1, <1>3 DEF Becomes
<1>6. ResolvedWithinCall'
  BY <1>1, <1>5 DEF ResolvedWithinCall
<1>7. SUFFICES ASSUME step # "idle", call.what = "question", Len(call.wanted.name) = 1
               PROVE  QuestionInv'
  BY <1>1, <1>6 DEF QuestionInv
<1>8. PICK q : q = call.wanted
  OBVIOUS
<1>9. q \in Questions /\ call.got \in Seq(Ids)
  BY <1>7, <1>8 DEF QueriesInv, CallsOK, AwaitInv, Awaiting, AnyCall
<1>10. RightAnswer(content', q) \in history'.right
  BY <1>4, <1>5, <1>7, <1>8 DEF Asked
<1>11. ReadsList(q) => ReadsList(q)'
  <2>1. SUFFICES ASSUME ReadsList(q) PROVE ReadsList(q)'
    OBVIOUS
  <2>2. ASSUME q.ask = "range"
        PROVE  IsPrefix(call.got, Listing(after, "changeset", request.query))
    <3>1. PICK query : query = request.query
      OBVIOUS
    <3>2. query = FormQueryString(ToChangesetRangeUrlParams(q.range))
      BY <2>1, <2>2, <3>1 DEF ReadsList, QueryOf
    <3>3. PICK r, s, t : r = call.got /\ s = Listing(content, "changeset", query)
                         /\ t = Listing(after, "changeset", query)
      OBVIOUS
    <3>4. IsPrefix(s, t)
      BY <1>4, <1>9, <3>2, <3>3, RangeGrows
    <3>5. IsPrefix(r, s)
      BY <2>1, <2>2, <3>1, <3>3 DEF ReadsList
    <3>6. r \in Seq(Ids) /\ s \in Seq(Ids) /\ t \in Seq(Ids)
      BY <1>4, <1>9, <3>3, ChangesetsListed
    <3>7. IsPrefix(r, t)
      BY <3>4, <3>5, <3>6, PrefixOfPrefix
    <3> QED
      BY <3>1, <3>3, <3>7
  <2> QED
    BY <1>1, <1>4, <2>1, <2>2 DEF ReadsList
<1>12. GetsChangeset(q) => GetsChangeset(q)'
  <2>1. There(content, "changeset") \subseteq There(after, "changeset")
    BY <1>4 DEF Keeps
  <2> QED
    BY <1>1, <1>4, <1>5, <2>1 DEF GetsChangeset
<1>13. /\ request.operation \in ListOperations => ReadsList(q)
       /\ request.operation \notin ListOperations => GetsChangeset(q)
  BY <1>7, <1>8 DEF QuestionInv
<1> QED
  BY <1>1, <1>8, <1>10, <1>11, <1>12, <1>13 DEF QuestionInv

\* A call that reads a list stays for what it was made.
LEMMA ForAwaitIsFor ==
    ASSUME NEW c \in AnyCall, NEW it, ForAwait(c, it)
    PROVE  \/ step' = "idle" /\ outcome'.wanted = c.wanted
           \/ step' = "authorizing" /\ call'.wanted = c.wanted
<1>1. PICK after : after = [c EXCEPT !.got = c.got \o SubSeq(it.buffer, 1, Taken(c, it))]
  OBVIOUS
<1>2. after.wanted = c.wanted /\ \A got : [after EXCEPT !.got = got].wanted = c.wanted
  BY <1>1 DEF AnyCall
<1>3. \/ \E left : ListRead(after, left)
      \/ call' = after /\ step' = "authorizing"
  BY <1>1 DEF ForAwait, AskForPage, Ask
<1>4. CASE \E left : ListRead(after, left)
  <2>1. \/ call' = [after EXCEPT !.got = NamedChangeset(after)] /\ step' = "authorizing"
        \/ \E got : Return(after, "returned", got)
    BY <1>4 DEF ListRead, Ask
  <2>2. CASE \E got : Return(after, "returned", got)
    BY <1>2, <2>2 DEF Return
  <2> QED
    BY <1>2, <2>1, <2>2
<1> QED
  BY <1>2, <1>3, <1>4

\* Every step keeps what a question is for, and an answer right.
LEMMA QuestionStep ==
    ASSUME QueriesInv, QuestionInv, ResolvedWithinCall, [Next]_vars
    PROVE  QuestionInv' /\ ResolvedWithinCall'
<1>1. Elsewhere({"question"}) => QuestionInv' /\ ResolvedWithinCall'
  BY DEF Elsewhere, QuestionInv, ResolvedWithinCall
<1>2. PICK kinds : kinds = {"question"}
  OBVIOUS
<1>3. CASE Call
  <2>1. (\E operation \in Gets : GetSingle(operation)) => Elsewhere({"question"})
    BY DEF GetSingle, NewCall, Elsewhere, NoOutcome
  <2>2. (\E f \in DOMAIN hand.linked : Follow(f)) => Elsewhere({"question"})
    BY DEF Follow, Return, NewCall, Elsewhere, NoOutcome
  <2>3. GetList \/ NextPage \/ (\E want \in Counts : Take(want)) \/ (\E operation \in Sends : SendRequest(operation))
        => Elsewhere({"question"})
    BY <1>2, PlainCalls
  <2>4. (\E q \in Questions : QuestionAsked(q)) => QuestionInv' /\ ResolvedWithinCall'
    BY QuestionIsAsked
  <2> QED
    BY <1>1, <1>3, <2>1, <2>2, <2>3, <2>4 DEF Call, QuestionAsked
<1>4. CASE Proceed
  <2>1. Authorized => QuestionInv' /\ ResolvedWithinCall'
    <3>1. SUFFICES ASSUME Authorized PROVE QuestionInv' /\ ResolvedWithinCall'
      OBVIOUS
    <3>2. /\ request'.url = request.url /\ request'.operation = request.operation /\ request'.query = request.query
          /\ step # "idle" /\ step' = "sent" /\ UNCHANGED <<content, call, iterator, outcome, history>>
      BY <3>1 DEF Authorized, QueriesInv, CallsOK, AnyRequest, service
    <3>3. ResolvedWithinCall'
      BY <3>2 DEF ResolvedWithinCall
    <3>4. \A q : (ReadsList(q) => ReadsList(q)') /\ (GetsChangeset(q) => GetsChangeset(q)')
      BY <3>2 DEF ReadsList, GetsChangeset
    <3> QED
      BY <3>2, <3>3, <3>4 DEF QuestionInv
  <2>2. \A came \in {"unauthorized", "failed"} : Fail(came) => QuestionInv' /\ ResolvedWithinCall'
    BY DEF Fail, Return, QuestionInv, ResolvedWithinCall
  <2>3. AuthorizationFails \/ Unauthorized \/ RequestFails => QuestionInv' /\ ResolvedWithinCall'
    BY <2>2 DEF AuthorizationFails, Unauthorized, RequestFails
  <2>4. SendAnswered => Elsewhere({"question"})
    BY <1>2, PlainCalls
  <2>5. PageAnswered => QuestionInv' /\ ResolvedWithinCall'
    <3>1. SUFFICES ASSUME PageAnswered PROVE QuestionInv' /\ ResolvedWithinCall'
      OBVIOUS
    <3>2. CASE call.what # "question"
      BY <1>1, <1>2, <3>1, <3>2, PagesElsewhere
    <3>3. CASE call.what = "question" /\ Len(call.wanted.name) = 1
      BY <3>1, <3>3, PageAnswersQuestion
    <3>4. CASE call.what = "question" /\ Len(call.wanted.name) # 1
      <4>1. PICK it : ForAwait(call, it)
        BY <3>1, <3>4 DEF PageAnswered
      <4>2. \/ step' = "idle" /\ outcome'.wanted = call.wanted
            \/ step' = "authorizing" /\ call'.wanted = call.wanted
        BY <4>1, ForAwaitIsFor DEF QueriesInv, CallsOK
      <4> QED
        BY <3>4, <4>2 DEF QuestionInv, ResolvedWithinCall
    <3> QED
      BY <3>2, <3>3, <3>4
  <2> QED
    BY <1>1, <1>4, <2>1, <2>3, <2>4, <2>5, SingleAnswersQuestion DEF Proceed
<1>5. CASE OthersChange
  BY <1>5, OthersAnswerQuestion
<1>6. CASE TokenExpires \/ UNCHANGED vars
  <2>1. UNCHANGED <<content, step, call, request, iterator, outcome, history>>
    BY <1>6 DEF TokenExpires, vars, service
  <2>2. \A q : (ReadsList(q) => ReadsList(q)') /\ (GetsChangeset(q) => GetsChangeset(q)')
    BY <2>1 DEF ReadsList, GetsChangeset
  <2> QED
    BY <2>1, <2>2 DEF QuestionInv, ResolvedWithinCall
<1> QED
  BY <1>3, <1>4, <1>5, <1>6 DEF Next

\* What a question about versions, changesets and iModels by name is answered with was right
\* at some time between the question and the answer, over however many requests and pages and
\* whatever others do meanwhile: what is read of a range stays its beginning, the latest comes
\* first, one at most has a name, and a changeset that was pushed stays.  But for names with a
\* "&" and for named versions on the baseline, of which it is said that there is none.
THEOREM ResolvedRight == Spec => []ResolvedWithinCall
<1>1. Init => QuestionInv /\ ResolvedWithinCall
  BY DEF Init, QuestionInv, ResolvedWithinCall, NoOutcome
<1>2. QueriesInv /\ QuestionInv /\ ResolvedWithinCall /\ [Next]_vars => QuestionInv' /\ ResolvedWithinCall'
  BY QuestionStep
<1> QED
  BY <1>1, <1>2, QueriesInvariant, PTL DEF Spec
====
