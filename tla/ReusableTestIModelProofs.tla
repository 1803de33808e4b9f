----------------------- MODULE ReusableTestIModelProofs -----------------------
(***************************************************************************)
(* That runs of the tests get one whole iModel: the theorems about         *)
(* ReusableTestIModel.  ShareInv is about what says that it is completed,  *)
(* however it came to be; PartsInv about an iModel that a run creates, by  *)
(* what each request of createReusable finds done by those before it.      *)
(***************************************************************************)
EXTENDS ReusableTestIModel, FiniteSetTheorems, NaturalsInduction, TLAPS

-------------------------------------------------------------------------------
(* The order of the requests.                                              *)

PartNames == {"briefcases", "groups", "changesets", "completeGroups", "extendedData",
              "namedVersions", "checkpoints", "lock", "complete"}
QueryNames == {"queryBriefcases", "queryNamedVersions", "queryLock", "queryChangesetGroups",
               "queryExtendedData", "queryChangesets"}

Place(part) == CHOOSE i \in DOMAIN Parts : Parts[i] = part

\* The parts one after another.
LEMMA PartsInOrder ==
    /\ {Parts[i] : i \in DOMAIN Parts} = PartNames /\ {Queries[i] : i \in DOMAIN Queries} = QueryNames
    /\ DOMAIN Parts = 1..9 /\ Len(Parts) = 9
    /\ Place("briefcases") = 1 /\ Place("groups") = 2 /\ Place("changesets") = 3
    /\ Place("completeGroups") = 4 /\ Place("extendedData") = 5 /\ Place("namedVersions") = 6
    /\ Place("checkpoints") = 7 /\ Place("lock") = 8 /\ Place("complete") = 9
    /\ \A i \in 1..9 : Parts[i] \in PartNames /\ Place(Parts[i]) = i
    /\ \A part \in PartNames : Parts[Place(part)] = part
<1>1. DOMAIN Parts = 1..9 /\ Len(Parts) = 9
  BY DEF Parts
<1>2. /\ Parts[1] = "briefcases" /\ Parts[2] = "groups" /\ Parts[3] = "changesets"
      /\ Parts[4] = "completeGroups" /\ Parts[5] = "extendedData" /\ Parts[6] = "namedVersions"
      /\ Parts[7] = "checkpoints" /\ Parts[8] = "lock" /\ Parts[9] = "complete"
  BY DEF Parts
<1>3. \A i \in 1..9 : i = 1 \/ i = 2 \/ i = 3 \/ i = 4 \/ i = 5 \/ i = 6 \/ i = 7 \/ i = 8 \/ i = 9
  OBVIOUS
<1>4. \A i, j \in 1..9 : Parts[i] = Parts[j] => i = j
  BY <1>2, <1>3
<1>5. \A i \in 1..9 : Place(Parts[i]) = i
  BY <1>1, <1>4 DEF Place
<1>6. {Parts[i] : i \in DOMAIN Parts} = PartNames
  BY <1>1, <1>2, <1>3 DEF PartNames
<1>7. {Queries[i] : i \in DOMAIN Queries} = QueryNames
  <2>1. DOMAIN Queries = 1..6
    BY DEF Queries
  <2>2. \A i \in 1..6 : i = 1 \/ i = 2 \/ i = 3 \/ i = 4 \/ i = 5 \/ i = 6
    OBVIOUS
  <2>3. /\ Queries[1] = "queryBriefcases" /\ Queries[2] = "queryNamedVersions" /\ Queries[3] = "queryLock"
        /\ Queries[4] = "queryChangesetGroups" /\ Queries[5] = "queryExtendedData"
        /\ Queries[6] = "queryChangesets"
    BY DEF Queries
  <2> QED
    BY <2>1, <2>2, <2>3 DEF QueryNames
<1>8. \A i \in 1..9 : Parts[i] \in PartNames
  BY <1>1, <1>6
<1>9. \A part \in PartNames : Parts[Place(part)] = part
  BY <1>1, <1>5, <1>6
<1>10. /\ Place("briefcases") = 1 /\ Place("groups") = 2 /\ Place("changesets") = 3
       /\ Place("completeGroups") = 4 /\ Place("extendedData") = 5 /\ Place("namedVersions") = 6
       /\ Place("checkpoints") = 7 /\ Place("lock") = 8 /\ Place("complete") = 9
  BY <1>2, <1>5
<1> QED
  BY <1>1, <1>5, <1>6, <1>7, <1>8, <1>9, <1>10

\* No part is without a request.
LEMMA RequestsIsNat == \A part \in PartNames : Requests(part) \in Nat \ {0}
BY ReusableAssumption DEF PartNames, Requests

\* How many requests of each part have been answered.
Answered(s, part) ==
    IF s.at \notin PartNames THEN 0
    ELSE IF Place(part) < Place(s.at) THEN Requests(part)
    ELSE IF part = s.at THEN s.done ELSE 0

\* What a run is: one in the middle of a creation has an iModel and a request to send, and as many
\* ids of groups as it has created groups; only one that recreates deletes; one that waits
\* may look again.
RunOK(r, s, last) ==
    /\ s \in AnyRun
    /\ Len(s.groupIds) = Answered(s, "groups")
    /\ IF s.at \in PartNames THEN s.done < Requests(s.at) ELSE s.done = 0
    /\ s.at \in PartNames \union QueryNames \union {"delete", "look", "sleep"} => s.m # NoIModel
    /\ s.reusable # NoIModel => s.at = "idle"
    /\ s.at = "delete" => r \in recreates
    /\ s.at \in {"sleep", "look"} => s.attempts < MaxAttempts
    /\ s.m <= last /\ s.reusable <= last

\* The request that follows.
LEMMA FollowingIs ==
    ASSUME NEW s \in AnyRun, s.at \in PartNames, s.done < Requests(s.at)
    PROVE  /\ s.done + 1 < Requests(s.at) => Following(s) = [s EXCEPT !.done = s.done + 1]
           /\ s.done + 1 = Requests(s.at) /\ s.at # "complete" =>
                  Following(s) = [s EXCEPT !.at = Parts[Place(s.at) + 1], !.done = 0]
           /\ s.done + 1 = Requests(s.at) /\ s.at = "complete" =>
                  Following(s) = [NewRun EXCEPT !.reusable = s.m]
           /\ s.done + 1 < Requests(s.at) \/ s.done + 1 = Requests(s.at)
           /\ Place(s.at) \in 1..9 /\ (s.at = "complete" <=> Place(s.at) = 9)
<1>1. Requests(s.at) \in Nat /\ s.done \in Nat
  BY RequestsIsNat DEF AnyRun
<1>2. Place(s.at) \in 1..9 /\ (s.at = "complete" <=> Place(s.at) = 9)
  BY PartsInOrder DEF PartNames
<1>3. (CHOOSE i \in DOMAIN Parts : Parts[i] = s.at) = Place(s.at)
  BY DEF Place
<1>4. Following(s) = IF s.done + 1 < Requests(s.at) THEN [s EXCEPT !.done = s.done + 1]
                     ELSE IF Place(s.at) = 9 THEN [NewRun EXCEPT !.reusable = s.m]
                     ELSE [s EXCEPT !.at = Parts[Place(s.at) + 1], !.done = 0]
  BY <1>3, PartsInOrder DEF Following, Returned
<1> QED
  BY <1>1, <1>2, <1>4

\* One more request of its part has been answered, and no other.
LEMMA AnsweredAfter ==
    ASSUME NEW s \in AnyRun, s.at \in PartNames, s.done < Requests(s.at)
    PROVE  /\ Following(s).at \in PartNames =>
                  \A part \in PartNames :
                      Answered(Following(s), part) = Answered(s, part) + (IF part = s.at THEN 1 ELSE 0)
           /\ Following(s).at \notin PartNames =>
                  /\ Following(s) = [NewRun EXCEPT !.reusable = s.m] /\ s.at = "complete"
                  /\ \A part \in PartNames \ {"complete"} : Answered(s, part) = Requests(part)
           /\ Following(s).at = "complete" \/ Following(s).at \notin PartNames =>
                  s.at \in {"lock", "complete"}
           /\ \A part \in PartNames : Answered(s, part) \in 0..Requests(part)
<1>1. \A part \in PartNames : Requests(part) \in Nat \ {0} /\ Place(part) \in 1..9 /\ Parts[Place(part)] = part
  BY RequestsIsNat, PartsInOrder DEF PartNames
<1>2. s.done \in Nat /\ DOMAIN s = {"at", "m", "done", "groupIds", "attempts", "reusable"}
  BY DEF AnyRun
<1>3. \A part \in PartNames : Answered(s, part) \in 0..Requests(part)
  BY <1>1, <1>2 DEF Answered
<1>4. CASE s.done + 1 < Requests(s.at)
  <2>1. Following(s) = [s EXCEPT !.done = s.done + 1]
    BY <1>4, FollowingIs
  <2>2. Following(s).at = s.at /\ Following(s).done = s.done + 1
    BY <2>1, <1>2
  <2>3. s.done + 1 < Requests(s.at) /\ s.at = "complete" => FALSE
    BY <1>2, <1>4 DEF Requests
  <2>4. \A part \in PartNames :
            Answered(Following(s), part) = Answered(s, part) + (IF part = s.at THEN 1 ELSE 0)
    BY <1>1, <1>2, <2>2 DEF Answered
  <2> QED
    BY <2>2, <2>3, <2>4, <1>3
<1>5. CASE s.done + 1 = Requests(s.at) /\ s.at # "complete"
  <2>1. Place(s.at) \in 1..8
    <3>1. Place(s.at) \in 1..9 /\ Place(s.at) # 9
      BY <1>5, FollowingIs
    <3> QED
      BY <3>1
  <2>2. Following(s) = [s EXCEPT !.at = Parts[Place(s.at) + 1], !.done = 0]
    BY <1>5, FollowingIs
  <2>3. Following(s).at = Parts[Place(s.at) + 1] /\ Following(s).done = 0
    BY <2>2, <1>2
  <2>4. Following(s).at \in PartNames /\ Place(Following(s).at) = Place(s.at) + 1
    BY <2>1, <2>3, PartsInOrder
  <2>5. Following(s).at = "complete" => s.at = "lock"
    <3>1. SUFFICES ASSUME Following(s).at = "complete" PROVE s.at = "lock"
      OBVIOUS
    <3>2. Place(s.at) + 1 = 9
      BY <3>1, <2>4, PartsInOrder
    <3>3. Place(s.at) = Place("lock")
      BY <3>2, <2>1, PartsInOrder
    <3> QED
      BY <3>3, <1>1 DEF PartNames
  <2>6. ASSUME NEW part \in PartNames
        PROVE  Answered(Following(s), part) = Answered(s, part) + (IF part = s.at THEN 1 ELSE 0)
    <3>1. Place(part) \in 1..9 /\ (part = s.at <=> Place(part) = Place(s.at))
          /\ (part = Following(s).at <=> Place(part) = Place(s.at) + 1)
      BY <1>1, <2>4
    <3> QED
      BY <3>1, <1>1, <1>2, <1>5, <2>1, <2>3, <2>4 DEF Answered
  <2> QED
    BY <2>4, <2>5, <2>6, <1>3
<1>6. CASE s.done + 1 = Requests(s.at) /\ s.at = "complete"
  <2>1. Following(s) = [NewRun EXCEPT !.reusable = s.m]
    BY <1>6, FollowingIs
  <2>2. Following(s).at = "idle"
    BY <2>1 DEF NewRun
  <2>3. \A part \in PartNames \ {"complete"} : Place(part) < Place("complete")
    BY PartsInOrder DEF PartNames
  <2>4. \A part \in PartNames \ {"complete"} : Answered(s, part) = Requests(part)
    BY <1>6, <2>3 DEF Answered, PartNames
  <2> QED
    BY <1>6, <2>1, <2>2, <2>4, <1>3 DEF PartNames
<1> QED
  BY <1>4, <1>5, <1>6, FollowingIs

-------------------------------------------------------------------------------
(* What says that it is completed is so for all.                           *)

RunInv == \A r \in Runs : RunOK(r, run[r], created)

\* The name is one iModel's; what is not there has nothing.
NameInv ==
    /\ \A m, n \in Ids : iModels[m].exists /\ iModels[n].exists => m = n
    /\ \A m \in Ids : IF iModels[m].exists THEN m <= created ELSE iModels[m] = Nothing

\* What a run checks, or has got, says that it is completed.
SaysCompleted(s, now) ==
    /\ s.at \in QueryNames /\ now[s.m].exists => now[s.m].description = "completed"
    /\ s.reusable # NoIModel => now[s.reusable].exists /\ now[s.reusable].description = "completed"

CompletedInv ==
    /\ \A r \in Runs : run[r].at \in QueryNames /\ iModels[run[r].m].exists =>
                           iModels[run[r].m].description = "completed"
    /\ \A r \in Runs : run[r].reusable # NoIModel /\ recreates \subseteq {r} =>
                           /\ iModels[run[r].reusable].exists
                           /\ iModels[run[r].reusable].description = "completed"

ShareInv == TypeOK /\ RunInv /\ NameInv /\ CompletedInv

\* An iModel that is there gets something, and stays completed if it was.
Gets(m, now) ==
    /\ iModels[m].exists /\ now \in AnyIModel /\ now.exists
    /\ iModels[m].description = "completed" => now.description = "completed"
    /\ iModels' = [iModels EXCEPT ![m] = now]

\* What may become of the iModels in a step: only a run that recreates deletes.
ServiceStep ==
    \/ UNCHANGED <<iModels, created>>
    \/ /\ UNCHANGED created
       /\ \E m \in Ids : \/ /\ iModels' = [iModels EXCEPT ![m] = Nothing]
                            /\ \E r \in Runs : run[r].at = "delete"
                         \/ \E now \in AnyIModel : Gets(m, now)
    \/ PerformCreate

\* The values a new iModel and a run that is not in a call have.
LEMMA NothingIsTyped ==
    /\ Nothing \in AnyIModel /\ ~Nothing.exists /\ Nothing.description = "none" /\ Nothing.versions = <<>>
    /\ [Nothing EXCEPT !.exists = TRUE, !.description = "inProgress"] \in AnyIModel
    /\ [Nothing EXCEPT !.exists = TRUE, !.description = "inProgress"].exists
    /\ \A r \in Runs : \A last \in Nat : RunOK(r, NewRun, last) /\ NewRun.at = "idle" /\ NewRun.reusable = NoIModel
    /\ \A r \in Runs : \A last \in Nat : \A m \in 0..last : last <= MaxIModels =>
           RunOK(r, [NewRun EXCEPT !.reusable = m], last)
<1>1. Nothing \in AnyIModel /\ ~Nothing.exists /\ Nothing.description = "none" /\ Nothing.versions = <<>>
  BY DEF Nothing, AnyIModel
<1>2. /\ [Nothing EXCEPT !.exists = TRUE, !.description = "inProgress"] \in AnyIModel
      /\ [Nothing EXCEPT !.exists = TRUE, !.description = "inProgress"].exists
  <2>1. \A now \in AnyIModel : [now EXCEPT !.exists = TRUE, !.description = "inProgress"] \in AnyIModel
    BY DEF AnyIModel
  <2>2. [Nothing EXCEPT !.exists = TRUE, !.description = "inProgress"].exists
    BY DEF Nothing
  <2> QED
    BY <1>1, <2>1, <2>2
<1>3. 0 \in 0..MaxIModels /\ 0 \in 0..MaxAttempts /\ <<>> \in Seq(Nat) /\ Len(<<>>) = 0
  BY ReusableAssumption
<1>4. ASSUME NEW m \in 0..MaxIModels
      PROVE  [NewRun EXCEPT !.reusable = m] \in AnyRun
  BY <1>3, <1>4 DEF NewRun, AnyRun, NoIModel
<1>5. NewRun = [NewRun EXCEPT !.reusable = 0]
  BY DEF NewRun, NoIModel
<1>6. ASSUME NEW r \in Runs, NEW last \in Nat, NEW m \in 0..last, m <= MaxIModels
      PROVE  RunOK(r, [NewRun EXCEPT !.reusable = m], last)
  <2>1. PICK s : s = [NewRun EXCEPT !.reusable = m]
    OBVIOUS
  <2>2. /\ s.at = "idle" /\ s.m = 0 /\ s.done = 0 /\ s.groupIds = <<>> /\ s.reusable = m
    BY <2>1 DEF NewRun, NoIModel
  <2>3. m \in 0..MaxIModels
    BY <1>6, ReusableAssumption
  <2>4. s \in AnyRun
    BY <2>1, <2>3, <1>4
  <2>5. Answered(s, "groups") = 0
    BY <2>2 DEF Answered, PartNames
  <2>6. RunOK(r, s, last)
    BY <2>2, <2>4, <2>5, <1>3, <1>6 DEF RunOK, PartNames, QueryNames, NoIModel
  <2> QED
    BY <2>1, <2>6
<1>7. ASSUME NEW r \in Runs, NEW last \in Nat
      PROVE  RunOK(r, NewRun, last) /\ NewRun.at = "idle" /\ NewRun.reusable = NoIModel
  <2>1. 0 \in 0..last /\ 0 <= MaxIModels
    BY ReusableAssumption
  <2>2. RunOK(r, [NewRun EXCEPT !.reusable = 0], last)
    BY <2>1, <1>6
  <2> QED
    BY <2>2, <1>5 DEF NewRun
<1>8. \A r \in Runs : \A last \in Nat : \A m \in 0..last : last <= MaxIModels =>
           RunOK(r, [NewRun EXCEPT !.reusable = m], last)
  <2>1. SUFFICES ASSUME NEW r \in Runs, NEW last \in Nat, NEW m \in 0..last, last <= MaxIModels
                 PROVE  RunOK(r, [NewRun EXCEPT !.reusable = m], last)
    OBVIOUS
  <2>2. m <= MaxIModels
    BY <2>1, ReusableAssumption
  <2> QED
    BY <2>1, <2>2, <1>6
<1> QED
  BY <1>1, <1>2, <1>7, <1>8

\* Nothing that is done to the iModels makes two of the name, or one that was completed
\* something else, and none disappears unless there is a run that deletes.
LEMMA ServiceKeeps ==
    ASSUME ShareInv, ServiceStep
    PROVE  /\ iModels' \in [Ids -> AnyIModel] /\ created' \in 0..MaxIModels /\ created <= created'
           /\ NameInv'
           /\ \A m \in 1..created : iModels'[m].exists =>
                  /\ iModels[m].exists
                  /\ iModels[m].description = "completed" => iModels'[m].description = "completed"
           /\ \A m \in Ids : iModels[m].exists /\ ~iModels'[m].exists => \E r \in Runs : run[r].at = "delete"
<1>1. iModels \in [Ids -> AnyIModel] /\ created \in 0..MaxIModels /\ MaxIModels \in Nat
  BY ReusableAssumption DEF ShareInv, TypeOK
<1>2. NameInv
  BY DEF ShareInv
<1>3. \A m \in 1..created : m \in Ids
  BY <1>1 DEF Ids
<1>4. CASE UNCHANGED <<iModels, created>>
  BY <1>1, <1>2, <1>3, <1>4 DEF NameInv
<1>5. ASSUME NEW m \in Ids, iModels' = [iModels EXCEPT ![m] = Nothing], UNCHANGED created,
             NEW r \in Runs, run[r].at = "delete"
      PROVE  /\ iModels' \in [Ids -> AnyIModel] /\ created' \in 0..MaxIModels /\ created <= created'
             /\ NameInv'
             /\ \A n \in 1..created : iModels'[n].exists =>
                    /\ iModels[n].exists
                    /\ iModels[n].description = "completed" => iModels'[n].description = "completed"
             /\ \A n \in Ids : iModels[n].exists /\ ~iModels'[n].exists => \E q \in Runs : run[q].at = "delete"
  <2>1. iModels' \in [Ids -> AnyIModel]
    BY <1>1, <1>5, NothingIsTyped
  <2>2. \A n \in Ids : iModels'[n] = IF n = m THEN Nothing ELSE iModels[n]
    BY <1>1, <1>5
  <2>3. NameInv'
    BY <1>2, <1>5, <2>2, NothingIsTyped DEF NameInv
  <2> QED
    BY <1>1, <1>3, <1>5, <2>1, <2>2, <2>3, NothingIsTyped
<1>6. ASSUME NEW m \in Ids, NEW now \in AnyIModel, Gets(m, now), UNCHANGED created
      PROVE  /\ iModels' \in [Ids -> AnyIModel] /\ created' \in 0..MaxIModels /\ created <= created'
             /\ NameInv'
             /\ \A n \in 1..created : iModels'[n].exists =>
                    /\ iModels[n].exists
                    /\ iModels[n].description = "completed" => iModels'[n].description = "completed"
             /\ \A n \in Ids : iModels[n].exists /\ ~iModels'[n].exists => \E q \in Runs : run[q].at = "delete"
  <2>1. iModels' \in [Ids -> AnyIModel]
    BY <1>1, <1>6 DEF Gets
  <2>2. \A n \in Ids : iModels'[n] = IF n = m THEN now ELSE iModels[n]
    BY <1>1, <1>6 DEF Gets
  <2>3. NameInv'
    BY <1>2, <1>6, <2>2 DEF NameInv, Gets
  <2> QED
    BY <1>1, <1>3, <1>6, <2>1, <2>2, <2>3 DEF Gets
<1>7. CASE PerformCreate
  <2>1. created' = created + 1 /\ created + 1 \in Ids /\ created' \in 0..MaxIModels
    BY <1>1, <1>7 DEF PerformCreate, Ids
  <2>2. PICK now : now = [Nothing EXCEPT !.exists = TRUE, !.description = "inProgress"]
    OBVIOUS
  <2>3. now \in AnyIModel /\ now.exists
    BY <2>2, NothingIsTyped
  <2>4. iModels' = [iModels EXCEPT ![created + 1] = now]
    BY <1>7, <2>2 DEF PerformCreate
  <2>5. iModels' \in [Ids -> AnyIModel] /\ \A n \in Ids : iModels'[n] = IF n = created + 1 THEN now ELSE iModels[n]
    BY <1>1, <2>1, <2>3, <2>4
  <2>6. \A n \in Ids : ~iModels[n].exists
    BY <1>7 DEF PerformCreate, OfTheName
  <2>7. NameInv'
    BY <1>1, <1>2, <2>1, <2>3, <2>5, <2>6 DEF NameInv, Ids
  <2>8. \A n \in 1..created : n # created + 1
    BY <1>1
  <2> QED
    BY <1>1, <1>3, <2>1, <2>3, <2>5, <2>6, <2>7, <2>8
<1> QED
  BY <1>4, <1>5, <1>6, <1>7 DEF ServiceStep

\* One run goes on, if any: what it becomes must be right, the others see what they saw.
LEMMA ShareStep ==
    ASSUME ShareInv, ServiceStep, UNCHANGED recreates, repeated' \in BOOLEAN,
           waits' \in [Runs -> SUBSET [m : Ids, version : DOMAIN NamedVersions, left : Nat]],
           calls' \in 0..MaxCalls, ends' \in 0..MaxEnds,
           \/ UNCHANGED run
           \/ \E r \in Runs : \E s : Become(r, s) /\ RunOK(r, s, created') /\ SaysCompleted(s, iModels')
    PROVE  ShareInv'
<1>1. /\ iModels' \in [Ids -> AnyIModel] /\ created' \in 0..MaxIModels /\ created <= created'
      /\ NameInv'
      /\ \A m \in 1..created : iModels'[m].exists =>
             /\ iModels[m].exists
             /\ iModels[m].description = "completed" => iModels'[m].description = "completed"
      /\ \A m \in Ids : iModels[m].exists /\ ~iModels'[m].exists => \E r \in Runs : run[r].at = "delete"
  BY ServiceKeeps
<1>2. /\ run \in [Runs -> AnyRun] /\ recreates \subseteq Runs /\ created \in 0..MaxIModels
      /\ \A r \in Runs : RunOK(r, run[r], created)
  BY DEF ShareInv, TypeOK, RunInv
<1>3. CompletedInv
  BY DEF ShareInv
<1>4. \A r \in Runs : RunOK(r, run[r], created')
  <2>1. SUFFICES ASSUME NEW r \in Runs PROVE RunOK(r, run[r], created')
    OBVIOUS
  <2>2. RunOK(r, run[r], created) /\ run[r] \in AnyRun
    BY <1>2
  <2>3. run[r].m \in 0..MaxIModels /\ run[r].reusable \in 0..MaxIModels
    BY <2>2 DEF AnyRun
  <2> QED
    BY <2>2, <2>3, <1>1, <1>2 DEF RunOK
<1>5. ASSUME NEW r \in Runs, run'[r] = run[r] \/ (RunOK(r, run'[r], created') /\ SaysCompleted(run'[r], iModels'))
      PROVE  /\ RunOK(r, run[r], created)'
             /\ run'[r].at \in QueryNames /\ iModels'[run'[r].m].exists =>
                    iModels'[run'[r].m].description = "completed"
             /\ run'[r].reusable # NoIModel /\ recreates \subseteq {r} =>
                    /\ iModels'[run'[r].reusable].exists
                    /\ iModels'[run'[r].reusable].description = "completed"
  <2>1. CASE RunOK(r, run'[r], created') /\ SaysCompleted(run'[r], iModels')
    BY <2>1 DEF SaysCompleted, RunOK
  <2>2. CASE run'[r] = run[r]
    <3>1. RunOK(r, run[r], created) /\ RunOK(r, run[r], created') /\ run[r] \in AnyRun
      BY <1>2, <1>4
    <3>2. run[r].at \in QueryNames => run[r].m \in 1..created
      BY <3>1, <1>2 DEF RunOK, AnyRun, NoIModel
    <3>3. run[r].reusable # NoIModel => run[r].reusable \in 1..created /\ run[r].at = "idle"
      BY <3>1, <1>2 DEF RunOK, AnyRun, NoIModel
    <3>4. ASSUME run[r].reusable # NoIModel, recreates \subseteq {r}
          PROVE  iModels'[run[r].reusable].exists /\ iModels'[run[r].reusable].description = "completed"
      <4>1. \A q \in Runs : run[q].at # "delete"
        BY <1>2, <3>3, <3>4 DEF RunOK
      <4>2. iModels[run[r].reusable].exists /\ iModels[run[r].reusable].description = "completed"
        BY <1>3, <3>4 DEF CompletedInv
      <4>3. run[r].reusable \in Ids
        BY <3>3, <3>4, <1>2, ReusableAssumption DEF Ids
      <4>4. iModels'[run[r].reusable].exists
        BY <4>1, <4>2, <4>3, <1>1
      <4> QED
        BY <4>2, <4>4, <3>3, <3>4, <1>1
    <3>5. run[r].at \in QueryNames /\ iModels'[run[r].m].exists => iModels'[run[r].m].description = "completed"
      BY <3>2, <1>1, <1>3 DEF CompletedInv
    <3> QED
      BY <2>2, <3>1, <3>4, <3>5 DEF RunOK
  <2> QED
    BY <1>5, <2>1, <2>2
<1>6. /\ run' \in [Runs -> AnyRun]
      /\ \A r \in Runs : run'[r] = run[r] \/ (RunOK(r, run'[r], created') /\ SaysCompleted(run'[r], iModels'))
  <2>1. CASE UNCHANGED run
    BY <2>1, <1>2
  <2>2. ASSUME NEW r \in Runs, NEW s, Become(r, s), RunOK(r, s, created'), SaysCompleted(s, iModels')
        PROVE  /\ run' \in [Runs -> AnyRun]
               /\ \A q \in Runs : run'[q] = run[q] \/ (RunOK(q, run'[q], created') /\ SaysCompleted(run'[q], iModels'))
    <3>1. s \in AnyRun
      BY <2>2 DEF RunOK
    <3> QED
      BY <2>2, <3>1, <1>2 DEF Become
  <2> QED
    BY <2>1, <2>2
<1>7. TypeOK'
  BY <1>1, <1>2, <1>6 DEF TypeOK
<1>8. RunInv'
  BY <1>5, <1>6 DEF RunInv
<1>9. CompletedInv'
  BY <1>5, <1>6 DEF CompletedInv
<1> QED
  BY <1>1, <1>7, <1>8, <1>9 DEF ShareInv

-------------------------------------------------------------------------------
(* What the requests of createReusable do.                                 *)

Group == DOMAIN ChangesetGroups

\* Numbers have a least one among them.
LEMMA HasLeast ==
    ASSUME NEW S \in SUBSET Nat, S # {}
    PROVE  \E g \in S : \A h \in S : g <= h
<1>1. PICK R : R = OpToRel(<, Nat)
  OBVIOUS
<1>2. IsWellFoundedOn(R, Nat)
  BY <1>1, NatLessThanWellFounded
<1>3. PICK g \in S : \A h \in S : <<h, g>> \notin R
  BY <1>2, WFMin
<1>4. \A x, y \in Nat : x < y => <<x, y>> \in R
  BY <1>1 DEF OpToRel
<1>5. \A h \in S : h \in Nat /\ g \in Nat /\ ~(h < g)
  BY <1>3, <1>4
<1>6. \A h \in S : g <= h
  BY <1>5
<1> QED
  BY <1>6

\* A changeset has a first group, or none.
LEMMA GroupOfIs ==
    ASSUME NEW c \in Nat
    PROVE  GroupOf(c, InOrder) \in {0} \union Group /\ Group = 1..Len(ChangesetGroups)
<1>1. Group = 1..Len(ChangesetGroups) /\ Len(ChangesetGroups) \in Nat
  BY ReusableAssumption DEF Group
<1>2. PICK mine : mine = {g \in DOMAIN InOrder : c \in ChangesetGroups[InOrder[g]]}
  OBVIOUS
<1>3. mine \subseteq Group
  BY <1>2 DEF InOrder, Group
<1>4. GroupOf(c, InOrder) = IF mine = {} THEN 0 ELSE CHOOSE g \in mine : \A h \in mine : g <= h
  BY <1>2 DEF GroupOf
<1>5. mine # {} => \E g \in mine : \A h \in mine : g <= h
  <2>1. mine \in SUBSET Nat
    BY <1>1, <1>3
  <2> QED
    BY <2>1, HasLeast
<1> QED
  BY <1>1, <1>3, <1>4, <1>5

\* A request leaves an iModel an iModel, and completed if it was.
LEMMA PerformedIsTyped ==
    ASSUME NEW r \in Runs, NEW last, NEW s, RunOK(r, s, last), Sends(s), NEW now \in AnyIModel
    PROVE  /\ Performed(now, s.at, s.done + 1, s.groupIds) \in AnyIModel
           /\ Performed(now, s.at, s.done + 1, s.groupIds).exists = now.exists
           /\ Performed(now, s.at, s.done + 1, s.groupIds).description =
                  IF s.at = "complete" THEN "completed" ELSE now.description
<1>1. s.at \in PartNames \ {"checkpoints"} /\ s \in AnyRun /\ s.done < Requests(s.at)
      /\ Len(s.groupIds) = Answered(s, "groups")
  BY PartsInOrder DEF Sends, RunOK
<1>2. PICK n : n = s.done + 1
  OBVIOUS
<1>3. n \in 1..Requests(s.at) /\ n \in Nat
  BY <1>1, <1>2, RequestsIsNat DEF AnyRun
<1>4. s.groupIds \in Seq(Nat)
  BY <1>1 DEF AnyRun
<1>5. Place(s.at) > 2 => s.groupIds \in [Group -> Nat]
  <2>1. Place("groups") = 2
    BY PartsInOrder
  <2>2. Place(s.at) > 2 => Answered(s, "groups") = Len(ChangesetGroups)
    BY <1>1, <2>1 DEF Answered, Requests
  <2> QED
    BY <1>1, <1>4, <2>2, GroupOfIs
<1>6. PICK after : after = Performed(now, s.at, n, s.groupIds)
  OBVIOUS
<1> DEFINE Kept == /\ after \in AnyIModel /\ after.exists = now.exists
                   /\ after.description = IF s.at = "complete" THEN "completed" ELSE now.description
<1>7. ASSUME s.at = "briefcases" PROVE Kept
  <2>1. after = [now EXCEPT !.briefcases = @ + 1]
    BY <1>6, <1>7 DEF Performed
  <2>2. now.briefcases + 1 \in Nat
    BY DEF AnyIModel
  <2> QED
    BY <1>7, <2>1, <2>2 DEF AnyIModel
<1>8. ASSUME s.at = "groups" PROVE Kept
  <2>1. after = [now EXCEPT !.groups = Append(@, n)]
    BY <1>6, <1>8 DEF Performed
  <2>2. n \in Group
    BY <1>3, <1>8, GroupOfIs DEF Requests
  <2>3. Append(now.groups, n) \in Seq(Group)
    BY <2>2 DEF AnyIModel, Group
  <2> QED
    BY <1>8, <2>1, <2>3 DEF AnyIModel, Group
<1>9. ASSUME s.at = "changesets" PROVE Kept
  <2>1. PICK g : g = GroupOf(n, InOrder)
    OBVIOUS
  <2>2. after = [now EXCEPT !.changesets = Append(@, IF g = 0 THEN 0 ELSE s.groupIds[g])]
    BY <1>6, <1>9, <2>1 DEF Performed
  <2>3. (IF g = 0 THEN 0 ELSE s.groupIds[g]) \in Nat
    BY <1>3, <1>5, <1>9, <2>1, GroupOfIs, PartsInOrder
  <2>4. Append(now.changesets, IF g = 0 THEN 0 ELSE s.groupIds[g]) \in Seq(Nat)
    BY <2>3 DEF AnyIModel
  <2> QED
    BY <1>9, <2>2, <2>4 DEF AnyIModel
<1>10. ASSUME s.at = "completeGroups" PROVE Kept
  <2>1. after = [now EXCEPT !.closed = @ \union {s.groupIds[n]}]
    BY <1>6, <1>10 DEF Performed
  <2>2. n \in Group
    BY <1>3, <1>10, GroupOfIs DEF Requests
  <2>3. s.groupIds[n] \in Nat
    BY <1>5, <1>10, <2>2, PartsInOrder
  <2>4. now.closed \union {s.groupIds[n]} \in SUBSET Nat
    BY <2>3 DEF AnyIModel
  <2> QED
    BY <1>10, <2>1, <2>4 DEF AnyIModel
<1>11. ASSUME s.at = "extendedData" PROVE Kept
  <2>1. after = [now EXCEPT !.extended = Append(@, ExtendedData[n])]
    BY <1>6, <1>11 DEF Performed
  <2>2. ExtendedData[n] \in 1..Changesets
    BY <1>3, <1>11, ReusableAssumption DEF Requests
  <2>3. Append(now.extended, ExtendedData[n]) \in Seq(1..Changesets)
    BY <2>2 DEF AnyIModel
  <2> QED
    BY <1>11, <2>1, <2>3 DEF AnyIModel
<1>12. ASSUME s.at = "namedVersions" PROVE Kept
  <2>1. after = [now EXCEPT !.versions = Append(@, NewNamedVersion(n))]
    BY <1>6, <1>12 DEF Performed
  <2>2. n \in DOMAIN NamedVersions /\ NamedVersions[n] \in 1..Changesets
    BY <1>3, <1>12, ReusableAssumption DEF Requests
  <2>3. PICK V : V = [name : DOMAIN NamedVersions, changeset : 1..Changesets,
                      checkpoint : {"scheduled", "successful", "failed"}]
    OBVIOUS
  <2>4. NewNamedVersion(n) \in V
    BY <2>2, <2>3 DEF NewNamedVersion
  <2>5. now.versions \in Seq(V)
    BY <2>3 DEF AnyIModel
  <2>6. Append(now.versions, NewNamedVersion(n)) \in Seq(V)
    BY <2>4, <2>5
  <2> QED
    BY <1>12, <2>1, <2>3, <2>6 DEF AnyIModel
<1>13. ASSUME s.at = "lock" PROVE Kept
  <2>1. after = [now EXCEPT !.locks = 1]
    BY <1>6, <1>13 DEF Performed, Locked
  <2> QED
    BY <1>13, <2>1 DEF AnyIModel
<1>14. ASSUME s.at = "complete" PROVE Kept
  <2>1. after = [now EXCEPT !.description = "completed"]
    BY <1>6, <1>14 DEF Performed
  <2> QED
    BY <1>14, <2>1 DEF AnyIModel
<1>15. Kept
  BY <1>1, <1>7, <1>8, <1>9, <1>10, <1>11, <1>12, <1>13, <1>14 DEF PartNames
<1> QED
  BY <1>2, <1>6, <1>15

\* What a run sends is done to its iModel.
LEMMA PartGets ==
    ASSUME ShareInv, NEW r \in Runs, PerformPart(run[r])
    PROVE  /\ run[r].m \in Ids /\ run[r].at \in PartNames \ {"checkpoints"} /\ RunOK(r, run[r], created)
           /\ Gets(run[r].m, Performed(iModels[run[r].m], run[r].at, run[r].done + 1, run[r].groupIds))
           /\ Performed(iModels[run[r].m], run[r].at, run[r].done + 1, run[r].groupIds) \in AnyIModel
           /\ run[r].at = "complete" => iModels'[run[r].m].description = "completed"
<1>1. /\ RunOK(r, run[r], created) /\ created \in 0..MaxIModels /\ iModels \in [Ids -> AnyIModel]
      /\ MaxIModels \in Nat
  BY ReusableAssumption DEF ShareInv, RunInv, TypeOK
<1>2. run[r].at \in PartNames \ {"checkpoints"} /\ Sends(run[r]) /\ iModels[run[r].m].exists
  BY PartsInOrder DEF PerformPart, Sends, Refused
<1>3. run[r].m \in Ids
  BY <1>1, <1>2 DEF RunOK, AnyRun, Ids, NoIModel
<1>4. PICK now : now = iModels[run[r].m]
  OBVIOUS
<1>5. now \in AnyIModel
  BY <1>1, <1>3, <1>4
<1>6. PICK after : after = Performed(now, run[r].at, run[r].done + 1, run[r].groupIds)
  OBVIOUS
<1>7. after \in AnyIModel /\ after.exists = now.exists
      /\ after.description = IF run[r].at = "complete" THEN "completed" ELSE now.description
  BY <1>1, <1>2, <1>5, <1>6, PerformedIsTyped
<1>8. iModels' = [iModels EXCEPT ![run[r].m] = after]
  BY <1>4, <1>6 DEF PerformPart
<1> QED
  BY <1>1, <1>2, <1>3, <1>4, <1>6, <1>7, <1>8 DEF Gets

\* Whatever a run sends is a step of the service.
LEMMA PerformIsStep ==
    ASSUME ShareInv, NEW r \in Runs, Perform(r)
    PROVE  ServiceStep
<1>1. CASE run[r].at = "create" /\ PerformCreate
  BY <1>1 DEF ServiceStep
<1>2. CASE run[r].at = "delete" /\ PerformDelete(run[r].m)
  <2>1. run[r].m \in Ids
    <3>1. RunOK(r, run[r], created)
      BY DEF ShareInv, RunInv
    <3> QED
      BY <1>2, <3>1, ReusableAssumption DEF RunOK, AnyRun, Ids, NoIModel
  <2> QED
    BY <1>2, <2>1 DEF PerformDelete, ServiceStep
<1>3. CASE PerformPart(run[r])
  <2>1. UNCHANGED created
    BY <1>3 DEF PerformPart
  <2> QED
    BY <1>3, <2>1, PartGets DEF ServiceStep
<1> QED
  BY <1>1, <1>2, <1>3 DEF Perform

-------------------------------------------------------------------------------
(* Each step keeps ShareInv.                                               *)

\* What a run is that is in the middle of no creation.
LEMMA ElsewhereOK ==
    ASSUME NEW r \in Runs, NEW last, NEW s, RunOK(r, s, last), s.at \notin PartNames,
           NEW t \in AnyRun, t.at \notin PartNames, t.done = 0, t.groupIds = s.groupIds,
           t.m <= last, t.reusable = s.reusable, t.reusable = NoIModel,
           t.at \in QueryNames \union {"delete", "look", "sleep"} => t.m # NoIModel,
           t.at = "delete" => r \in recreates,
           t.at \in {"sleep", "look"} => t.attempts < MaxAttempts
    PROVE  RunOK(r, t, last)
BY DEF RunOK, Answered

\* The next request, or what createReusable returns.
LEMMA FollowingOK ==
    ASSUME NEW r \in Runs, NEW last \in Nat, last <= MaxIModels, NEW s \in AnyRun, s.at \in PartNames,
           s.done < Requests(s.at), s.m # NoIModel, s.m <= last, s.reusable = NoIModel,
           Len(s.groupIds) = Answered(s, "groups") + (IF s.at = "groups" THEN 1 ELSE 0)
    PROVE  RunOK(r, Following(s), last)
<1>1. PICK f : f = Following(s)
  OBVIOUS
<1>2. "groups" \in PartNames /\ s.done \in Nat /\ Requests(s.at) \in Nat \ {0} /\ s.m \in 0..MaxIModels
      /\ \A part \in PartNames : part \notin QueryNames \union {"delete", "look", "sleep", "idle"}
  BY RequestsIsNat DEF PartNames, QueryNames, AnyRun
<1>6. /\ \/ f = [s EXCEPT !.done = s.done + 1] /\ s.done + 1 < Requests(s.at)
         \/ f = [s EXCEPT !.at = Parts[Place(s.at) + 1], !.done = 0] /\ Place(s.at) + 1 \in 1..9
         \/ f.at \notin PartNames
      /\ f.at \in PartNames => Answered(f, "groups") = Len(s.groupIds)
      /\ f.at \notin PartNames => f = [NewRun EXCEPT !.reusable = s.m]
  <2>1. f.at \in PartNames => Answered(f, "groups") = Answered(s, "groups") + (IF s.at = "groups" THEN 1 ELSE 0)
    BY <1>1, <1>2, AnsweredAfter
  <2>2. f.at \notin PartNames => f = [NewRun EXCEPT !.reusable = s.m]
    BY <1>1, AnsweredAfter
  <2>3. CASE s.done + 1 < Requests(s.at)
    BY <1>1, <2>1, <2>2, <2>3, FollowingIs
  <2>4. CASE s.done + 1 = Requests(s.at) /\ s.at # "complete"
    <3>1. Place(s.at) \in 1..9 /\ Place(s.at) # 9
      BY <2>4, FollowingIs
    <3>2. Place(s.at) + 1 \in 1..9
      BY <3>1
    <3> QED
      BY <1>1, <2>1, <2>2, <2>4, <3>2, FollowingIs
  <2>5. CASE s.done + 1 = Requests(s.at) /\ s.at = "complete"
    <3>1. f.at = "idle"
      BY <1>1, <2>5, FollowingIs DEF NewRun
    <3> QED
      BY <2>2, <3>1 DEF PartNames
  <2> QED
    BY <2>3, <2>4, <2>5, FollowingIs
<1>3. CASE f.at \notin PartNames
  <2>1. f = [NewRun EXCEPT !.reusable = s.m]
    BY <1>3, <1>6
  <2>2. s.m \in 0..last
    BY <1>2
  <2> QED
    BY <1>1, <2>1, <2>2, NothingIsTyped
<1>4. ASSUME f.at \in PartNames, f = [s EXCEPT !.done = s.done + 1], s.done + 1 < Requests(s.at)
      PROVE  RunOK(r, f, last)
  <2>1. f \in AnyRun /\ f.at = s.at /\ f.done = s.done + 1 /\ f.m = s.m /\ f.reusable = s.reusable
        /\ f.groupIds = s.groupIds
    <3>1. s.done + 1 \in Nat
      BY <1>2
    <3> QED
      BY <1>4, <3>1 DEF AnyRun
  <2>2. Len(f.groupIds) = Answered(f, "groups")
    BY <1>4, <1>6, <2>1
  <2> QED
    BY <1>2, <1>4, <2>1, <2>2 DEF RunOK, NoIModel
<1>5. ASSUME f.at \in PartNames, f = [s EXCEPT !.at = Parts[Place(s.at) + 1], !.done = 0], Place(s.at) + 1 \in 1..9
      PROVE  RunOK(r, f, last)
  <2>1. f.at = Parts[Place(s.at) + 1] /\ f.done = 0 /\ f.m = s.m /\ f.reusable = s.reusable
        /\ f.groupIds = s.groupIds
    BY <1>5 DEF AnyRun
  <2>2. f \in AnyRun
    BY <1>5, <2>1, PartsInOrder DEF AnyRun
  <2>3. Len(f.groupIds) = Answered(f, "groups")
    BY <1>5, <1>6, <2>1
  <2>4. Requests(f.at) \in Nat \ {0}
    BY <1>5, RequestsIsNat
  <2> QED
    BY <1>2, <1>5, <2>1, <2>2, <2>3, <2>4 DEF RunOK, NoIModel
<1> QED
  BY <1>1, <1>3, <1>4, <1>5, <1>6

\* A run looks for the end of a creation, checks what was created, or gives up.
LEMMA LoopOK ==
    ASSUME ShareInv, NEW r \in Runs, run[r].at \in {"find", "look"}, NEW m \in Ids, iModels[m].exists,
           NEW n \in 0..MaxAttempts
    PROVE  RunOK(r, Loop(run[r], m, n), created) /\ SaysCompleted(Loop(run[r], m, n), iModels)
<1>1. RunOK(r, run[r], created) /\ run[r] \in AnyRun /\ created \in 0..MaxIModels
  BY DEF ShareInv, RunInv, RunOK, TypeOK
<1>2. m <= created /\ m # NoIModel /\ m \in 0..MaxIModels /\ created \in Nat /\ created <= MaxIModels
  BY <1>1, ReusableAssumption DEF ShareInv, NameInv, Ids, NoIModel
<1>3. PICK t : t = Loop(run[r], m, n)
  OBVIOUS
<1>4. CASE n = MaxAttempts
  <2>1. t = NewRun
    BY <1>3, <1>4 DEF Loop, Thrown
  <2> QED
    BY <1>2, <1>3, <2>1, NothingIsTyped DEF SaysCompleted, QueryNames
<1>5. CASE n # MaxAttempts
  <2>1. PICK b : b = IF iModels[m].description = "completed" THEN "queryBriefcases" ELSE "sleep"
    OBVIOUS
  <2>2. t = [run[r] EXCEPT !.m = m, !.attempts = n, !.at = b]
    BY <1>3, <1>5, <2>1 DEF Loop
  <2>3. b \in {"queryBriefcases", "sleep"}
    BY <2>1
  <2>4. t.m = m /\ t.attempts = n /\ t.at = b /\ t.done = run[r].done /\ t.groupIds = run[r].groupIds
        /\ t.reusable = run[r].reusable
    BY <1>1, <2>2 DEF AnyRun
  <2>5. b \in {"idle", "find", "sleep", "look", "delete", "create"} \union {Parts[i] : i \in DOMAIN Parts}
                  \union {Queries[i] : i \in DOMAIN Queries}
    BY <2>3, PartsInOrder DEF QueryNames
  <2>6. t \in AnyRun
    BY <1>1, <1>2, <2>2, <2>5 DEF AnyRun
  <2>7. run[r].at \notin PartNames /\ t.at \notin PartNames /\ t.done = 0 /\ t.reusable = NoIModel
    BY <1>1, <2>3, <2>4 DEF RunOK, PartNames
  <2>8. n < MaxAttempts
    BY <1>5, ReusableAssumption
  <2>9. RunOK(r, t, created)
    BY <1>1, <1>2, <2>3, <2>4, <2>6, <2>7, <2>8, ElsewhereOK
  <2>10. SaysCompleted(t, iModels)
    BY <2>1, <2>4, <2>7 DEF SaysCompleted, QueryNames
  <2> QED
    BY <1>3, <2>9, <2>10
<1> QED
  BY <1>4, <1>5

Waits == [m : Ids, version : DOMAIN NamedVersions, left : Nat]

\* The state of a run, and what else ShareInv says of the state before a step.
LEMMA ShareFacts ==
    ASSUME ShareInv, NEW r \in Runs
    PROVE  /\ RunOK(r, run[r], created) /\ run[r] \in AnyRun /\ run \in [Runs -> AnyRun]
           /\ created \in Nat /\ created <= MaxIModels /\ iModels \in [Ids -> AnyIModel]
           /\ repeated \in BOOLEAN /\ calls \in 0..MaxCalls /\ ends \in 0..MaxEnds
           /\ waits \in [Runs -> SUBSET Waits]
           /\ \A m \in Ids : iModels[m].exists => m <= created
           /\ \A m \in 1..created : m \in Ids
           /\ run[r].at \notin {"idle"} => run[r].reusable = NoIModel
BY ReusableAssumption DEF ShareInv, TypeOK, RunInv, RunOK, NameInv, Ids, Waits

\* A run ends or throws.
LEMMA GivesUp ==
    ASSUME ShareInv, ServiceStep, UNCHANGED recreates, repeated' \in BOOLEAN,
           waits' \in [Runs -> SUBSET Waits], calls' \in 0..MaxCalls, ends' \in 0..MaxEnds,
           NEW r \in Runs, Become(r, NewRun)
    PROVE  ShareInv'
<1>1. created' \in Nat
  BY ServiceKeeps
<1>2. RunOK(r, NewRun, created') /\ SaysCompleted(NewRun, iModels')
  BY <1>1, NothingIsTyped DEF SaysCompleted, QueryNames
<1> QED
  BY <1>2, ShareStep DEF Waits

\* A run goes on to something else than a creation.
LEMMA GoesOn ==
    ASSUME ShareInv, UNCHANGED <<service, recreates, waits, ends>>, calls' \in 0..MaxCalls,
           NEW r \in Runs, run[r].at \notin PartNames, run[r].reusable = NoIModel,
           NEW t \in AnyRun, t.at \notin PartNames \union QueryNames, t.done = 0, t.groupIds = run[r].groupIds,
           t.m <= created, t.reusable = NoIModel, t.at \in {"delete", "look", "sleep"} => t.m # NoIModel,
           t.at = "delete" => r \in recreates, t.at \in {"sleep", "look"} => t.attempts < MaxAttempts,
           Become(r, t)
    PROVE  ShareInv'
<1>1. UNCHANGED <<iModels, created, repeated, recreates, waits, ends>>
  BY DEF service
<1>2. RunOK(r, t, created)
  BY ShareFacts, ElsewhereOK
<1>3. SaysCompleted(t, iModels) /\ ServiceStep
  BY <1>1 DEF SaysCompleted, ServiceStep
<1> QED
  BY <1>1, <1>2, <1>3, ShareFacts, ShareStep DEF Waits

\* No run takes part.
LEMMA ShareUntouched ==
    ASSUME ShareInv, ServiceStep, UNCHANGED <<repeated, recreates, run, waits, calls, ends>>
    PROVE  ShareInv'
<1>1. /\ repeated' \in BOOLEAN /\ calls' \in 0..MaxCalls /\ ends' \in 0..MaxEnds
      /\ waits' \in [Runs -> SUBSET [m : Ids, version : DOMAIN NamedVersions, left : Nat]]
  BY DEF ShareInv, TypeOK
<1> QED
  BY <1>1, ShareStep

\* A run begins to look for the iModel.
LEMMA GetOrCreateStep == ASSUME ShareInv, NEW r \in Runs, GetOrCreate(r) PROVE ShareInv'
<1>1. PICK t : t = [run[r] EXCEPT !.at = "find"]
  OBVIOUS
<1>2. run[r].at = "idle" /\ run[r].reusable = NoIModel /\ calls' \in 0..MaxCalls /\ Become(r, t)
      /\ UNCHANGED <<service, recreates, waits, ends>>
  BY <1>1, ShareFacts, ReusableAssumption DEF GetOrCreate
<1>3. t \in AnyRun /\ t.at = "find" /\ t.done = run[r].done /\ t.groupIds = run[r].groupIds /\ t.m = run[r].m
      /\ t.reusable = run[r].reusable
  BY <1>1, ShareFacts DEF AnyRun
<1>4. t.done = 0 /\ t.m <= created
  BY <1>2, <1>3, ShareFacts DEF RunOK, PartNames
<1> QED
  BY <1>2, <1>3, <1>4, GoesOn DEF PartNames, QueryNames

\* What was found is deleted, waited for or checked.
LEMMA FindStep == ASSUME ShareInv, NEW r \in Runs, Find(r) PROVE ShareInv'
<1>1. /\ run[r].at = "find" /\ run[r].at \notin PartNames /\ run[r].reusable = NoIModel /\ run[r].done = 0
      /\ UNCHANGED <<service, recreates, waits, bounds>> /\ run[r].m <= created
  BY ShareFacts DEF Find, PartNames, RunOK
<1>2. ServiceStep /\ UNCHANGED <<iModels, created, repeated, recreates, waits, calls, ends>>
  BY <1>1 DEF service, bounds, ServiceStep
<1>3. CASE Become(r, [run[r] EXCEPT !.at = "create"])
  <2>1. PICK t : t = [run[r] EXCEPT !.at = "create"]
    OBVIOUS
  <2>2. t \in AnyRun /\ t.at = "create" /\ t.done = run[r].done /\ t.groupIds = run[r].groupIds /\ t.m = run[r].m
        /\ t.reusable = run[r].reusable
    BY <2>1, ShareFacts DEF AnyRun
  <2> QED
    BY <1>1, <1>2, <1>3, <2>1, <2>2, ShareFacts, GoesOn DEF PartNames, QueryNames, bounds
<1>4. ASSUME NEW m \in OfTheName, Deletes(r), Become(r, [run[r] EXCEPT !.at = "delete", !.m = m])
      PROVE  ShareInv'
  <2>1. PICK t : t = [run[r] EXCEPT !.at = "delete", !.m = m]
    OBVIOUS
  <2>2. m \in 0..MaxIModels /\ m # NoIModel /\ m <= created
    BY ShareFacts, ReusableAssumption DEF OfTheName, Ids, NoIModel
  <2>3. t \in AnyRun /\ t.at = "delete" /\ t.done = run[r].done /\ t.groupIds = run[r].groupIds /\ t.m = m
        /\ t.reusable = run[r].reusable
    BY <2>1, <2>2, ShareFacts DEF AnyRun
  <2>4. r \in recreates
    BY <1>4 DEF Deletes
  <2> QED
    BY <1>1, <1>2, <1>4, <2>1, <2>2, <2>3, <2>4, ShareFacts, GoesOn DEF PartNames, QueryNames, bounds
<1>5. ASSUME NEW m \in OfTheName, Become(r, Loop(run[r], m, 0))
      PROVE  ShareInv'
  <2>1. m \in Ids /\ iModels[m].exists /\ 0 \in 0..MaxAttempts
    BY ReusableAssumption DEF OfTheName
  <2>2. RunOK(r, Loop(run[r], m, 0), created) /\ SaysCompleted(Loop(run[r], m, 0), iModels)
    BY <1>1, <2>1, LoopOK
  <2> QED
    BY <1>2, <1>5, <2>2, ShareFacts, ShareStep DEF Waits
<1> QED
  BY <1>3, <1>4, <1>5 DEF Find

\* The run is about to look again.
LEMMA SleepStep == ASSUME ShareInv, NEW r \in Runs, Sleep(r) PROVE ShareInv'
<1>1. PICK t : t = [run[r] EXCEPT !.at = "look"]
  OBVIOUS
<1>2. run[r].at = "sleep" /\ Become(r, t) /\ UNCHANGED <<service, recreates, waits, calls, ends>>
  BY <1>1 DEF Sleep, bounds
<1>3. t \in AnyRun /\ t.at = "look" /\ t.done = run[r].done /\ t.groupIds = run[r].groupIds /\ t.m = run[r].m
      /\ t.reusable = run[r].reusable /\ t.attempts = run[r].attempts
  BY <1>1, ShareFacts DEF AnyRun
<1>4. t.done = 0 /\ t.m <= created /\ t.m # NoIModel /\ t.attempts < MaxAttempts /\ t.reusable = NoIModel
  BY <1>2, <1>3, ShareFacts DEF RunOK, PartNames
<1> QED
  BY <1>2, <1>3, <1>4, ShareFacts, GoesOn DEF PartNames, QueryNames

\* A look may be the last, or show a completed iModel.
LEMMA LookStep == ASSUME ShareInv, NEW r \in Runs, Look(r) PROVE ShareInv'
<1>1. /\ run[r].at = "look" /\ iModels[run[r].m].exists
      /\ Become(r, Loop(run[r], run[r].m, run[r].attempts + 1))
      /\ ServiceStep /\ UNCHANGED <<iModels, created, repeated, recreates, waits, calls, ends>>
  BY DEF Look, service, bounds, ServiceStep
<1>2. run[r].m \in Ids /\ run[r].attempts < MaxAttempts /\ run[r].attempts \in 0..MaxAttempts
  BY <1>1, ShareFacts, ReusableAssumption DEF RunOK, AnyRun, Ids, NoIModel
<1>3. run[r].attempts + 1 \in 0..MaxAttempts
  BY <1>2, ReusableAssumption
<1>4. PICK t : t = Loop(run[r], run[r].m, run[r].attempts + 1)
  OBVIOUS
<1>5. RunOK(r, t, created) /\ SaysCompleted(t, iModels)
  BY <1>1, <1>2, <1>3, <1>4, LoopOK
<1> QED
  BY <1>1, <1>4, <1>5, ShareFacts, ShareStep DEF Waits

\* The iModel is gone, for every run that had it in hand.
LEMMA DeleteStep == ASSUME ShareInv, NEW r \in Runs, Delete(r) PROVE ShareInv'
<1>1. /\ run[r].at = "delete" /\ UNCHANGED <<repeated, recreates, waits, calls, ends>>
      /\ Become(r, [run[r] EXCEPT !.at = "create", !.m = NoIModel])
  BY DEF Delete, bounds
<1>2. ServiceStep /\ UNCHANGED created
  <2>1. Perform(r)
    BY DEF Delete, Perform
  <2> QED
    BY <2>1, PerformIsStep DEF Delete, PerformDelete
<1>3. PICK t : t = [run[r] EXCEPT !.at = "create", !.m = NoIModel]
  OBVIOUS
<1>4. t \in AnyRun /\ t.at = "create" /\ t.done = run[r].done /\ t.groupIds = run[r].groupIds /\ t.m = 0
      /\ t.reusable = run[r].reusable
  <2>1. 0 \in 0..MaxIModels /\ NoIModel = 0
    BY ReusableAssumption DEF NoIModel
  <2> QED
    BY <1>3, <2>1, ShareFacts DEF AnyRun
<1>5. run[r].at \notin PartNames /\ t.done = 0 /\ t.m <= created /\ t.reusable = NoIModel
  BY <1>1, <1>4, ShareFacts DEF RunOK, PartNames
<1>6. RunOK(r, t, created)
  BY <1>4, <1>5, ShareFacts, ElsewhereOK DEF PartNames, QueryNames
<1>7. SaysCompleted(t, iModels')
  BY <1>4, <1>5 DEF SaysCompleted, QueryNames
<1> QED
  BY <1>1, <1>2, <1>3, <1>6, <1>7, ShareFacts, ShareStep DEF Waits

\* The new iModel has an id that no run has in hand.
LEMMA CreateStep == ASSUME ShareInv, NEW r \in Runs, Create(r) PROVE ShareInv'
<1>1. /\ run[r].at = "create" /\ PerformCreate /\ UNCHANGED <<repeated, recreates, waits, calls, ends>>
      /\ Become(r, [run[r] EXCEPT !.at = Parts[1], !.m = created + 1])
  BY DEF Create, bounds
<1>2. ServiceStep /\ created' = created + 1 /\ created' \in Nat /\ created' <= MaxIModels /\ created' # 0
  BY <1>1, ShareFacts, ReusableAssumption DEF ServiceStep, PerformCreate
<1>3. PICK t : t = [run[r] EXCEPT !.at = Parts[1], !.m = created + 1]
  OBVIOUS
<1>4. Parts[1] = "briefcases" /\ Place("briefcases") = 1 /\ Place("groups") = 2 /\ Requests("briefcases") \in Nat \ {0}
      /\ Parts[1] \in {Parts[i] : i \in DOMAIN Parts}
  BY PartsInOrder, RequestsIsNat DEF Parts, PartNames
<1>5. created + 1 \in 0..MaxIModels
  BY <1>2, ShareFacts, ReusableAssumption
<1>6. t \in AnyRun /\ t.at = "briefcases" /\ t.done = run[r].done /\ t.groupIds = run[r].groupIds
      /\ t.m = created + 1 /\ t.reusable = run[r].reusable
  BY <1>3, <1>4, <1>5, ShareFacts DEF AnyRun
<1>7. run[r].at \notin PartNames /\ run[r].done = 0 /\ run[r].reusable = NoIModel /\ Len(run[r].groupIds) = 0
  BY <1>1, ShareFacts DEF RunOK, PartNames, Answered
<1>8. RunOK(r, t, created')
  <2>1. Answered(t, "groups") = 0
    BY <1>4, <1>6 DEF Answered, PartNames
  <2> QED
    BY <1>2, <1>4, <1>6, <1>7, <2>1 DEF RunOK, PartNames, QueryNames, NoIModel
<1>9. SaysCompleted(t, iModels')
  BY <1>6, <1>7 DEF SaysCompleted, QueryNames
<1> QED
  BY <1>1, <1>2, <1>3, <1>8, <1>9, ShareFacts, ShareStep DEF Waits

\* The run that sent a part with what it got for it: the id of a new group.
Got(r, s) == IF s.at # "groups" THEN s ELSE [s EXCEPT !.groupIds = Append(@, Len(iModels'[s.m].groups))]

\* The ids a run has are those of the groups whose creation was answered.
LEMMA GotIs ==
    ASSUME ShareInv, NEW r \in Runs, PerformPart(run[r])
    PROVE  /\ Got(r, run[r]) \in AnyRun /\ Got(r, run[r]).at = run[r].at /\ Got(r, run[r]).done = run[r].done
           /\ Got(r, run[r]).m = run[r].m /\ Got(r, run[r]).reusable = run[r].reusable
           /\ Got(r, run[r]).attempts = run[r].attempts
           /\ Len(Got(r, run[r]).groupIds) = Answered(run[r], "groups") + (IF run[r].at = "groups" THEN 1 ELSE 0)
           /\ Answered(Got(r, run[r]), "groups") = Answered(run[r], "groups")
           /\ run[r].at = "groups" =>
                  Got(r, run[r]).groupIds = Append(run[r].groupIds, Len(iModels'[run[r].m].groups))
           /\ run[r].at # "groups" => Got(r, run[r]) = run[r]
<1>1. RunOK(r, run[r], created) /\ run[r] \in AnyRun /\ run[r].m \in Ids
  BY ShareFacts, PartGets
<1>2. PICK k : k = Len(iModels'[run[r].m].groups)
  OBVIOUS
<1>3. k \in Nat
  <2>1. iModels' \in [Ids -> AnyIModel]
    BY PartGets, ShareFacts DEF Gets
  <2>2. iModels'[run[r].m].groups \in Seq(DOMAIN ChangesetGroups)
    BY <1>1, <2>1 DEF AnyIModel
  <2> QED
    BY <1>2, <2>2
<1>4. CASE run[r].at # "groups"
  <2>1. Got(r, run[r]) = run[r]
    BY <1>4 DEF Got
  <2>2. Answered(run[r], "groups") \in Nat
    BY <1>1 DEF RunOK, AnyRun
  <2> QED
    BY <1>1, <1>4, <2>1, <2>2 DEF RunOK
<1>5. CASE run[r].at = "groups"
  <2>1. PICK t : t = Got(r, run[r])
    OBVIOUS
  <2>2. t = [run[r] EXCEPT !.groupIds = Append(run[r].groupIds, k)]
    BY <1>2, <1>5, <2>1 DEF Got
  <2>3. run[r].groupIds \in Seq(Nat) /\ Append(run[r].groupIds, k) \in Seq(Nat)
        /\ Len(Append(run[r].groupIds, k)) = Len(run[r].groupIds) + 1
    BY <1>1, <1>3 DEF AnyRun
  <2>4. t \in AnyRun /\ t.at = run[r].at /\ t.done = run[r].done /\ t.m = run[r].m /\ t.reusable = run[r].reusable
        /\ t.groupIds = Append(run[r].groupIds, k) /\ t.attempts = run[r].attempts
    BY <1>1, <2>2, <2>3 DEF AnyRun
  <2>5. Answered(t, "groups") = Answered(run[r], "groups")
    BY <2>4 DEF Answered
  <2> QED
    BY <1>1, <1>2, <1>5, <2>1, <2>3, <2>4, <2>5 DEF RunOK
<1> QED
  BY <1>4, <1>5

\* The answer to the last part is what getOrCreate returns.
LEMMA PartStep == ASSUME ShareInv, NEW r \in Runs, Part(r) PROVE ShareInv'
<1>1. /\ PerformPart(run[r]) /\ UNCHANGED <<repeated, recreates, calls, ends>>
      /\ Become(r, Following(Got(r, run[r])))
  BY DEF Part, bounds, Got
<1>2. ServiceStep /\ UNCHANGED created
  BY <1>1, PerformIsStep DEF Perform, PerformPart
<1>3. PICK s : s = Got(r, run[r])
  OBVIOUS
<1>4. /\ run[r].at \in PartNames /\ run[r].m \in Ids /\ run[r].done < Requests(run[r].at)
      /\ run[r].m # NoIModel /\ run[r].m <= created /\ run[r].reusable = NoIModel
  BY <1>1, PartGets DEF RunOK, PartNames
<1>5. /\ s \in AnyRun /\ s.at = run[r].at /\ s.done = run[r].done /\ s.m = run[r].m /\ s.reusable = run[r].reusable
      /\ Len(s.groupIds) = Answered(s, "groups") + (IF s.at = "groups" THEN 1 ELSE 0)
  BY <1>1, <1>3, GotIs
<1>6. RunOK(r, Following(s), created)
  BY <1>4, <1>5, ShareFacts, FollowingOK
<1>7. SaysCompleted(Following(s), iModels')
  <2>1. CASE Following(s).at \in PartNames
    <3>1. Following(s).reusable = NoIModel /\ Following(s).at \notin QueryNames
      BY <1>6, <2>1 DEF RunOK, PartNames, QueryNames
    <3> QED
      BY <3>1 DEF SaysCompleted
  <2>2. CASE Following(s).at \notin PartNames
    <3>1. Following(s) = [NewRun EXCEPT !.reusable = s.m] /\ s.at = "complete"
      BY <1>4, <1>5, <2>2, AnsweredAfter
    <3>2. Following(s).reusable = run[r].m /\ Following(s).at = "idle"
      BY <1>5, <3>1 DEF NewRun
    <3>3. iModels'[run[r].m].exists
      BY <1>1, <1>4, PartGets, ShareFacts DEF Gets
    <3>4. iModels'[run[r].m].description = "completed"
      BY <1>1, <1>5, <3>1, PartGets
    <3> QED
      BY <3>2, <3>3, <3>4 DEF SaysCompleted, QueryNames
  <2> QED
    BY <2>1, <2>2
<1>8. waits' \in [Runs -> SUBSET Waits]
  <2>1. PICK w : w = [m |-> run[r].m, version |-> run[r].done + 1, left |-> MaxCheckpointPolls]
    OBVIOUS
  <2>2. waits' = IF run[r].at # "namedVersions" THEN waits ELSE [waits EXCEPT ![r] = @ \union {w}]
    BY <2>1 DEF Part
  <2>3. run[r].at = "namedVersions" => run[r].done + 1 \in DOMAIN NamedVersions
    BY <1>4, ShareFacts, ReusableAssumption DEF Requests, AnyRun
  <2>4. run[r].at = "namedVersions" => w \in Waits
    BY <1>4, <2>1, <2>3, ReusableAssumption DEF Waits
  <2> QED
    BY <2>2, <2>4, ShareFacts
<1> QED
  BY <1>1, <1>2, <1>3, <1>6, <1>7, <1>8, ShareFacts, ShareStep DEF Waits

\* Nothing is sent for the checkpoints.
LEMMA AllGeneratedStep == ASSUME ShareInv, NEW r \in Runs, AllGenerated(r) PROVE ShareInv'
<1>1. /\ run[r].at = "checkpoints" /\ Become(r, Following(run[r])) /\ ServiceStep
      /\ UNCHANGED <<iModels, created, repeated, recreates, waits, calls, ends>>
  BY DEF AllGenerated, service, bounds, ServiceStep
<1>2. /\ run[r].at \in PartNames /\ run[r].done < Requests(run[r].at) /\ run[r].m # NoIModel
      /\ run[r].m <= created /\ run[r].reusable = NoIModel
      /\ Len(run[r].groupIds) = Answered(run[r], "groups") /\ Len(run[r].groupIds) \in Nat
  BY <1>1, ShareFacts DEF RunOK, PartNames, AnyRun
<1>3. Len(run[r].groupIds) = Answered(run[r], "groups") + (IF run[r].at = "groups" THEN 1 ELSE 0)
  BY <1>1, <1>2
<1>4. RunOK(r, Following(run[r]), created)
  BY <1>2, <1>3, ShareFacts, FollowingOK
<1>5. Following(run[r]).at \in PartNames
  BY <1>1, <1>2, ShareFacts, AnsweredAfter
<1>6. SaysCompleted(Following(run[r]), iModels)
  BY <1>4, <1>5 DEF SaysCompleted, RunOK, PartNames, QueryNames
<1> QED
  BY <1>1, <1>4, <1>6, ShareFacts, ShareStep DEF Waits

\* What a run checks was completed when it found it, and still is if it is there.
LEMMA QueryStep == ASSUME ShareInv, NEW r \in Runs, Query(r) PROVE ShareInv'
<1>1. ServiceStep /\ UNCHANGED <<iModels, created, repeated, recreates, waits, calls, ends>>
  BY DEF Query, service, bounds, ServiceStep
<1>2. PICK i \in DOMAIN Queries :
          /\ run[r].at = Queries[i] /\ iModels[run[r].m].exists
          /\ Become(r, IF ~Expected(iModels[run[r].m], Queries[i]) THEN Thrown(run[r])
                       ELSE IF i = Len(Queries) THEN Returned(run[r], run[r].m)
                       ELSE [run[r] EXCEPT !.at = Queries[i + 1]])
  BY DEF Query
<1>3. /\ run[r].at \in QueryNames /\ run[r].at \notin PartNames /\ run[r].m # NoIModel
      /\ run[r].m \in Ids /\ run[r].reusable = NoIModel /\ run[r].done = 0 /\ run[r].m <= created
      /\ run[r].m \in 0..created
  <2>1. run[r].at \in QueryNames
    BY <1>2, PartsInOrder
  <2>2. run[r].at \notin PartNames /\ run[r].at # "idle"
    BY <2>1 DEF PartNames, QueryNames
  <2>3. run[r].m # NoIModel /\ run[r].done = 0 /\ run[r].m <= created /\ run[r].reusable = NoIModel
    BY <2>1, <2>2, ShareFacts DEF RunOK
  <2>4. run[r].m \in 0..MaxIModels /\ created \in Nat
    BY ShareFacts DEF AnyRun
  <2>5. run[r].m \in Ids /\ run[r].m \in 0..created
    BY <2>3, <2>4, ReusableAssumption DEF Ids, NoIModel
  <2> QED
    BY <2>1, <2>2, <2>3, <2>5
<1>4. iModels[run[r].m].exists /\ iModels[run[r].m].description = "completed"
  BY <1>2, <1>3 DEF ShareInv, CompletedInv
<1>5. CASE ~Expected(iModels[run[r].m], Queries[i])
  <2>1. Become(r, NewRun)
    BY <1>2, <1>5 DEF Thrown
  <2> QED
    BY <1>1, <2>1, ShareFacts, GivesUp
<1>6. CASE Expected(iModels[run[r].m], Queries[i]) /\ i = Len(Queries)
  <2>1. PICK t : t = [NewRun EXCEPT !.reusable = run[r].m]
    OBVIOUS
  <2>2. Become(r, t)
    BY <1>2, <1>6, <2>1 DEF Returned
  <2>3. RunOK(r, t, created)
    BY <1>3, <2>1, ShareFacts, NothingIsTyped
  <2>4. t.at = "idle" /\ t.reusable = run[r].m
    BY <2>1 DEF NewRun
  <2>5. SaysCompleted(t, iModels)
    BY <1>4, <2>4 DEF SaysCompleted, QueryNames
  <2> QED
    BY <1>1, <2>2, <2>3, <2>5, ShareFacts, ShareStep DEF Waits
<1>7. CASE Expected(iModels[run[r].m], Queries[i]) /\ i # Len(Queries)
  <2>1. PICK t : t = [run[r] EXCEPT !.at = Queries[i + 1]]
    OBVIOUS
  <2>2. Become(r, t)
    BY <1>2, <1>7, <2>1
  <2>3. i + 1 \in DOMAIN Queries
    BY <1>7 DEF Queries
  <2>4. Queries[i + 1] \in QueryNames
    BY <2>3, PartsInOrder
  <2>5. t \in AnyRun
    BY <2>1, <2>3, ShareFacts DEF AnyRun
  <2>6. /\ t.at \in QueryNames /\ t.done = run[r].done /\ t.groupIds = run[r].groupIds /\ t.m = run[r].m
        /\ t.reusable = run[r].reusable
    BY <2>1, <2>4, ShareFacts DEF AnyRun
  <2>7. t.at \notin PartNames \union {"delete", "look", "sleep"}
    BY <2>6 DEF PartNames, QueryNames
  <2>8. RunOK(r, t, created)
    BY <1>3, <2>5, <2>6, <2>7, ShareFacts, ElsewhereOK
  <2>9. SaysCompleted(t, iModels)
    BY <1>3, <1>4, <2>6 DEF SaysCompleted
  <2> QED
    BY <1>1, <2>2, <2>8, <2>9, ShareFacts, ShareStep DEF Waits
<1> QED
  BY <1>5, <1>6, <1>7

\* The request may have been performed though the run gives up.
LEMMA FailsStep == ASSUME ShareInv, NEW r \in Runs, Fails(r) PROVE ShareInv'
<1>1. Become(r, NewRun) /\ UNCHANGED <<repeated, recreates, waits, calls, ends>>
  BY DEF Fails, Thrown, bounds
<1>2. ServiceStep
  BY PerformIsStep DEF Fails, ServiceStep
<1> QED
  BY <1>1, <1>2, ShareFacts, GivesUp

\* The service performs a request twice.
LEMMA RepeatStep == ASSUME ShareInv, NEW r \in Runs, Repeat(r) PROVE ShareInv'
<1>1. repeated' = TRUE /\ UNCHANGED <<recreates, run, waits, calls, ends>> /\ ServiceStep
  BY PerformIsStep DEF Repeat, bounds
<1> QED
  BY <1>1, ShareFacts, ShareStep DEF Waits

\* Waits end with their run.
LEMMA EndedStep == ASSUME ShareInv, NEW r \in Runs, Ended(r) PROVE ShareInv'
<1>1. /\ Become(r, NewRun) /\ ServiceStep /\ UNCHANGED <<repeated, recreates, calls>>
      /\ waits' = [waits EXCEPT ![r] = {}] /\ ends < MaxEnds /\ ends' = ends + 1
  BY DEF Ended, service, ServiceStep
<1>2. waits' \in [Runs -> SUBSET Waits] /\ ends' \in 0..MaxEnds
  BY <1>1, ShareFacts, ReusableAssumption
<1> QED
  BY <1>1, <1>2, ShareFacts, GivesUp

\* A wait has looked.
LEMMA WaitStep == ASSUME ShareInv, NEW r \in Runs, NEW w \in waits[r], Wait(r, w) PROVE ShareInv'
<1>1. /\ ServiceStep /\ UNCHANGED <<repeated, recreates, run, calls, ends>>
      /\ \/ waits' = [waits EXCEPT ![r] = @ \ {w}]
         \/ w.left > 1 /\ waits' = [waits EXCEPT ![r] = (@ \ {w}) \union {[w EXCEPT !.left = @ - 1]}]
  BY DEF Wait, service, bounds, ServiceStep
<1>2. w \in Waits
  BY ShareFacts
<1>3. w.left > 1 => [w EXCEPT !.left = @ - 1] \in Waits
  <2>1. w.left > 1 => w.left - 1 \in Nat
    BY <1>2 DEF Waits
  <2> QED
    BY <1>2, <2>1 DEF Waits
<1>4. waits' \in [Runs -> SUBSET Waits]
  BY <1>1, <1>3, ShareFacts
<1> QED
  BY <1>1, <1>4, ShareFacts, ShareStep DEF Waits

\* A failed wait ends its run, or the process.
LEMMA WaitFailsStep == ASSUME ShareInv, NEW r \in Runs, NEW w \in waits[r], WaitFails(r, w) PROVE ShareInv'
<1>1. CASE Ended(r)
  BY <1>1, EndedStep
<1>2. CASE ~Ended(r)
  <2>1. /\ Become(r, NewRun) /\ ServiceStep /\ UNCHANGED <<repeated, recreates, calls, ends>>
        /\ waits' = [waits EXCEPT ![r] = {}]
    BY <1>2 DEF WaitFails, Thrown, service, bounds, ServiceStep
  <2>2. waits' \in [Runs -> SUBSET Waits]
    BY <2>1, ShareFacts
  <2> QED
    BY <2>1, <2>2, ShareFacts, GivesUp
<1> QED
  BY <1>1, <1>2

\* What the generation of a checkpoint leaves of an iModel.
LEMMA GeneratedGets ==
    ASSUME ShareInv, NEW m \in Ids, CheckpointGenerated(m)
    PROVE  \E i \in DOMAIN iModels[m].versions : \E state \in {"successful", "failed"} : \E now \in AnyIModel :
               /\ Gets(m, now) /\ iModels[m].versions[i].checkpoint = "scheduled"
               /\ now = [iModels[m] EXCEPT !.versions = [@ EXCEPT ![i].checkpoint = state]]
<1>1. PICK i \in DOMAIN iModels[m].versions, state \in {"successful", "failed"} :
          /\ iModels[m].versions[i].checkpoint = "scheduled"
          /\ iModels' = [iModels EXCEPT ![m].versions[i].checkpoint = state]
  BY DEF CheckpointGenerated
<1>2. iModels \in [Ids -> AnyIModel] /\ iModels[m] \in AnyIModel
  BY DEF ShareInv, TypeOK
<1>3. PICK now : now = [iModels[m] EXCEPT !.versions = [@ EXCEPT ![i].checkpoint = state]]
  OBVIOUS
<1>4. iModels' = [iModels EXCEPT ![m] = now]
  BY <1>1, <1>2, <1>3
<1>5. [iModels[m].versions EXCEPT ![i].checkpoint = state]
          \in Seq([name : DOMAIN NamedVersions, changeset : 1..Changesets,
                   checkpoint : {"scheduled", "successful", "failed"}])
  <2>1. PICK V : V = [name : DOMAIN NamedVersions, changeset : 1..Changesets,
                      checkpoint : {"scheduled", "successful", "failed"}]
    OBVIOUS
  <2>2. iModels[m].versions \in Seq(V) /\ iModels[m].versions[i] \in V
    <3>1. iModels[m].versions \in Seq(V)
      BY <1>2, <2>1 DEF AnyIModel
    <3> QED
      BY <3>1
  <2>3. [iModels[m].versions[i] EXCEPT !.checkpoint = state] \in V
    BY <2>1, <2>2
  <2>4. PICK v : v = [iModels[m].versions[i] EXCEPT !.checkpoint = state]
    OBVIOUS
  <2>5. [iModels[m].versions EXCEPT ![i].checkpoint = state] = [iModels[m].versions EXCEPT ![i] = v]
    BY <2>4
  <2>6. [iModels[m].versions EXCEPT ![i] = v] \in Seq(V)
    BY <2>2, <2>3, <2>4
  <2> QED
    BY <2>1, <2>5, <2>6
<1>6. now \in AnyIModel /\ now.exists = iModels[m].exists /\ now.description = iModels[m].description
  BY <1>2, <1>3, <1>5 DEF AnyIModel
<1>7. iModels[m].exists
  <2>1. ~iModels[m].exists => iModels[m] = Nothing
    BY DEF ShareInv, NameInv
  <2>2. i \in DOMAIN iModels[m].versions
    OBVIOUS
  <2> QED
    BY <2>1, <2>2, NothingIsTyped
<1>8. Gets(m, now)
  BY <1>4, <1>6, <1>7 DEF Gets
<1> QED
  BY <1>1, <1>3, <1>6, <1>8

\* The generation of a checkpoint completes no iModel.
LEMMA CheckpointGeneratedStep == ASSUME ShareInv, NEW m \in Ids, CheckpointGenerated(m) PROVE ShareInv'
<1>1. UNCHANGED <<created, repeated, recreates, run, waits, calls, ends>>
  BY DEF CheckpointGenerated, bounds
<1>2. ServiceStep
  BY <1>1, GeneratedGets DEF ServiceStep
<1> QED
  BY <1>1, <1>2, ShareUntouched

\* At first there is no iModel, and no run asks for one.
LEMMA ShareInit == Init => ShareInv
<1>1. SUFFICES ASSUME Init PROVE ShareInv
  OBVIOUS
<1>2. \A r \in Runs : run[r] = NewRun /\ waits[r] = {}
  BY <1>1 DEF Init
<1>3. \A m \in Ids : iModels[m] = Nothing
  BY <1>1 DEF Init
<1>4. TypeOK
  <2>1. iModels \in [Ids -> AnyIModel]
    BY <1>1, NothingIsTyped DEF Init
  <2>2. NewRun \in AnyRun
    <3>1. 0 \in 0..MaxIModels /\ 0 \in 0..MaxAttempts /\ <<>> \in Seq(Nat)
      BY ReusableAssumption
    <3> QED
      BY <3>1 DEF NewRun, AnyRun, NoIModel
  <2>3. run \in [Runs -> AnyRun]
    BY <1>1, <2>2 DEF Init
  <2>4. created \in 0..MaxIModels /\ calls \in 0..MaxCalls /\ ends \in 0..MaxEnds
    BY <1>1, ReusableAssumption DEF Init
  <2> QED
    BY <1>1, <2>1, <2>3, <2>4 DEF TypeOK, Init
<1>5. RunInv
  BY <1>1, <1>2, NothingIsTyped DEF RunInv, Init
<1>6. NameInv
  BY <1>3, NothingIsTyped DEF NameInv
<1>7. CompletedInv
  BY <1>2, NothingIsTyped DEF CompletedInv, QueryNames
<1> QED
  BY <1>4, <1>5, <1>6, <1>7 DEF ShareInv

\* Every step keeps ShareInv.
LEMMA ShareNext == ShareInv /\ [Next]_vars => ShareInv'
<1>1. SUFFICES ASSUME ShareInv, [Next]_vars PROVE ShareInv'
  OBVIOUS
<1>2. CASE UNCHANGED vars
  <2>1. UNCHANGED <<iModels, created, repeated, recreates, run, waits, calls, ends>>
    BY <1>2 DEF vars, service, bounds
  <2> QED
    BY <1>1, <2>1, ShareUntouched DEF ServiceStep
<1>3. CASE Next
  BY <1>1, <1>3, GetOrCreateStep, FindStep, SleepStep, LookStep, DeleteStep, CreateStep, PartStep,
     AllGeneratedStep, QueryStep, FailsStep, WaitStep, WaitFailsStep, RepeatStep, EndedStep,
     CheckpointGeneratedStep
     DEF Next, Proceed
<1> QED
  BY <1>1, <1>2, <1>3

\* However runs interleave, end and repeat requests, there is one iModel of the name at most, a run
\* that sends something has an iModel for it, and what a run checks or has been given says
\* that it is completed.
THEOREM ShareInvariant == Spec => []ShareInv
<1> QED
  BY ShareInit, ShareNext, PTL DEF Spec

\* Every variable of ReusableTestIModel keeps its type.
THEOREM TypeCorrect == Spec => []TypeOK
<1>1. ShareInv => TypeOK
  BY DEF ShareInv
<1> QED
  BY <1>1, ShareInvariant, PTL

\* RunsShareOne: what getOrCreate has returned is the one iModel of the name and is completed,
\* unless another run recreates it.
THEOREM SharedIsOne == Spec => []RunsShareOne
<1>1. ShareInv => RunsShareOne
  <2>1. SUFFICES ASSUME ShareInv, NEW r \in Runs, run[r].reusable # NoIModel, recreates \subseteq {r}
                 PROVE  /\ OfTheName = {run[r].reusable}
                        /\ iModels[run[r].reusable].description = "completed"
    BY DEF RunsShareOne
  <2>2. iModels[run[r].reusable].exists /\ iModels[run[r].reusable].description = "completed"
    BY <2>1 DEF ShareInv, CompletedInv
  <2>3. run[r].reusable \in Ids
    BY <2>1, ShareFacts, ReusableAssumption DEF AnyRun, Ids, NoIModel
  <2> QED
    BY <2>1, <2>2, <2>3 DEF OfTheName, ShareInv, NameInv
<1> QED
  BY <1>1, ShareInvariant, PTL

-------------------------------------------------------------------------------
(* What is created whole: what each request finds done by those before it, *)
(* as long as none was performed twice.                                    *)

\* How many requests of each part have been answered to a run, and all of them.
Sent(s) == [part \in PartNames |-> Answered(s, part)]
SentOneMore(s) == [Sent(s) EXCEPT ![s.at] = s.done + 1]
AllSent == [part \in PartNames |-> Requests(part)]

\* The first ids of groups there are.
Numbered(k) == [g \in 1..k |-> g]

\* What n[part] requests of each part have made of an iModel.
Holds(now, n) ==
    /\ now.briefcases = n["briefcases"]
    /\ now.groups = Numbered(n["groups"])
    /\ now.changesets = [c \in 1..n["changesets"] |-> GroupOf(c, InOrder)]
    /\ now.closed = 1..n["completeGroups"]
    /\ now.extended = [i \in 1..n["extendedData"] |-> ExtendedData[i]]
    /\ Len(now.versions) = n["namedVersions"]
    /\ \A i \in DOMAIN now.versions : now.versions[i].name = i /\ now.versions[i].changeset = NamedVersions[i]
    /\ now.locks = n["lock"]

\* Every named version has its checkpoint, or the run that made it waits for it.
CheckpointsOK(s, ws, now) ==
    \A i \in DOMAIN now.versions :
        \/ now.versions[i].checkpoint = "successful"
        \/ /\ Place(s.at) <= Place("checkpoints")
           /\ \E w \in ws : w.m = s.m /\ w.version = i

\* The iModel of a run that creates it, if no other run has deleted it.
CreationOK(s, ws, now) ==
    s.at \in PartNames /\ now.exists =>
        /\ now.description = "inProgress"
        /\ Holds(now, Sent(s))
        /\ s.groupIds = Numbered(Answered(s, "groups"))
        /\ CheckpointsOK(s, ws, now)

CompletedOK(now) ==
    now.description = "completed" =>
        /\ Holds(now, AllSent)
        /\ \A i \in DOMAIN now.versions : now.versions[i].checkpoint = "successful"

\* An iModel is created by one run.
OwnerInv ==
    \A r, q \in Runs : run[r].at \in PartNames /\ run[q].at \in PartNames /\ run[r].m = run[q].m => r = q

PartsInv ==
    ~repeated =>
        /\ OwnerInv
        /\ \A r \in Runs : CreationOK(run[r], waits[r], iModels[run[r].m])
        /\ \A m \in Ids : CompletedOK(iModels[m])

\* Counting one more request.
LEMMA SentIs ==
    ASSUME NEW s \in AnyRun, s.at \in PartNames, s.done < Requests(s.at)
    PROVE  /\ \A part \in PartNames : Sent(s)[part] = Answered(s, part) /\ AllSent[part] = Requests(part)
           /\ \A part \in PartNames : Answered(s, part) \in 0..Requests(part) /\ Requests(part) \in Nat \ {0}
           /\ \A part \in PartNames : Place(part) < Place(s.at) => Answered(s, part) = Requests(part)
           /\ Answered(s, s.at) = s.done /\ s.done \in Nat
<1>1. \A part \in PartNames : Requests(part) \in Nat \ {0} /\ Place(part) \in 1..9
  BY RequestsIsNat, PartsInOrder DEF PartNames
<1> QED
  BY <1>1, AnsweredAfter DEF Sent, AllSent, Answered, AnyRun


\* A request of createReusable does once more what its part does.
LEMMA PartMakes ==
    ASSUME NEW r \in Runs, NEW last, NEW s, RunOK(r, s, last), Sends(s), NEW now \in AnyIModel,
           Holds(now, Sent(s)), s.groupIds = Numbered(Answered(s, "groups"))
    PROVE  /\ Holds(Performed(now, s.at, s.done + 1, s.groupIds), SentOneMore(s))
           /\ s.at = "groups" => Len(Performed(now, s.at, s.done + 1, s.groupIds).groups) = s.done + 1
           /\ s.at # "namedVersions" => Performed(now, s.at, s.done + 1, s.groupIds).versions = now.versions
           /\ s.at = "namedVersions" =>
                  Performed(now, s.at, s.done + 1, s.groupIds).versions = Append(now.versions, NewNamedVersion(s.done + 1))
           /\ now.versions \in Seq([name : DOMAIN NamedVersions, changeset : 1..Changesets,
                                    checkpoint : {"scheduled", "successful", "failed"}])
<1>1. /\ s \in AnyRun /\ s.at \in PartNames \ {"checkpoints"} /\ s.done < Requests(s.at) /\ s.done \in Nat
      /\ Sent(s) \in [PartNames -> Nat]
  <2>1. s \in AnyRun /\ s.at \in PartNames \ {"checkpoints"} /\ s.done < Requests(s.at) /\ s.done \in Nat
    BY PartsInOrder DEF Sends, RunOK, AnyRun
  <2>2. \A part \in PartNames : Answered(s, part) \in Nat
    BY <2>1, SentIs
  <2> QED
    BY <2>1, <2>2 DEF Sent
<1>2. PICK n : n = Sent(s)
  OBVIOUS
<1>3. PICK t : t = Performed(now, s.at, s.done + 1, s.groupIds)
  OBVIOUS
<1>4. n \in [PartNames -> Nat] /\ n[s.at] = s.done /\ Holds(now, n)
  BY <1>1, <1>2, SentIs
<1>5. PICK k \in Nat : k = s.done + 1
  BY <1>1
<1>6. PICK p : p = [n EXCEPT ![s.at] = k]
  OBVIOUS
<1>7. \A part \in PartNames : p[part] = IF part = s.at THEN k ELSE n[part]
  BY <1>4, <1>6
<1>8. now.versions \in Seq([name : DOMAIN NamedVersions, changeset : 1..Changesets,
                            checkpoint : {"scheduled", "successful", "failed"}])
  BY DEF AnyIModel
<1>9. t = Performed(now, s.at, k, s.groupIds)
  BY <1>3, <1>5
<1>10. SUFFICES /\ Holds(t, p)
                /\ s.at = "groups" => Len(t.groups) = k
                /\ s.at # "namedVersions" => t.versions = now.versions
                /\ s.at = "namedVersions" => t.versions = Append(now.versions, NewNamedVersion(k))
  BY <1>1, <1>2, <1>3, <1>5, <1>6, <1>8 DEF SentOneMore
<1>11. CASE s.at = "briefcases"
  <2>1. t = [now EXCEPT !.briefcases = @ + 1]
    BY <1>9, <1>11 DEF Performed
  <2>2. t.briefcases = now.briefcases + 1 /\ t.groups = now.groups /\ t.changesets = now.changesets
        /\ t.closed = now.closed /\ t.extended = now.extended /\ t.versions = now.versions /\ t.locks = now.locks
    BY <2>1 DEF AnyIModel
  <2> QED
    BY <1>4, <1>5, <1>7, <1>11, <2>2 DEF Holds, PartNames
<1>12. CASE s.at = "groups"
  <2>1. t = [now EXCEPT !.groups = Append(@, k)]
    BY <1>9, <1>12 DEF Performed
  <2>2. t.briefcases = now.briefcases /\ t.groups = Append(now.groups, k) /\ t.changesets = now.changesets
        /\ t.closed = now.closed /\ t.extended = now.extended /\ t.versions = now.versions /\ t.locks = now.locks
    BY <2>1 DEF AnyIModel
  <2>3. now.groups = Numbered(s.done)
    BY <1>4, <1>12 DEF Holds
  <2>4. t.groups = Numbered(k) /\ Len(t.groups) = k
    BY <1>1, <1>5, <2>2, <2>3 DEF Numbered
  <2> QED
    BY <1>4, <1>7, <1>12, <2>2, <2>4 DEF Holds, PartNames
<1>13. CASE s.at = "changesets"
  <2>1. PICK x : x = IF GroupOf(k, InOrder) = 0 THEN 0 ELSE s.groupIds[GroupOf(k, InOrder)]
    OBVIOUS
  <2>2. t = [now EXCEPT !.changesets = Append(@, x)]
    BY <1>9, <1>13, <2>1 DEF Performed
  <2>3. t.briefcases = now.briefcases /\ t.groups = now.groups /\ t.changesets = Append(now.changesets, x)
        /\ t.closed = now.closed /\ t.extended = now.extended /\ t.versions = now.versions /\ t.locks = now.locks
    BY <2>2 DEF AnyIModel
  <2>4. Answered(s, "groups") = Len(ChangesetGroups)
    <3>1. Place("groups") < Place(s.at)
      BY <1>13, PartsInOrder
    <3>2. Answered(s, "groups") = Requests("groups")
      BY <1>1, <3>1, SentIs DEF PartNames
    <3> QED
      BY <3>2 DEF Requests
  <2>5. x = GroupOf(k, InOrder)
    <3>1. GroupOf(k, InOrder) \in {0} \union 1..Len(ChangesetGroups)
      BY GroupOfIs
    <3> QED
      BY <2>1, <2>4, <3>1 DEF Numbered
  <2>6. now.changesets = [c \in 1..s.done |-> GroupOf(c, InOrder)]
    BY <1>4, <1>13 DEF Holds
  <2>7. t.changesets = [c \in 1..k |-> GroupOf(c, InOrder)]
    <3>1. t.changesets = Append([c \in 1..s.done |-> GroupOf(c, InOrder)], GroupOf(k, InOrder))
      BY <2>3, <2>5, <2>6
    <3> QED
      BY <1>1, <1>5, <3>1
  <2>8. /\ p["briefcases"] = n["briefcases"] /\ p["groups"] = n["groups"] /\ p["changesets"] = k /\ p["completeGroups"] = n["completeGroups"]
       /\ p["extendedData"] = n["extendedData"] /\ p["namedVersions"] = n["namedVersions"] /\ p["lock"] = n["lock"]
    BY <1>7, <1>13 DEF PartNames
  <2>9. Holds(t, p)
    <3>1. t.changesets = [c \in 1..p["changesets"] |-> GroupOf(c, InOrder)]
      BY <2>7, <2>8
    <3>2. t.briefcases = p["briefcases"]
      BY <1>4, <2>3, <2>8 DEF Holds
    <3>3. t.groups = Numbered(p["groups"])
      BY <1>4, <2>3, <2>8 DEF Holds
    <3>4. t.closed = 1..p["completeGroups"]
      BY <1>4, <2>3, <2>8 DEF Holds
    <3>5. t.extended = [i \in 1..p["extendedData"] |-> ExtendedData[i]]
      BY <1>4, <2>3, <2>8 DEF Holds
    <3>6. Len(t.versions) = p["namedVersions"]
      BY <1>4, <2>3, <2>8 DEF Holds
    <3>7. t.locks = p["lock"]
      BY <1>4, <2>3, <2>8 DEF Holds
    <3>8. \A i \in DOMAIN t.versions : t.versions[i].name = i /\ t.versions[i].changeset = NamedVersions[i]
      BY <1>4, <2>3 DEF Holds
    <3> QED
      BY <3>1, <3>2, <3>3, <3>4, <3>5, <3>6, <3>7, <3>8 DEF Holds
  <2> QED
    BY <1>13, <2>3, <2>9
<1>14. CASE s.at = "completeGroups"
  <2>1. t = [now EXCEPT !.closed = @ \union {s.groupIds[k]}]
    BY <1>9, <1>14 DEF Performed
  <2>2. t.briefcases = now.briefcases /\ t.groups = now.groups /\ t.changesets = now.changesets
        /\ t.closed = now.closed \union {s.groupIds[k]} /\ t.extended = now.extended /\ t.versions = now.versions
        /\ t.locks = now.locks
    BY <2>1 DEF AnyIModel
  <2>3. Answered(s, "groups") = Len(ChangesetGroups) /\ Requests(s.at) = Len(ChangesetGroups)
    <3>1. Place("groups") < Place(s.at)
      BY <1>14, PartsInOrder
    <3>2. Answered(s, "groups") = Requests("groups")
      BY <1>1, <3>1, SentIs DEF PartNames
    <3> QED
      BY <1>14, <3>2 DEF Requests
  <2>4. s.groupIds[k] = k
    <3>1. k \in 1..Len(ChangesetGroups)
      BY <1>1, <1>5, <2>3, ReusableAssumption
    <3> QED
      BY <2>3, <3>1 DEF Numbered
  <2>5. now.closed = 1..s.done
    BY <1>4, <1>14 DEF Holds
  <2>6. t.closed = 1..k
    BY <1>1, <1>5, <2>2, <2>4, <2>5
  <2> QED
    BY <1>4, <1>7, <1>14, <2>2, <2>6 DEF Holds, PartNames
<1>15. CASE s.at = "extendedData"
  <2>1. t = [now EXCEPT !.extended = Append(@, ExtendedData[k])]
    BY <1>9, <1>15 DEF Performed
  <2>2. t.briefcases = now.briefcases /\ t.groups = now.groups /\ t.changesets = now.changesets
        /\ t.closed = now.closed /\ t.extended = Append(now.extended, ExtendedData[k]) /\ t.versions = now.versions
        /\ t.locks = now.locks
    BY <2>1 DEF AnyIModel
  <2>3. now.extended = [i \in 1..s.done |-> ExtendedData[i]]
    BY <1>4, <1>15 DEF Holds
  <2>4. t.extended = [i \in 1..k |-> ExtendedData[i]]
    BY <1>1, <1>5, <2>2, <2>3
  <2>5. /\ p["briefcases"] = n["briefcases"] /\ p["groups"] = n["groups"] /\ p["changesets"] = n["changesets"] /\ p["completeGroups"] = n["completeGroups"]
       /\ p["extendedData"] = k /\ p["namedVersions"] = n["namedVersions"] /\ p["lock"] = n["lock"]
    BY <1>7, <1>15 DEF PartNames
  <2>6. Holds(t, p)
    <3>1. t.extended = [i \in 1..p["extendedData"] |-> ExtendedData[i]]
      BY <2>4, <2>5
    <3>2. t.briefcases = p["briefcases"]
      BY <1>4, <2>2, <2>5 DEF Holds
    <3>3. t.groups = Numbered(p["groups"])
      BY <1>4, <2>2, <2>5 DEF Holds
    <3>4. t.changesets = [c \in 1..p["changesets"] |-> GroupOf(c, InOrder)]
      BY <1>4, <2>2, <2>5 DEF Holds
    <3>5. t.closed = 1..p["completeGroups"]
      BY <1>4, <2>2, <2>5 DEF Holds
    <3>6. Len(t.versions) = p["namedVersions"]
      BY <1>4, <2>2, <2>5 DEF Holds
    <3>7. t.locks = p["lock"]
      BY <1>4, <2>2, <2>5 DEF Holds
    <3>8. \A i \in DOMAIN t.versions : t.versions[i].name = i /\ t.versions[i].changeset = NamedVersions[i]
      BY <1>4, <2>2 DEF Holds
    <3> QED
      BY <3>1, <3>2, <3>3, <3>4, <3>5, <3>6, <3>7, <3>8 DEF Holds
  <2> QED
    BY <1>15, <2>2, <2>6
<1>16. CASE s.at = "namedVersions"
  <2>1. t = [now EXCEPT !.versions = Append(@, NewNamedVersion(k))]
    BY <1>9, <1>16 DEF Performed
  <2>2. t.briefcases = now.briefcases /\ t.groups = now.groups /\ t.changesets = now.changesets
        /\ t.closed = now.closed /\ t.extended = now.extended
        /\ t.versions = Append(now.versions, NewNamedVersion(k)) /\ t.locks = now.locks
    BY <2>1 DEF AnyIModel
  <2>3. Len(now.versions) = s.done
        /\ \A i \in DOMAIN now.versions : now.versions[i].name = i /\ now.versions[i].changeset = NamedVersions[i]
    BY <1>4, <1>16 DEF Holds
  <2>4. NewNamedVersion(k).name = k /\ NewNamedVersion(k).changeset = NamedVersions[k]
    BY DEF NewNamedVersion
  <2>5. Len(t.versions) = k /\ DOMAIN t.versions = 1..k /\ t.versions[k] = NewNamedVersion(k)
        /\ \A i \in 1..s.done : i \in DOMAIN now.versions /\ t.versions[i] = now.versions[i]
    BY <1>1, <1>5, <1>8, <2>2, <2>3
  <2>6. \A i \in DOMAIN t.versions : i = k \/ i \in 1..s.done
    BY <1>1, <1>5, <2>5
  <2>7. \A i \in DOMAIN t.versions : t.versions[i].name = i /\ t.versions[i].changeset = NamedVersions[i]
    BY <2>3, <2>4, <2>5, <2>6
  <2> QED
    BY <1>4, <1>7, <1>16, <2>2, <2>5, <2>7 DEF Holds, PartNames
<1>17. CASE s.at = "lock"
  <2>1. t = [now EXCEPT !.locks = 1]
    BY <1>9, <1>17 DEF Performed, Locked
  <2>2. t.briefcases = now.briefcases /\ t.groups = now.groups /\ t.changesets = now.changesets
        /\ t.closed = now.closed /\ t.extended = now.extended /\ t.versions = now.versions /\ t.locks = 1
    BY <2>1 DEF AnyIModel
  <2>3. k = 1
    BY <1>1, <1>5, <1>17 DEF Requests
  <2> QED
    BY <1>4, <1>7, <1>17, <2>2, <2>3 DEF Holds, PartNames
<1>18. CASE s.at = "complete"
  <2>1. t = [now EXCEPT !.description = "completed"]
    BY <1>9, <1>18 DEF Performed
  <2>2. t.briefcases = now.briefcases /\ t.groups = now.groups /\ t.changesets = now.changesets
        /\ t.closed = now.closed /\ t.extended = now.extended /\ t.versions = now.versions /\ t.locks = now.locks
    BY <2>1 DEF AnyIModel
  <2> QED
    BY <1>4, <1>7, <1>18, <2>2 DEF Holds, PartNames
<1> QED
  BY <1>1, <1>11, <1>12, <1>13, <1>14, <1>15, <1>16, <1>17, <1>18 DEF PartNames

\* What an iModel holds depends on the parts that leave something in it.
LEMMA HoldsSame ==
    ASSUME NEW now, NEW n, NEW p, Holds(now, n),
           \A part \in PartNames \ {"checkpoints", "complete"} : p[part] = n[part]
    PROVE  Holds(now, p)
<1>1. /\ p["briefcases"] = n["briefcases"] /\ p["groups"] = n["groups"] /\ p["changesets"] = n["changesets"]
      /\ p["completeGroups"] = n["completeGroups"] /\ p["extendedData"] = n["extendedData"]
      /\ p["namedVersions"] = n["namedVersions"] /\ p["lock"] = n["lock"]
  BY DEF PartNames
<1>2. now.groups = Numbered(p["groups"])
  BY <1>1 DEF Holds
<1>3. now.changesets = [c \in 1..p["changesets"] |-> GroupOf(c, InOrder)]
  BY <1>1 DEF Holds
<1>4. now.extended = [i \in 1..p["extendedData"] |-> ExtendedData[i]]
  BY <1>1 DEF Holds
<1>5. now.briefcases = p["briefcases"] /\ now.closed = 1..p["completeGroups"] /\ now.locks = p["lock"]
      /\ Len(now.versions) = p["namedVersions"]
  BY <1>1 DEF Holds
<1>6. \A i \in DOMAIN now.versions : now.versions[i].name = i /\ now.versions[i].changeset = NamedVersions[i]
  BY DEF Holds
<1> QED
  BY <1>2, <1>3, <1>4, <1>5, <1>6 DEF Holds

\* The iModel of a creating run before and after a request of it.
LEMMA Made ==
    ASSUME ShareInv, PartsInv, ~repeated, NEW r \in Runs, PerformPart(run[r])
    PROVE  /\ CreationOK(run[r], waits[r], iModels[run[r].m]) /\ run[r].at \in PartNames
           /\ iModels[run[r].m].exists /\ iModels[run[r].m].description = "inProgress"
           /\ Holds(iModels[run[r].m], Sent(run[r]))
           /\ run[r].groupIds = Numbered(Answered(run[r], "groups"))
           /\ CheckpointsOK(run[r], waits[r], iModels[run[r].m])
           /\ Holds(iModels'[run[r].m], SentOneMore(run[r]))
           /\ run[r].at = "groups" => Len(iModels'[run[r].m].groups) = run[r].done + 1
           /\ run[r].at # "namedVersions" => iModels'[run[r].m].versions = iModels[run[r].m].versions
           /\ run[r].at = "namedVersions" =>
                  iModels'[run[r].m].versions = Append(iModels[run[r].m].versions, NewNamedVersion(run[r].done + 1))
           /\ iModels[run[r].m].versions \in Seq([name : DOMAIN NamedVersions, changeset : 1..Changesets,
                                    checkpoint : {"scheduled", "successful", "failed"}])
           /\ iModels'[run[r].m].description = IF run[r].at = "complete" THEN "completed" ELSE "inProgress"
           /\ \A m \in Ids : m # run[r].m => iModels'[m] = iModels[m]
<1>1. /\ run[r].m \in Ids /\ run[r].at \in PartNames \ {"checkpoints"} /\ RunOK(r, run[r], created)
      /\ Gets(run[r].m, Performed(iModels[run[r].m], run[r].at, run[r].done + 1, run[r].groupIds))
  BY PartGets
<1>2. Sends(run[r]) /\ iModels[run[r].m] \in AnyIModel /\ iModels \in [Ids -> AnyIModel]
  BY <1>1, ShareFacts DEF PerformPart
<1>3. PICK t : t = Performed(iModels[run[r].m], run[r].at, run[r].done + 1, run[r].groupIds)
  OBVIOUS
<1>4. iModels[run[r].m].exists /\ iModels' = [iModels EXCEPT ![run[r].m] = t]
  BY <1>1, <1>3 DEF Gets
<1>5. iModels'[run[r].m] = t /\ \A m \in Ids : m # run[r].m => iModels'[m] = iModels[m]
  BY <1>1, <1>2, <1>4
<1>6. CreationOK(run[r], waits[r], iModels[run[r].m])
  BY DEF PartsInv
<1>7. /\ iModels[run[r].m].description = "inProgress" /\ Holds(iModels[run[r].m], Sent(run[r]))
      /\ run[r].groupIds = Numbered(Answered(run[r], "groups"))
      /\ CheckpointsOK(run[r], waits[r], iModels[run[r].m])
  BY <1>1, <1>4, <1>6 DEF CreationOK
<1>8. t.description = IF run[r].at = "complete" THEN "completed" ELSE "inProgress"
  BY <1>1, <1>2, <1>3, <1>7, PerformedIsTyped
<1>9. /\ Holds(t, SentOneMore(run[r]))
      /\ run[r].at = "groups" => Len(t.groups) = run[r].done + 1
      /\ run[r].at # "namedVersions" => t.versions = iModels[run[r].m].versions
      /\ run[r].at = "namedVersions" =>
             t.versions = Append(iModels[run[r].m].versions, NewNamedVersion(run[r].done + 1))
      /\ iModels[run[r].m].versions \in Seq([name : DOMAIN NamedVersions, changeset : 1..Changesets,
                                checkpoint : {"scheduled", "successful", "failed"}])
  <2>1. PICK now : now = iModels[run[r].m]
    OBVIOUS
  <2>2. PICK s : s = run[r]
    OBVIOUS
  <2>3. /\ RunOK(r, s, created) /\ Sends(s) /\ now \in AnyIModel /\ Holds(now, Sent(s))
        /\ s.groupIds = Numbered(Answered(s, "groups"))
        /\ t = Performed(now, s.at, s.done + 1, s.groupIds)
    BY <1>1, <1>2, <1>3, <1>7, <2>1, <2>2
  <2>4. /\ Holds(t, SentOneMore(s)) /\ (s.at = "groups" => Len(t.groups) = s.done + 1)
        /\ s.at # "namedVersions" => t.versions = now.versions
        /\ s.at = "namedVersions" => t.versions = Append(now.versions, NewNamedVersion(s.done + 1))
        /\ now.versions \in Seq([name : DOMAIN NamedVersions, changeset : 1..Changesets,
                                 checkpoint : {"scheduled", "successful", "failed"}])
    BY <2>3, PartMakes
  <2> QED
    BY <2>1, <2>2, <2>4
<1> QED
  BY <1>1, <1>4, <1>5, <1>6, <1>7, <1>8, <1>9

\* The request that completes an iModel finds everything done.
LEMMA MadeWhole ==
    ASSUME ShareInv, PartsInv, ~repeated, NEW r \in Runs, PerformPart(run[r])
    PROVE  \A m \in Ids : CompletedOK(iModels'[m])
<1>1. SUFFICES ASSUME NEW m \in Ids PROVE CompletedOK(iModels'[m])
  OBVIOUS
<1>2. CASE m # run[r].m
  BY <1>2, Made DEF PartsInv
<1>3. CASE m = run[r].m /\ run[r].at # "complete"
  <2>1. iModels'[m].description = "inProgress"
    BY <1>3, Made
  <2> QED
    BY <2>1 DEF CompletedOK
<1>4. CASE m = run[r].m /\ run[r].at = "complete"
  <2>1. /\ run[r] \in AnyRun /\ run[r].at \in PartNames /\ run[r].done < Requests(run[r].at)
        /\ run[r].done \in Nat
    BY Made, ShareFacts DEF RunOK, AnyRun
  <2>2. PICK n : n = Sent(run[r])
    OBVIOUS
  <2>3. n \in [PartNames -> Nat]
    <3>1. \A part \in PartNames : Answered(run[r], part) \in Nat
      BY <2>1, SentIs
    <3> QED
      BY <2>2, <3>1 DEF Sent
  <2>4. PICK p : p = [n EXCEPT ![run[r].at] = run[r].done + 1]
    OBVIOUS
  <2>5. \A part \in PartNames \ {"checkpoints", "complete"} : AllSent[part] = p[part]
    <3>1. SUFFICES ASSUME NEW part \in PartNames \ {"checkpoints", "complete"}
                   PROVE  AllSent[part] = p[part]
      OBVIOUS
    <3>2. Place(part) < Place(run[r].at)
      BY <1>4, PartsInOrder DEF PartNames
    <3>3. n[part] = Requests(part) /\ AllSent[part] = Requests(part)
      BY <2>1, <2>2, <3>2, SentIs
    <3> QED
      BY <1>4, <2>3, <2>4, <3>3
  <2>6. Holds(iModels'[m], AllSent)
    <3>1. Holds(iModels'[run[r].m], p)
      BY <2>2, <2>4, Made DEF SentOneMore
    <3> QED
      BY <1>4, <2>5, <3>1, HoldsSame
  <2>7. \A i \in DOMAIN iModels[m].versions : iModels[m].versions[i].checkpoint = "successful"
    <3>1. ~(Place(run[r].at) <= Place("checkpoints"))
      BY <1>4, PartsInOrder
    <3> QED
      BY <1>4, <3>1, Made DEF CheckpointsOK
  <2>8. iModels'[m].versions = iModels[m].versions
    BY <1>4, Made
  <2> QED
    BY <2>6, <2>7, <2>8 DEF CompletedOK
<1> QED
  BY <1>2, <1>3, <1>4

\* Whatever a run sends, the iModels of other creating runs stay as they are or are gone, and what
\* says that it is completed is.
LEMMA PerformKeeps ==
    ASSUME ShareInv, PartsInv, ~repeated, NEW r \in Runs, Perform(r)
    PROVE  /\ \A m \in Ids : CompletedOK(iModels'[m])
           /\ \A q \in Runs \ {r} : run[q].at \in PartNames =>
                  iModels'[run[q].m] = iModels[run[q].m] \/ ~iModels'[run[q].m].exists
<1>1. iModels \in [Ids -> AnyIModel] /\ created \in Nat /\ \A m \in Ids : CompletedOK(iModels[m])
  BY ShareFacts DEF PartsInv
<1>2. \A q \in Runs : run[q].at \in PartNames => run[q].m \in Ids /\ run[q].m <= created
  <2>1. SUFFICES ASSUME NEW q \in Runs, run[q].at \in PartNames
                 PROVE  run[q].m \in Ids /\ run[q].m <= created
    OBVIOUS
  <2>2. run[q].m # NoIModel /\ run[q].m <= created /\ run[q].m \in 0..MaxIModels
    BY <2>1, ShareFacts DEF RunOK, AnyRun
  <2> QED
    BY <2>2, ReusableAssumption DEF Ids, NoIModel
<1>3. CASE run[r].at = "create" /\ PerformCreate
  <2>1. PICK now : now = [Nothing EXCEPT !.exists = TRUE, !.description = "inProgress"]
    OBVIOUS
  <2>2. iModels' = [iModels EXCEPT ![created + 1] = now]
    BY <1>3, <2>1 DEF PerformCreate
  <2>3. now.description = "inProgress"
    BY <2>1 DEF Nothing
  <2>4. CompletedOK(now)
    BY <2>3 DEF CompletedOK
  <2>5. \A m \in Ids : iModels'[m] = IF m = created + 1 THEN now ELSE iModels[m]
    BY <1>1, <2>2
  <2>6. \A q \in Runs : run[q].at \in PartNames => run[q].m # created + 1
    BY <1>1, <1>2 DEF Ids
  <2> QED
    BY <1>1, <1>2, <2>4, <2>5, <2>6
<1>4. CASE run[r].at = "delete" /\ PerformDelete(run[r].m)
  <2>1. iModels' = [iModels EXCEPT ![run[r].m] = Nothing]
    BY <1>4 DEF PerformDelete
  <2>2. CompletedOK(Nothing) /\ ~Nothing.exists
    BY NothingIsTyped DEF CompletedOK
  <2>3. \A m \in Ids : iModels'[m] = IF m = run[r].m THEN Nothing ELSE iModels[m]
    BY <1>1, <2>1
  <2> QED
    BY <1>1, <1>2, <2>2, <2>3
<1>5. CASE PerformPart(run[r])
  <2>1. \A q \in Runs \ {r} : run[q].at \in PartNames => run[q].m # run[r].m
    BY <1>5, Made DEF PartsInv, OwnerInv
  <2> QED
    BY <1>2, <1>5, <2>1, Made, MadeWhole
<1> QED
  BY <1>3, <1>4, <1>5 DEF Perform

-------------------------------------------------------------------------------
(* Each step keeps PartsInv.                                               *)

\* One run goes on.
LEMMA PartsStep ==
    ASSUME ShareInv, PartsInv, ~repeated, NEW r \in Runs, NEW s, Become(r, s),
           \A q \in Runs \ {r} : waits'[q] = waits[q],
           \A q \in Runs \ {r} : run[q].at \in PartNames =>
               iModels'[run[q].m] = iModels[run[q].m] \/ ~iModels'[run[q].m].exists,
           s.at \in PartNames => \/ run[r].at \in PartNames /\ s.m = run[r].m
                                 \/ \A q \in Runs : run[q].m # s.m,
           CreationOK(s, waits'[r], iModels'[s.m]),
           \A m \in Ids : CompletedOK(iModels'[m])
    PROVE  PartsInv'
<1>1. run' = [run EXCEPT ![r] = s] /\ run \in [Runs -> AnyRun]
  BY ShareFacts DEF Become
<1>2. run'[r] = s /\ \A q \in Runs \ {r} : run'[q] = run[q]
  BY <1>1
<1>3. OwnerInv'
  BY <1>2 DEF PartsInv, OwnerInv
<1>4. ASSUME NEW q \in Runs
      PROVE  CreationOK(run'[q], waits'[q], iModels'[run'[q].m])
  <2>1. CASE q = r
    BY <1>2, <2>1
  <2>2. CASE q # r
    <3>1. run'[q] = run[q] /\ waits'[q] = waits[q] /\ CreationOK(run[q], waits[q], iModels[run[q].m])
      BY <1>2, <2>2 DEF PartsInv
    <3> QED
      BY <2>2, <3>1 DEF CreationOK
  <2> QED
    BY <2>1, <2>2
<1> QED
  BY <1>3, <1>4 DEF PartsInv

\* The run does not create an iModel after the step.
LEMMA PartsElsewhere ==
    ASSUME ShareInv, PartsInv, ~repeated, NEW r \in Runs, NEW s, Become(r, s), s.at \notin PartNames,
           \A q \in Runs \ {r} : waits'[q] = waits[q],
           UNCHANGED iModels \/ Perform(r)
    PROVE  PartsInv'
<1>1. CreationOK(s, waits'[r], iModels'[s.m])
  BY DEF CreationOK
<1>2. /\ \A m \in Ids : CompletedOK(iModels'[m])
      /\ \A q \in Runs \ {r} : run[q].at \in PartNames =>
             iModels'[run[q].m] = iModels[run[q].m] \/ ~iModels'[run[q].m].exists
  <2>1. CASE Perform(r)
    BY <2>1, PerformKeeps
  <2>2. CASE UNCHANGED iModels
    BY <2>2 DEF PartsInv
  <2> QED
    BY <2>1, <2>2
<1> QED
  BY <1>1, <1>2, PartsStep

\* The next request of a creation.
LEMMA FollowingGoesOn ==
    ASSUME NEW s \in AnyRun, s.at \in PartNames, s.done < Requests(s.at), Following(s).at \in PartNames
    PROVE  /\ Following(s).m = s.m /\ Following(s).groupIds = s.groupIds /\ s.at # "complete"
           /\ Place(s.at) \in 1..9 /\ Place(Following(s).at) \in 1..9
           /\ Place(Following(s).at) <= Place(s.at) + 1
           /\ \A part \in PartNames :
                  Answered(Following(s), part) = Answered(s, part) + (IF part = s.at THEN 1 ELSE 0)
<1>1. s.done \in Nat /\ DOMAIN s = {"at", "m", "done", "groupIds", "attempts", "reusable"}
  BY DEF AnyRun
<1>2. Place(s.at) \in 1..9 /\ Place(Following(s).at) \in 1..9
  BY PartsInOrder DEF PartNames
<1>3. CASE s.done + 1 < Requests(s.at)
  <2>1. Following(s) = [s EXCEPT !.done = s.done + 1]
    BY <1>3, FollowingIs
  <2>2. Following(s).at = s.at /\ Following(s).m = s.m /\ Following(s).groupIds = s.groupIds
    BY <1>1, <2>1
  <2>3. s.at # "complete"
    BY <1>1, <1>3 DEF Requests
  <2> QED
    BY <1>2, <2>2, <2>3, AnsweredAfter
<1>4. CASE s.done + 1 = Requests(s.at) /\ s.at # "complete"
  <2>1. Place(s.at) \in 1..8
    <3>1. Place(s.at) # 9
      BY <1>4, FollowingIs
    <3> QED
      BY <1>2, <3>1
  <2>2. Following(s) = [s EXCEPT !.at = Parts[Place(s.at) + 1], !.done = 0]
    BY <1>4, FollowingIs
  <2>3. Following(s).at = Parts[Place(s.at) + 1] /\ Following(s).m = s.m /\ Following(s).groupIds = s.groupIds
    BY <1>1, <2>2
  <2>4. Place(Following(s).at) = Place(s.at) + 1
    BY <2>1, <2>3, PartsInOrder
  <2> QED
    BY <1>2, <1>4, <2>3, <2>4, AnsweredAfter
<1>5. CASE s.done + 1 = Requests(s.at) /\ s.at = "complete"
  <2>1. Following(s) = [NewRun EXCEPT !.reusable = s.m]
    BY <1>5, FollowingIs
  <2>2. Following(s).at = "idle"
    BY <2>1 DEF NewRun
  <2> QED
    BY <2>2 DEF PartNames
<1> QED
  BY <1>3, <1>4, <1>5, FollowingIs

\* A new iModel holds what no request has made, and is one run's.
LEMMA CreateKeeps == ASSUME ShareInv, PartsInv, ~repeated, NEW r \in Runs, Create(r) PROVE PartsInv'
<1>1. /\ run[r].at = "create" /\ PerformCreate /\ UNCHANGED waits /\ Perform(r)
      /\ Become(r, [run[r] EXCEPT !.at = Parts[1], !.m = created + 1])
  BY DEF Create, Perform
<1>2. PICK s : s = [run[r] EXCEPT !.at = Parts[1], !.m = created + 1]
  OBVIOUS
<1>3. Parts[1] = "briefcases" /\ Place("briefcases") = 1 /\ \A part \in PartNames : Place(part) >= 1
  BY PartsInOrder DEF Parts, PartNames
<1>4. s.at = "briefcases" /\ s.m = created + 1 /\ s.done = run[r].done /\ s.groupIds = run[r].groupIds
  BY <1>2, <1>3, ShareFacts DEF AnyRun
<1>5. s.done = 0 /\ s.groupIds = Numbered(0)
  <2>1. run[r].done = 0 /\ Len(run[r].groupIds) = 0 /\ run[r].groupIds \in Seq(Nat)
    BY <1>1, ShareFacts DEF RunOK, PartNames, Answered, AnyRun
  <2>2. run[r].groupIds = <<>> /\ Numbered(0) = <<>>
    BY <2>1 DEF Numbered
  <2> QED
    BY <1>4, <2>1, <2>2
<1>6. \A part \in PartNames : Answered(s, part) = 0
  <2>1. SUFFICES ASSUME NEW part \in PartNames PROVE Answered(s, part) = 0
    OBVIOUS
  <2>2. ~(Place(part) < Place(s.at))
    <3>1. Place(part) \in 1..9
      BY PartsInOrder DEF PartNames
    <3> QED
      BY <3>1, <1>3, <1>4
  <2> QED
    BY <1>5, <2>2 DEF Answered
<1>7. PICK now : now = [Nothing EXCEPT !.exists = TRUE, !.description = "inProgress"]
  OBVIOUS
<1>8. /\ now.description = "inProgress" /\ now.briefcases = 0 /\ now.groups = <<>> /\ now.closed = {}
      /\ now.changesets = <<>> /\ now.extended = <<>> /\ now.versions = <<>> /\ now.locks = 0
  BY <1>7 DEF Nothing
<1>9. iModels'[created + 1] = now /\ created + 1 \in Ids
  <2>1. created + 1 \in Ids
    BY <1>1, ShareFacts, ReusableAssumption DEF PerformCreate, Ids
  <2> QED
    BY <1>1, <1>7, <2>1, ShareFacts DEF PerformCreate
<1>10. Holds(now, Sent(s))
  <2>1. \A part \in PartNames : Sent(s)[part] = 0
    BY <1>6 DEF Sent
  <2>2. PICK n : n = Sent(s)
    OBVIOUS
  <2>3. /\ n["briefcases"] = 0 /\ n["groups"] = 0 /\ n["changesets"] = 0 /\ n["completeGroups"] = 0
        /\ n["extendedData"] = 0 /\ n["namedVersions"] = 0 /\ n["lock"] = 0
    BY <2>1, <2>2 DEF PartNames
  <2>4. now.groups = Numbered(n["groups"])
    BY <1>8, <2>3 DEF Numbered
  <2>5. now.changesets = [c \in 1..n["changesets"] |-> GroupOf(c, InOrder)]
    BY <1>8, <2>3
  <2>6. now.extended = [i \in 1..n["extendedData"] |-> ExtendedData[i]]
    BY <1>8, <2>3
  <2>7. /\ now.briefcases = n["briefcases"] /\ now.closed = 1..n["completeGroups"] /\ now.locks = n["lock"]
        /\ Len(now.versions) = n["namedVersions"] /\ DOMAIN now.versions = {}
    BY <1>8, <2>3
  <2>8. Holds(now, n)
    BY <2>4, <2>5, <2>6, <2>7 DEF Holds
  <2> QED
    BY <2>2, <2>8
<1>11. CheckpointsOK(s, waits'[r], now)
  BY <1>8 DEF CheckpointsOK
<1>12. CreationOK(s, waits'[r], iModels'[s.m])
  <2>1. Answered(s, "groups") = 0
    BY <1>6 DEF PartNames
  <2>2. iModels'[s.m] = now
    BY <1>4, <1>9
  <2> QED
    BY <1>5, <1>8, <1>10, <1>11, <2>1, <2>2 DEF CreationOK
<1>13. \A q \in Runs : run[q].m # s.m
  <2>1. \A q \in Runs : run[q].m <= created /\ run[q].m \in 0..MaxIModels
    BY ShareFacts DEF RunOK, AnyRun
  <2> QED
    BY <1>4, <2>1, ShareFacts
<1> QED
  BY <1>1, <1>2, <1>12, <1>13, PerformKeeps, PartsStep

\* A request of createReusable leaves the iModel with one more, and a new named version with a wait.
LEMMA PartKeeps == ASSUME ShareInv, PartsInv, ~repeated, NEW r \in Runs, Part(r) PROVE PartsInv'
<1>1. PerformPart(run[r]) /\ Perform(r) /\ Become(r, Following(Got(r, run[r])))
  BY DEF Part, Perform, Got
<1>2. PICK s : s = Got(r, run[r])
  OBVIOUS
<1>3. PICK f : f = Following(s)
  OBVIOUS
<1>4. /\ run[r].at \in PartNames \ {"checkpoints"} /\ run[r].m \in Ids /\ run[r].done < Requests(run[r].at)
      /\ run[r] \in AnyRun /\ run[r].done \in Nat
  BY <1>1, PartGets, ShareFacts DEF RunOK, AnyRun
<1>5. /\ s \in AnyRun /\ s.at = run[r].at /\ s.done = run[r].done /\ s.m = run[r].m
      /\ run[r].at = "groups" => s.groupIds = Append(run[r].groupIds, Len(iModels'[run[r].m].groups))
      /\ run[r].at # "groups" => s.groupIds = run[r].groupIds
  BY <1>1, <1>2, GotIs
<1>6. \A part \in PartNames : Answered(s, part) = Answered(run[r], part)
  BY <1>5 DEF Answered
<1>7. \A q \in Runs \ {r} : waits'[q] = waits[q]
  BY ShareFacts DEF Part
<1>8. CASE f.at \notin PartNames
  BY <1>1, <1>2, <1>3, <1>7, <1>8, PartsElsewhere
<1>9. CASE f.at \in PartNames
  <2>1. /\ f.m = run[r].m /\ f.groupIds = s.groupIds /\ run[r].at # "complete"
        /\ Place(run[r].at) \in 1..9 /\ Place(f.at) \in 1..9 /\ Place(f.at) <= Place(run[r].at) + 1
        /\ \A part \in PartNames :
               Answered(f, part) = Answered(run[r], part) + (IF part = run[r].at THEN 1 ELSE 0)
    BY <1>3, <1>4, <1>5, <1>6, <1>9, FollowingGoesOn
  <2>2. PICK now : now = iModels'[run[r].m]
    OBVIOUS
  <2>3. now.description = "inProgress"
    BY <1>1, <2>1, <2>2, Made
  <2>4. Holds(now, Sent(f))
    <3>1. PICK p : p = SentOneMore(run[r])
      OBVIOUS
    <3>2. Holds(now, p)
      BY <1>1, <2>2, <3>1, Made
    <3>3. \A part \in PartNames : Answered(run[r], part) \in Nat /\ Sent(run[r])[part] = Answered(run[r], part)
      BY <1>4, SentIs
    <3>4. \A part \in PartNames : p[part] = IF part = run[r].at THEN run[r].done + 1 ELSE Sent(run[r])[part]
      <4>1. DOMAIN Sent(run[r]) = PartNames
        BY DEF Sent
      <4> QED
        BY <1>4, <3>1, <4>1 DEF SentOneMore, Sent
    <3>5. Answered(run[r], run[r].at) = run[r].done
      BY <1>4, SentIs
    <3>6. \A part \in PartNames : Sent(f)[part] = Answered(f, part)
      BY DEF Sent
    <3>7. \A part \in PartNames : Sent(f)[part] = p[part]
      BY <2>1, <3>3, <3>4, <3>5, <3>6
    <3> QED
      BY <3>2, <3>7, HoldsSame
  <2>5. f.groupIds = Numbered(Answered(f, "groups"))
    <3>1. run[r].groupIds = Numbered(Answered(run[r], "groups")) /\ Answered(run[r], "groups") \in Nat
      BY <1>1, <1>4, Made, SentIs DEF PartNames
    <3>2. CASE run[r].at = "groups"
      <4>1. PICK k \in Nat : k = run[r].done
        BY <1>4
      <4>2. Answered(run[r], "groups") = k /\ Answered(f, "groups") = k + 1
        <5>1. Answered(run[r], "groups") = k
          BY <1>4, <3>2, <4>1, SentIs
        <5> QED
          BY <2>1, <3>2, <5>1 DEF PartNames
      <4>3. s.groupIds = Append(Numbered(k), k + 1)
        BY <1>1, <1>5, <3>1, <3>2, <4>1, <4>2, Made
      <4>4. Append(Numbered(k), k + 1) = Numbered(k + 1)
        BY <4>1 DEF Numbered
      <4> QED
        BY <2>1, <4>2, <4>3, <4>4
    <3>3. CASE run[r].at # "groups"
      <4>1. Answered(f, "groups") = Answered(run[r], "groups")
        BY <2>1, <3>1, <3>3 DEF PartNames
      <4> QED
        BY <1>5, <2>1, <3>1, <3>3, <4>1
    <3> QED
      BY <3>2, <3>3
  <2>6. CheckpointsOK(f, waits'[r], now)
    <3>1. PICK old : old = iModels[run[r].m]
      OBVIOUS
    <3>2. CheckpointsOK(run[r], waits[r], old)
      BY <1>1, <3>1, Made
    <3>3. Place("checkpoints") = 7 /\ Place("namedVersions") = 6
          /\ (Place(run[r].at) <= 7 => Place(f.at) <= 7)
      <4>1. Place(run[r].at) # 7
        BY <1>4, PartsInOrder DEF PartNames
      <4> QED
        BY <2>1, <4>1, PartsInOrder
    <3>4. waits[r] \subseteq waits'[r]
      BY ShareFacts DEF Part
    <3>5. \A i \in DOMAIN old.versions :
              \/ old.versions[i].checkpoint = "successful"
              \/ Place(f.at) <= 7 /\ \E w \in waits'[r] : w.m = f.m /\ w.version = i
      BY <2>1, <3>2, <3>3, <3>4 DEF CheckpointsOK
    <3>6. CASE run[r].at # "namedVersions"
      <4>1. now.versions = old.versions
        BY <1>1, <2>2, <3>1, <3>6, Made
      <4> QED
        BY <3>3, <3>5, <4>1 DEF CheckpointsOK
    <3>7. CASE run[r].at = "namedVersions"
      <4>1. PICK k \in Nat : k = run[r].done + 1
        BY <1>4
      <4>2. PICK w : w = [m |-> run[r].m, version |-> k, left |-> MaxCheckpointPolls]
        OBVIOUS
      <4>3. w \in waits'[r] /\ w.m = f.m /\ w.version = k
        <5>1. waits' = [waits EXCEPT ![r] = @ \union {w}]
          BY <3>7, <4>1, <4>2 DEF Part
        <5> QED
          BY <2>1, <4>2, <5>1, ShareFacts
      <4>4. /\ now.versions = Append(old.versions, NewNamedVersion(k))
            /\ old.versions \in Seq([name : DOMAIN NamedVersions, changeset : 1..Changesets,
                                     checkpoint : {"scheduled", "successful", "failed"}])
        BY <1>1, <2>2, <3>1, <3>7, <4>1, Made
      <4>5. Len(old.versions) = k - 1
        <5>1. Holds(old, Sent(run[r])) /\ Sent(run[r])["namedVersions"] = run[r].done
          BY <1>1, <1>4, <3>1, <3>7, Made, SentIs
        <5> QED
          BY <1>4, <4>1, <5>1 DEF Holds
      <4>6. \A i \in DOMAIN now.versions : i = k \/ (i \in DOMAIN old.versions /\ now.versions[i] = old.versions[i])
        BY <4>4, <4>5
      <4>7. Place(f.at) <= 7
        BY <3>3, <3>7
      <4>8. \A i \in DOMAIN now.versions :
              \/ now.versions[i].checkpoint = "successful"
              \/ Place(f.at) <= 7 /\ \E v \in waits'[r] : v.m = f.m /\ v.version = i
        BY <3>5, <4>3, <4>6, <4>7
      <4> QED
        BY <3>3, <4>8 DEF CheckpointsOK
    <3> QED
      BY <3>6, <3>7
  <2>7. CreationOK(f, waits'[r], iModels'[f.m])
    BY <2>1, <2>2, <2>3, <2>4, <2>5, <2>6 DEF CreationOK
  <2> QED
    BY <1>1, <1>2, <1>3, <1>4, <1>7, <2>1, <2>7, PerformKeeps, PartsStep
<1> QED
  BY <1>8, <1>9

\* A run that waits for nothing has all checkpoints.
LEMMA AllGeneratedKeeps == ASSUME ShareInv, PartsInv, ~repeated, NEW r \in Runs, AllGenerated(r) PROVE PartsInv'
<1>1. /\ run[r].at = "checkpoints" /\ waits[r] = {} /\ Become(r, Following(run[r]))
      /\ UNCHANGED <<iModels, waits>>
  BY DEF AllGenerated, service
<1>2. PICK f : f = Following(run[r])
  OBVIOUS
<1>3. /\ run[r].at \in PartNames /\ run[r].done < Requests(run[r].at) /\ run[r] \in AnyRun
  BY <1>1, ShareFacts DEF RunOK, PartNames
<1>4. CASE f.at \notin PartNames
  BY <1>1, <1>2, <1>4, PartsElsewhere
<1>5. CASE f.at \in PartNames
  <2>1. /\ f.m = run[r].m /\ f.groupIds = run[r].groupIds
        /\ \A part \in PartNames :
               Answered(f, part) = Answered(run[r], part) + (IF part = run[r].at THEN 1 ELSE 0)
    BY <1>2, <1>3, <1>5, FollowingGoesOn
  <2>2. \A part \in PartNames : Answered(run[r], part) \in Nat
    BY <1>3, SentIs
  <2>3. ASSUME iModels[run[r].m].exists
        PROVE  CreationOK(f, {}, iModels[run[r].m])
    <3>1. PICK now : now = iModels[run[r].m]
      OBVIOUS
    <3>2. /\ now.description = "inProgress" /\ Holds(now, Sent(run[r]))
          /\ run[r].groupIds = Numbered(Answered(run[r], "groups"))
          /\ CheckpointsOK(run[r], waits[r], now)
      BY <1>3, <2>3, <3>1 DEF PartsInv, CreationOK
    <3>3. \A part \in PartNames \ {"checkpoints", "complete"} : Sent(f)[part] = Sent(run[r])[part]
      BY <1>1, <2>1, <2>2 DEF Sent
    <3>4. Holds(now, Sent(f))
      BY <3>2, <3>3, HoldsSame
    <3>5. f.groupIds = Numbered(Answered(f, "groups"))
      <4>1. Answered(f, "groups") = Answered(run[r], "groups")
        BY <1>1, <2>1, <2>2 DEF PartNames
      <4> QED
        BY <2>1, <3>2, <4>1
    <3>6. CheckpointsOK(f, {}, now)
      BY <1>1, <3>2 DEF CheckpointsOK
    <3> QED
      BY <3>1, <3>2, <3>4, <3>5, <3>6 DEF CreationOK
  <2>4. CreationOK(f, waits'[r], iModels'[f.m])
    <3>1. CASE iModels[run[r].m].exists
      BY <1>1, <2>1, <2>3, <3>1
    <3>2. CASE ~iModels[run[r].m].exists
      BY <1>1, <2>1, <3>2 DEF CreationOK
    <3> QED
      BY <3>1, <3>2
  <2>5. \A m \in Ids : CompletedOK(iModels'[m])
    BY <1>1 DEF PartsInv
  <2> QED
    BY <1>1, <1>2, <1>3, <2>1, <2>4, <2>5, PartsStep
<1> QED
  BY <1>4, <1>5

\* A wait that ends has seen its checkpoint; one that goes on is for the same.
LEMMA WaitKeeps ==
    ASSUME ShareInv, PartsInv, ~repeated, NEW r \in Runs, NEW w \in waits[r], Wait(r, w)
    PROVE  PartsInv'
<1>1. UNCHANGED <<iModels, run>>
  BY DEF Wait, service
<1>2. Become(r, run[r])
  BY <1>1, ShareFacts DEF Become
<1>3. \A q \in Runs \ {r} : waits'[q] = waits[q]
  BY ShareFacts DEF Wait
<1>4. CreationOK(run[r], waits'[r], iModels[run[r].m])
  <2>1. SUFFICES ASSUME run[r].at \in PartNames, iModels[run[r].m].exists
                 PROVE  CheckpointsOK(run[r], waits'[r], iModels[run[r].m])
    BY DEF PartsInv, CreationOK
  <2>2. PICK now : now = iModels[run[r].m]
    OBVIOUS
  <2>3. CheckpointsOK(run[r], waits[r], now) /\ Holds(now, Sent(run[r]))
    BY <2>1, <2>2 DEF PartsInv, CreationOK
  <2>4. CASE CheckpointState(w) = "successful" /\ waits' = [waits EXCEPT ![r] = @ \ {w}]
    <3>1. waits'[r] = waits[r] \ {w}
      BY <2>4, ShareFacts
    <3>2. \A i \in DOMAIN now.versions : w.m = run[r].m /\ w.version = i =>
              now.versions[i].checkpoint = "successful"
      <4>1. SUFFICES ASSUME NEW i \in DOMAIN now.versions, w.m = run[r].m, w.version = i
                     PROVE  now.versions[i].checkpoint = "successful"
        OBVIOUS
      <4>2. \A j \in DOMAIN now.versions : now.versions[j].name = j
        BY <2>3 DEF Holds
      <4>3. {j \in DOMAIN now.versions : now.versions[j].name = w.version} = {i}
        BY <4>1, <4>2
      <4>4. CheckpointState(w) = now.versions[CHOOSE j \in {i} : TRUE].checkpoint
        BY <2>2, <4>1, <4>3 DEF CheckpointState
      <4>5. (CHOOSE j \in {i} : TRUE) = i
        OBVIOUS
      <4> QED
        BY <2>4, <4>4, <4>5
    <3> QED
      BY <2>2, <2>3, <3>1, <3>2 DEF CheckpointsOK
  <2>5. CASE waits' = [waits EXCEPT ![r] = (@ \ {w}) \union {[w EXCEPT !.left = @ - 1]}]
    <3>1. PICK v : v = [w EXCEPT !.left = @ - 1]
      OBVIOUS
    <3>2. v.m = w.m /\ v.version = w.version
      BY <3>1, ShareFacts DEF Waits
    <3>3. waits'[r] = (waits[r] \ {w}) \union {v}
      BY <2>5, <3>1, ShareFacts
    <3> QED
      BY <2>2, <2>3, <3>2, <3>3 DEF CheckpointsOK
  <2> QED
    BY <2>4, <2>5 DEF Wait
<1>5. \A m \in Ids : CompletedOK(iModels'[m])
  BY <1>1 DEF PartsInv
<1> QED
  BY <1>1, <1>2, <1>3, <1>4, <1>5, PartsStep

\* A checkpoint is generated of a version that has none.
LEMMA CheckpointGeneratedKeeps ==
    ASSUME ShareInv, PartsInv, ~repeated, NEW m \in Ids, CheckpointGenerated(m)
    PROVE  PartsInv'
<1>1. UNCHANGED <<created, repeated, recreates, run, waits, calls, ends>>
  BY DEF CheckpointGenerated, bounds
<1>2. PICK i \in DOMAIN iModels[m].versions : \E state \in {"successful", "failed"} : \E now \in AnyIModel :
          /\ Gets(m, now) /\ iModels[m].versions[i].checkpoint = "scheduled"
          /\ now = [iModels[m] EXCEPT !.versions = [@ EXCEPT ![i].checkpoint = state]]
  BY GeneratedGets
<1>3. PICK state \in {"successful", "failed"}, now \in AnyIModel :
          /\ Gets(m, now) /\ iModels[m].versions[i].checkpoint = "scheduled"
          /\ now = [iModels[m] EXCEPT !.versions = [@ EXCEPT ![i].checkpoint = state]]
  BY <1>2
<1>4. iModels \in [Ids -> AnyIModel] /\ iModels[m] \in AnyIModel
  BY DEF ShareInv, TypeOK
<1>5. /\ iModels'[m] = now /\ \A n \in Ids : n # m => iModels'[n] = iModels[n]
  BY <1>3, <1>4 DEF Gets
<1>6. /\ now.description = iModels[m].description /\ now.exists = iModels[m].exists
      /\ now.briefcases = iModels[m].briefcases /\ now.groups = iModels[m].groups
      /\ now.closed = iModels[m].closed /\ now.changesets = iModels[m].changesets
      /\ now.extended = iModels[m].extended /\ now.locks = iModels[m].locks
      /\ now.versions = [iModels[m].versions EXCEPT ![i].checkpoint = state]
  BY <1>3, <1>4 DEF AnyIModel
<1>7. iModels[m].versions \in Seq([name : DOMAIN NamedVersions, changeset : 1..Changesets,
                                   checkpoint : {"scheduled", "successful", "failed"}])
  BY <1>4 DEF AnyIModel
<1>8. /\ DOMAIN now.versions = DOMAIN iModels[m].versions /\ Len(now.versions) = Len(iModels[m].versions)
      /\ \A j \in DOMAIN now.versions :
             /\ now.versions[j].name = iModels[m].versions[j].name
             /\ now.versions[j].changeset = iModels[m].versions[j].changeset
             /\ j # i => now.versions[j].checkpoint = iModels[m].versions[j].checkpoint
  BY <1>6, <1>7
<1>9. ASSUME NEW n, Holds(iModels[m], n)
      PROVE  Holds(now, n)
  <2>1. now.groups = Numbered(n["groups"])
    BY <1>6, <1>9 DEF Holds
  <2>2. now.changesets = [c \in 1..n["changesets"] |-> GroupOf(c, InOrder)]
    BY <1>6, <1>9 DEF Holds
  <2>3. now.extended = [k \in 1..n["extendedData"] |-> ExtendedData[k]]
    BY <1>6, <1>9 DEF Holds
  <2>4. /\ now.briefcases = n["briefcases"] /\ now.closed = 1..n["completeGroups"] /\ now.locks = n["lock"]
        /\ Len(now.versions) = n["namedVersions"]
    BY <1>6, <1>8, <1>9 DEF Holds
  <2>5. \A j \in DOMAIN now.versions : now.versions[j].name = j /\ now.versions[j].changeset = NamedVersions[j]
    BY <1>8, <1>9 DEF Holds
  <2> QED
    BY <2>1, <2>2, <2>3, <2>4, <2>5 DEF Holds
<1>10. ASSUME NEW n \in Ids
       PROVE  CompletedOK(iModels'[n])
  <2>1. CompletedOK(iModels[n])
    BY DEF PartsInv
  <2>2. CASE n = m
    <3>1. iModels[m].description # "completed"
      BY <1>3, <2>1, <2>2 DEF CompletedOK
    <3> QED
      BY <1>5, <1>6, <2>2, <3>1 DEF CompletedOK
  <2> QED
    BY <1>5, <2>1, <2>2
<1>11. ASSUME NEW r \in Runs
       PROVE  CreationOK(run[r], waits[r], iModels'[run[r].m])
  <2>1. SUFFICES ASSUME run[r].at \in PartNames PROVE CreationOK(run[r], waits[r], iModels'[run[r].m])
    BY DEF CreationOK
  <2>2. run[r].m \in Ids
    BY <2>1, ShareFacts, ReusableAssumption DEF RunOK, AnyRun, Ids, NoIModel
  <2>3. CreationOK(run[r], waits[r], iModels[run[r].m])
    BY DEF PartsInv
  <2>4. CASE run[r].m = m
    <3>1. SUFFICES ASSUME iModels[m].exists PROVE CreationOK(run[r], waits[r], now)
      BY <1>5, <1>6, <2>4 DEF CreationOK
    <3>2. /\ iModels[m].description = "inProgress" /\ Holds(iModels[m], Sent(run[r]))
          /\ run[r].groupIds = Numbered(Answered(run[r], "groups"))
          /\ CheckpointsOK(run[r], waits[r], iModels[m])
      BY <2>1, <2>3, <2>4, <3>1 DEF CreationOK
    <3>3. CheckpointsOK(run[r], waits[r], now)
      BY <1>3, <1>8, <3>2 DEF CheckpointsOK
    <3>4. Holds(now, Sent(run[r]))
      BY <1>9, <3>2
    <3> QED
      BY <1>6, <3>2, <3>3, <3>4 DEF CreationOK
  <2> QED
    BY <1>5, <2>2, <2>3, <2>4
<1> QED
  BY <1>1, <1>10, <1>11 DEF PartsInv, OwnerInv

\* An iModel whose run has ended is left as it is.
LEMMA EndedKeeps == ASSUME ShareInv, PartsInv, ~repeated, NEW r \in Runs, Ended(r) PROVE PartsInv'
<1>1. Become(r, NewRun) /\ UNCHANGED iModels /\ \A q \in Runs \ {r} : waits'[q] = waits[q]
  BY ShareFacts DEF Ended, service
<1>2. NewRun.at \notin PartNames
  BY DEF NewRun, PartNames
<1> QED
  BY <1>1, <1>2, PartsElsewhere

\* The same when a wait fails.
LEMMA WaitFailsKeeps ==
    ASSUME ShareInv, PartsInv, ~repeated, NEW r \in Runs, NEW w, WaitFails(r, w)
    PROVE  PartsInv'
<1>1. CASE Ended(r)
  BY <1>1, EndedKeeps
<1>2. CASE ~Ended(r)
  <2>1. Become(r, NewRun) /\ UNCHANGED iModels /\ \A q \in Runs \ {r} : waits'[q] = waits[q]
    BY <1>2, ShareFacts DEF WaitFails, Thrown, service
  <2>2. NewRun.at \notin PartNames
    BY DEF NewRun, PartNames
  <2> QED
    BY <2>1, <2>2, PartsElsewhere
<1> QED
  BY <1>1, <1>2

\* The same when a request fails, performed or not.
LEMMA FailsKeeps == ASSUME ShareInv, PartsInv, ~repeated, NEW r \in Runs, Fails(r) PROVE PartsInv'
<1>1. Become(r, NewRun) /\ UNCHANGED waits /\ (UNCHANGED iModels \/ Perform(r))
  BY DEF Fails, Thrown
<1>2. NewRun.at \notin PartNames
  BY DEF NewRun, PartNames
<1> QED
  BY <1>1, <1>2, PartsElsewhere

\* What is no part of a creation.
LEMMA OthersKeep ==
    ASSUME ShareInv, PartsInv, ~repeated, NEW r \in Runs,
           GetOrCreate(r) \/ Find(r) \/ Sleep(r) \/ Look(r) \/ Delete(r) \/ Query(r)
    PROVE  PartsInv'
<1>1. \A m, n : Loop(run[r], m, n).at \notin PartNames
  <2>1. SUFFICES ASSUME NEW m, NEW n PROVE Loop(run[r], m, n).at \notin PartNames
    OBVIOUS
  <2>2. CASE n = MaxAttempts
    BY <2>2 DEF Loop, Thrown, NewRun, PartNames
  <2>3. CASE n # MaxAttempts
    <3>1. PICK x : x = IF iModels[m].description = "completed" THEN "queryBriefcases" ELSE "sleep"
      OBVIOUS
    <3>2. Loop(run[r], m, n) = [run[r] EXCEPT !.m = m, !.attempts = n, !.at = x]
      BY <2>3, <3>1 DEF Loop
    <3>3. Loop(run[r], m, n).at = x
      BY <3>2, ShareFacts DEF AnyRun
    <3> QED
      BY <3>1, <3>3 DEF PartNames
  <2> QED
    BY <2>2, <2>3
<1>2. /\ [run[r] EXCEPT !.at = "find"].at \notin PartNames /\ [run[r] EXCEPT !.at = "create"].at \notin PartNames
      /\ [run[r] EXCEPT !.at = "look"].at \notin PartNames
      /\ [run[r] EXCEPT !.at = "create", !.m = NoIModel].at \notin PartNames
      /\ \A m : [run[r] EXCEPT !.at = "delete", !.m = m].at \notin PartNames
      /\ \A at : [run[r] EXCEPT !.at = at].at = at
  BY ShareFacts DEF AnyRun, PartNames
<1>3. \A m : [NewRun EXCEPT !.reusable = m].at = "idle" /\ NewRun.at = "idle"
  BY DEF NewRun
<1>4. UNCHANGED waits /\ (UNCHANGED iModels \/ Perform(r))
  BY DEF GetOrCreate, Find, Sleep, Look, Delete, Query, service, Perform
<1>5. \E s : Become(r, s) /\ s.at \notin PartNames
  <2>1. CASE GetOrCreate(r)
    BY <2>1, <1>2 DEF GetOrCreate
  <2>2. CASE Find(r)
    <3>1. CASE Become(r, [run[r] EXCEPT !.at = "create"])
      BY <3>1, <1>2
    <3>2. ASSUME NEW m \in OfTheName, Become(r, [run[r] EXCEPT !.at = "delete", !.m = m])
          PROVE  \E s : Become(r, s) /\ s.at \notin PartNames
      BY <3>2, <1>2
    <3> QED
      BY <2>2, <3>1, <3>2, <1>1 DEF Find
  <2>3. CASE Sleep(r)
    BY <2>3, <1>2 DEF Sleep
  <2>4. CASE Look(r)
    BY <2>4, <1>1 DEF Look
  <2>5. CASE Delete(r)
    BY <2>5, <1>2 DEF Delete
  <2>6. CASE Query(r)
    <3>1. PICK i \in DOMAIN Queries :
              Become(r, IF ~Expected(iModels[run[r].m], Queries[i]) THEN Thrown(run[r])
                        ELSE IF i = Len(Queries) THEN Returned(run[r], run[r].m)
                        ELSE [run[r] EXCEPT !.at = Queries[i + 1]])
      BY <2>6 DEF Query
    <3>2. CASE Become(r, Thrown(run[r])) \/ Become(r, Returned(run[r], run[r].m))
      BY <3>2, <1>3 DEF Thrown, Returned, PartNames
    <3>3. CASE i # Len(Queries) /\ Become(r, [run[r] EXCEPT !.at = Queries[i + 1]])
      <4>1. i + 1 \in DOMAIN Queries
        BY <3>3 DEF Queries
      <4>2. Queries[i + 1] \in QueryNames
        BY <4>1, PartsInOrder
      <4>3. Queries[i + 1] \notin PartNames
        BY <4>2 DEF PartNames, QueryNames
      <4> QED
        BY <3>3, <4>3, <1>2
    <3> QED
      BY <3>1, <3>2, <3>3
  <2> QED
    BY <2>1, <2>2, <2>3, <2>4, <2>5, <2>6
<1> QED
  BY <1>4, <1>5, PartsElsewhere

\* Every step keeps PartsInv.
LEMMA PartsNext == ShareInv /\ PartsInv /\ [Next]_vars => PartsInv'
<1>1. SUFFICES ASSUME ShareInv, PartsInv, [Next]_vars, ~repeated' PROVE PartsInv'
  BY DEF PartsInv
<1>2. CASE UNCHANGED vars
  BY <1>1, <1>2 DEF vars, service, PartsInv, OwnerInv
<1>3. CASE Next
  <2>1. \A r \in Runs : ~Repeat(r)
    BY <1>1 DEF Repeat
  <2>2. ASSUME repeated PROVE FALSE
    <3>1. UNCHANGED repeated
      BY <1>3, <2>1
         DEF Next, Proceed, GetOrCreate, Find, Sleep, Look, Delete, Create, Part, AllGenerated, Query, Fails,
             Wait, WaitFails, Ended, CheckpointGenerated, service
    <3> QED
      BY <1>1, <2>2, <3>1
  <2> QED
    BY <1>1, <1>3, <2>1, <2>2, OthersKeep, CreateKeeps, PartKeeps, AllGeneratedKeeps, FailsKeeps,
       WaitKeeps, WaitFailsKeeps, EndedKeeps, CheckpointGeneratedKeeps
       DEF Next, Proceed
<1> QED
  BY <1>1, <1>2, <1>3

\* At first no run creates an iModel.
LEMMA PartsInit == Init => PartsInv
<1>1. SUFFICES ASSUME Init PROVE PartsInv
  OBVIOUS
<1>2. \A r \in Runs : run[r].at \notin PartNames
  BY <1>1 DEF Init, NewRun, PartNames
<1>3. \A m \in Ids : iModels[m].description # "completed"
  BY <1>1, NothingIsTyped DEF Init
<1> QED
  BY <1>2, <1>3 DEF PartsInv, OwnerInv, CreationOK, CompletedOK

\* An iModel that a run creates holds what the answered requests have made of it, and one that says
\* that it is completed holds what all have, unless a request was performed twice.
THEOREM PartsInvariant == Spec => []PartsInv
<1> QED
  BY PartsInit, PartsNext, ShareInvariant, PTL DEF Spec

\* The versions that come before one are those that were made before it.
LEMMA SortedIs ==
    ASSUME NEW now \in AnyIModel, Holds(now, AllSent)
    PROVE  Len(now.versions) = Len(NamedVersions)
           /\ \A i \in DOMAIN NamedVersions : Sorted(now.versions)[i] = now.versions[i]
<1>1. PICK versions : versions = now.versions
  OBVIOUS
<1>2. /\ versions \in Seq([name : DOMAIN NamedVersions, changeset : 1..Changesets,
                           checkpoint : {"scheduled", "successful", "failed"}])
      /\ NamedVersions \in Seq(1..Changesets)
  BY <1>1, ReusableAssumption DEF AnyIModel
<1>3. PICK n \in Nat : n = Len(NamedVersions)
  BY <1>2
<1>4. AllSent["namedVersions"] = n
  BY <1>3 DEF AllSent, PartNames, Requests
<1>5. Len(versions) = n /\ \A i \in DOMAIN versions : versions[i].changeset = NamedVersions[i]
  BY <1>1, <1>4 DEF Holds
<1>6. DOMAIN versions = 1..n /\ DOMAIN NamedVersions = 1..n
  BY <1>2, <1>3, <1>5
<1>7. \A i, j \in 1..n : NamedVersions[i] \in Nat /\ (i < j => NamedVersions[i] < NamedVersions[j])
  <2>1. Changesets \in Nat /\ \A i \in 1..n : NamedVersions[i] \in 1..Changesets
    BY <1>2, <1>6, ReusableAssumption
  <2>2. \A i, j \in 1..n : i < j => NamedVersions[i] < NamedVersions[j]
    BY <1>6, ReusableAssumption
  <2> QED
    BY <2>1, <2>2
<1> DEFINE Before(i) == {j \in DOMAIN versions :
                            \/ versions[j].changeset < versions[i].changeset
                            \/ versions[j].changeset = versions[i].changeset /\ j < i}
<1>8. ASSUME NEW i \in 1..n
      PROVE  Before(i) = 1..(i - 1) /\ Cardinality(Before(i)) = i - 1
  <2>1. \A j \in 1..n : (versions[j].changeset < versions[i].changeset
                            \/ (versions[j].changeset = versions[i].changeset /\ j < i)) <=> j < i
    <3>1. SUFFICES ASSUME NEW j \in 1..n
                   PROVE  (NamedVersions[j] < NamedVersions[i]
                              \/ (NamedVersions[j] = NamedVersions[i] /\ j < i)) <=> j < i
      BY <1>5, <1>6
    <3>2. j < i \/ j = i \/ i < j
      OBVIOUS
    <3> QED
      BY <1>7, <3>2
  <2>2. Before(i) = {j \in 1..n : j < i}
    BY <1>6, <2>1
  <2>3. Before(i) = 1..(i - 1)
    BY <2>2
  <2>4. Cardinality(1..(i - 1)) = i - 1
    <3>1. 1 \in Int /\ i - 1 \in Int /\ (IF 1 > i - 1 THEN 0 ELSE (i - 1) - 1 + 1) = i - 1
      OBVIOUS
    <3> QED
      BY <3>1, FS_Interval
  <2> QED
    BY <2>3, <2>4
<1>9. ASSUME NEW k \in 1..n
      PROVE  (CHOOSE i \in DOMAIN versions : Cardinality(Before(i)) = k - 1) = k
  <2>1. Cardinality(Before(k)) = k - 1 /\ \A i \in 1..n : Cardinality(Before(i)) = k - 1 => i = k
    <3>1. \A i \in 1..n : Cardinality(Before(i)) = i - 1
      BY <1>8
    <3> HIDE DEF Before
    <3> QED
      BY <3>1
  <2> HIDE DEF Before
  <2> QED
    BY <1>6, <2>1
<1>10. Sorted(versions) =
           [k \in DOMAIN versions |->
               versions[CHOOSE i \in DOMAIN versions : Cardinality(Before(i)) = k - 1]]
  BY DEF Sorted
<1>11. \A k \in 1..n : Sorted(versions)[k] = versions[k]
  <2> HIDE DEF Before
  <2> QED
    BY <1>6, <1>9, <1>10
<1> QED
  BY <1>1, <1>3, <1>5, <1>6, <1>11

\* CompletedIsWhole: what says that its creation has completed holds all that is checked, has its
\* checkpoints and its groups completed, unless a request was performed twice.
THEOREM CompletedWhole == Spec => []CompletedIsWhole
<1>1. ShareInv /\ PartsInv => CompletedIsWhole
  <2>1. SUFFICES ASSUME ShareInv, PartsInv, NEW m \in Ids, iModels[m].description = "completed", ~repeated
                 PROVE  /\ \A i \in DOMAIN Queries : Expected(iModels[m], Queries[i])
                        /\ \A i \in DOMAIN iModels[m].versions : iModels[m].versions[i].checkpoint = "successful"
                        /\ iModels[m].closed = DOMAIN iModels[m].groups
    BY DEF CompletedIsWhole
  <2>2. PICK now : now = iModels[m]
    OBVIOUS
  <2>3. now \in AnyIModel
    BY <2>1, <2>2 DEF ShareInv, TypeOK
  <2>4. Holds(now, AllSent) /\ \A i \in DOMAIN now.versions : now.versions[i].checkpoint = "successful"
    BY <2>1, <2>2 DEF PartsInv, CompletedOK
  <2>5. PICK n : n = AllSent
    OBVIOUS
  <2>6. /\ n["briefcases"] = BriefcaseCount /\ n["groups"] = Len(ChangesetGroups)
        /\ n["changesets"] = Changesets /\ n["completeGroups"] = Len(ChangesetGroups)
        /\ n["extendedData"] = Len(ExtendedData) /\ n["lock"] = 1
    BY <2>5 DEF AllSent, PartNames, Requests
  <2>7. Len(ChangesetGroups) \in Nat /\ Changesets \in Nat /\ Len(ExtendedData) \in Nat
        /\ DOMAIN ChangesetGroups = 1..Len(ChangesetGroups)
    BY ReusableAssumption
  <2>8. now.groups = InOrder /\ Len(now.groups) = Len(ChangesetGroups) /\ DOMAIN now.groups = 1..Len(ChangesetGroups)
    <3>1. now.groups = Numbered(Len(ChangesetGroups))
      BY <2>4, <2>5, <2>6 DEF Holds
    <3> QED
      BY <2>7, <3>1 DEF Numbered, InOrder
  <2>9. Len(now.changesets) = Changesets /\ EachInItsGroup(now)
    <3>1. now.changesets = [c \in 1..n["changesets"] |-> GroupOf(c, InOrder)]
      BY <2>4, <2>5 DEF Holds
    <3>2. \A c \in 1..Changesets : now.changesets[c] = GroupOf(c, now.groups)
      BY <2>6, <2>8, <3>1
    <3>3. Len(now.changesets) = Changesets
      BY <2>6, <2>7, <3>1
    <3> QED
      BY <3>2, <3>3 DEF EachInItsGroup
  <2>10. Len(now.extended) = Len(ExtendedData)
    <3>1. now.extended = [i \in 1..n["extendedData"] |-> ExtendedData[i]]
      BY <2>4, <2>5 DEF Holds
    <3> QED
      BY <2>6, <2>7, <3>1
  <2>11. now.briefcases = BriefcaseCount /\ now.locks = 1 /\ now.closed = 1..Len(ChangesetGroups)
    BY <2>4, <2>5, <2>6 DEF Holds
  <2>12. /\ Len(now.versions) = Len(NamedVersions)
         /\ \A i \in DOMAIN NamedVersions :
                Sorted(now.versions)[i].name = i /\ Sorted(now.versions)[i].changeset = NamedVersions[i]
    <3>1. \A i \in DOMAIN now.versions : now.versions[i].name = i /\ now.versions[i].changeset = NamedVersions[i]
      BY <2>4 DEF Holds
    <3>2. DOMAIN now.versions = DOMAIN NamedVersions
      <4>1. now.versions \in Seq([name : DOMAIN NamedVersions, changeset : 1..Changesets,
                                  checkpoint : {"scheduled", "successful", "failed"}])
        BY <2>3 DEF AnyIModel
      <4>2. Len(now.versions) = Len(NamedVersions)
        BY <2>3, <2>4, SortedIs
      <4> QED
        BY <4>1, <4>2, ReusableAssumption
    <3> QED
      BY <2>3, <2>4, <3>1, <3>2, SortedIs
  <2>13. \A query \in QueryNames : Expected(now, query)
    BY <2>8, <2>9, <2>10, <2>11, <2>12 DEF QueryNames, Expected
  <2>14. \A i \in DOMAIN Queries : Queries[i] \in QueryNames
    BY PartsInOrder
  <2> QED
    BY <2>2, <2>4, <2>8, <2>11, <2>13, <2>14
<1> QED
  BY <1>1, ShareInvariant, PartsInvariant, PTL
===============================================================================
