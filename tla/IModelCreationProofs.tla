-------------------------- MODULE IModelCreationProofs --------------------------
(***************************************************************************)
(* That an iModel which is returned is initialized from the whole of its   *)
(* file, that an error tells its cause and that a timeout overlooks        *)
(* nothing, for every timeout, sleep period and choice of operations, and  *)
(* whatever the service makes of a creation and when.                      *)
(***************************************************************************)
EXTENDS IModelCreation, TLAPS

Polling == {"poll", "sleep", "fetch"}
Unsettled == {"prepare", "create", "upload", "complete"} \union Polling

\* Only createNewIModel has a copy of a file, and only a baseline is uploaded.
KindInv == /\ ByBackend => kind = "baseline"
           /\ ~ByBackend => copy = "none" /\ phase # "prepare"
           /\ phase = "prepare" => copy = "none"
           /\ phase \in {"upload", "complete"} => kind = "baseline"
           /\ kind # "baseline" => creation # "waitingForFile"

\* The file that is uploaded is whole, and nothing is waited for without it.
FileInv == /\ given # "partOfIt"
           /\ phase \in {"create", "upload"} /\ ByBackend => copy = "prepared"
           /\ phase \in {"complete", "fulfilled"} \union Polling /\ kind = "baseline" =>
                 uploaded = IF ByBackend THEN "prepared" ELSE "asGiven"
           /\ phase = "fulfilled" => copy = "none"

\* before the creation has come to an end
Unfinished == {"none", "waitingForFile", "scheduled"}

\* What the service says when the client asks.
StateInv == /\ phase \in {"prepare", "create"} => creation = "none"
            /\ phase \in {"upload", "complete"} => creation = "waitingForFile"
            /\ phase \in {"poll", "sleep"} => creation \notin {"none", "waitingForFile"}
            /\ phase \in {"fetch", "fulfilled"} => creation = "successful"

\* Each sleep takes one of the polls; a creation that has come to an end has done so since
\* the client looked last.
WaitInv == /\ phase \in Unsettled => error = "none"
           /\ phase \in Unsettled \ Polling => clock = 0 /\ retries = 0
           /\ phase \in Polling => retries > 0 /\ clock + retries * SleepPeriodInMs = Polls * SleepPeriodInMs
           /\ phase \in Unsettled /\ creation \in Unfinished => finishedAt = Never
           /\ phase = "poll" => finishedAt >= clock
           /\ phase = "sleep" => finishedAt >= clock + SleepPeriodInMs

\* A creation that came to an end, well or not, a sleep period before a timeout is seen.
TimeoutInv == TimedOut => finishedAt + SleepPeriodInMs > clock

CreationInv == /\ TypeOK /\ KindInv /\ FileInv /\ StateInv /\ WaitInv /\ TimeoutInv
               /\ ErrorTellsCause /\ TimedOutMeansNotReady
-------------------------------------------------------------------------------
(* The arithmetic of waitForCondition.                                     *)

\* All polls together last as long as was asked for.
LEMMA PollsCover ==
    /\ Polls \in Nat
    /\ Polls * SleepPeriodInMs \in Nat
    /\ TimeOutInMs <= Polls * SleepPeriodInMs
    /\ Never \in Nat /\ Never = Polls * SleepPeriodInMs + SleepPeriodInMs
<1> DEFINE n == TimeOutInMs + SleepPeriodInMs - 1
           d == SleepPeriodInMs
<1>1. n \in Nat /\ d \in Nat \ {0} /\ TimeOutInMs \in Nat
  BY CreationAssumption
<1>2. n \div d \in Nat /\ d * (n \div d) > n - d
  BY <1>1
<1>3. Polls = n \div d
  BY DEF Polls
<1>4. Polls \in Nat /\ d * Polls > n - d
  BY <1>2, <1>3
<1> HIDE DEF d
<1>5. d * Polls = Polls * d /\ Polls * d \in Nat /\ (Polls + 1) * d = Polls * d + d
  BY <1>1, <1>4
<1>6. Never = Polls * d + d
  BY <1>5 DEF Never, d
<1>7. TimeOutInMs <= Polls * d
  BY <1>1, <1>4, <1>5 DEF d
<1> QED
  BY <1>1, <1>4, <1>5, <1>6, <1>7 DEF d

\* A sleep less to come is a sleep more that has passed.
LEMMA OnePollLess ==
    ASSUME NEW m \in Nat, NEW n \in Nat, m + n * SleepPeriodInMs = Polls * SleepPeriodInMs
    PROVE  (m + SleepPeriodInMs) + (n - 1) * SleepPeriodInMs = Polls * SleepPeriodInMs
<1>1. SleepPeriodInMs \in Nat /\ Polls * SleepPeriodInMs \in Nat
  BY CreationAssumption, PollsCover
<1>2. (n - 1) * SleepPeriodInMs = n * SleepPeriodInMs - SleepPeriodInMs
  BY <1>1
<1>3. n * SleepPeriodInMs \in Nat
  BY <1>1
<1> QED
  BY <1>1, <1>2, <1>3

\* While a poll is left the end of the wait is at least a sleep away.
LEMMA SleepFits ==
    ASSUME NEW m \in Nat, NEW n \in Nat, n > 0,
           m + n * SleepPeriodInMs = Polls * SleepPeriodInMs
    PROVE  m + SleepPeriodInMs <= Polls * SleepPeriodInMs
<1>1. SleepPeriodInMs \in Nat /\ Polls * SleepPeriodInMs \in Nat
  BY CreationAssumption, PollsCover
<1>2. (n - 1) * SleepPeriodInMs = n * SleepPeriodInMs - SleepPeriodInMs /\ n - 1 \in Nat
  BY <1>1
<1>3. (n - 1) * SleepPeriodInMs \in Nat /\ n * SleepPeriodInMs \in Nat
  BY <1>1, <1>2
<1> QED
  BY <1>1, <1>2, <1>3
-------------------------------------------------------------------------------
(* The codes of the errors.                                                *)

\* A timeout has a code of its own, but for createEmpty.
LEMMA CodesApart ==
    ASSUME NEW k \in AllKinds
    PROVE  /\ FailureCode[k] \in Codes /\ TimeoutCode[k] \in Codes
           /\ k # "empty" => FailureCode[k] # TimeoutCode[k]
           /\ {FailureCode[k], TimeoutCode[k]} \intersect
                  {"none", "apiError", "nativeError", "InvalidIModelGCSCreationMode",
                   "MainIModelIsMissingFederationGuids"} = {}
<1>1. FailureCode[k] \in Codes /\ TimeoutCode[k] \in Codes
  BY DEF Codes
<1>2. k \in {"empty", "template", "clone", "fork", "baseline"}
  BY DEF AllKinds
<1> QED
  BY <1>1, <1>2 DEF FailureCode, TimeoutCode

LEMMA StatesOfKind ==
    ASSUME NEW k \in AllKinds
    PROVE  /\ FirstStates[k] \subseteq {"waitingForFile", "scheduled", "successful"}
           /\ k = "baseline" => FirstStates[k] = {"waitingForFile"}
           /\ k # "baseline" => "waitingForFile" \notin FirstStates[k]
           /\ FailedStates[k] \subseteq
                  {"failed", "mainIModelIsMissingFederationGuids", "fileIsBriefcase"}
           /\ FirstStates[k] \union FailedStates[k] \subseteq States
<1>1. k \in {"empty", "template", "clone", "fork", "baseline"}
  BY DEF AllKinds
<1>2. FailedStates[k] \subseteq States
  BY DEF States
<1> QED
  BY <1>1, <1>2 DEF FirstStates, FailedStates, States

LEMMA StatesListed ==
    States = {"none", "waitingForFile", "scheduled", "successful", "failed",
              "mainIModelIsMissingFederationGuids", "fileIsBriefcase"}
<1>1. UNION {FailedStates[k] : k \in AllKinds} =
          {"failed", "mainIModelIsMissingFederationGuids", "fileIsBriefcase"}
  BY DEF FailedStates, AllKinds
<1> QED
  BY <1>1 DEF States
-------------------------------------------------------------------------------
(* The files.                                                              *)

LEMMA InitInv == Init => CreationInv
<1> SUFFICES ASSUME Init PROVE CreationInv
  OBVIOUS
<1>1. kind \in AllKinds /\ Polls \in Nat /\ Never \in Nat
  BY CreationAssumption, PollsCover DEF Init
<1>2. TypeOK
  BY <1>1 DEF Init, TypeOK, Files, States, Codes, Settled
<1>3. KindInv /\ FileInv
  BY DEF Init, KindInv, FileInv, ByBackend, Polling
<1>4. StateInv /\ WaitInv
  BY DEF Init, StateInv, WaitInv, Polling, Unsettled
<1>5. ErrorTellsCause /\ TimedOutMeansNotReady /\ TimeoutInv
  BY <1>1, CodesApart DEF Init, ErrorTellsCause, TimedOutMeansNotReady, TimeoutInv, TimedOut
<1> QED
  BY <1>2, <1>3, <1>4, <1>5 DEF CreationInv

-------------------------------------------------------------------------------
(* Steps.                                                                  *)

USE DEF Settled, Polling, Unsettled

\* What holds of the constants that the kind picks.
LEMMA KindFacts ==
    ASSUME TypeOK
    PROVE  /\ kind \in AllKinds /\ kind \in Kinds
           /\ SleepPeriodInMs \in Nat \ {0} /\ TimeOutInMs \in Nat
BY CreationAssumption DEF TypeOK

\* An operation that throws what is no verdict of its own.
LEMMA ThrowStep ==
    ASSUME CreationInv, phase \in Unsettled,
           NEW code \in {"apiError", "nativeError", "InvalidIModelGCSCreationMode"}, Throw(code),
           code = "InvalidIModelGCSCreationMode" => creation' = "none",
           kind' = kind, given' \in Files \ {"partOfIt"}, ByBackend' = ByBackend, copy' \in Files,
           ~ByBackend => copy' = copy,
           creation' \in States, kind # "baseline" => creation' # "waitingForFile",
           UNCHANGED <<uploaded, retries, clock, finishedAt>>
    PROVE  CreationInv'
<1>1. phase' = "rejected" /\ error' = code
  BY DEF Throw
<1>2. kind \in AllKinds /\ kind \in Kinds
  BY KindFacts DEF CreationInv
<1>3. TypeOK'
  BY <1>1 DEF CreationInv, TypeOK, Codes
<1>4. KindInv' /\ FileInv' /\ StateInv' /\ WaitInv'
  BY <1>1 DEF CreationInv, KindInv, FileInv, StateInv, WaitInv
<1>5. error' \notin {FailureCode[kind], TimeoutCode[kind], "MainIModelIsMissingFederationGuids"}
  BY <1>1, <1>2, CodesApart
<1>6. ErrorTellsCause' /\ TimedOutMeansNotReady' /\ TimeoutInv'
  BY <1>1, <1>5 DEF ErrorTellsCause, TimedOutMeansNotReady, TimeoutInv, TimedOut
<1> QED
  BY <1>3, <1>4, <1>6 DEF CreationInv

\* A step on the way, that throws nothing.
LEMMA OnTheWay ==
    ASSUME CreationInv, phase \in Unsettled, UNCHANGED <<kind, error>>, ByBackend' = ByBackend,
           TypeOK', KindInv', FileInv', StateInv', WaitInv'
    PROVE  CreationInv'
<1>1. kind \in AllKinds /\ error' = "none"
  BY KindFacts DEF CreationInv, WaitInv
<1>2. ErrorTellsCause' /\ TimedOutMeansNotReady' /\ TimeoutInv'
  BY <1>1, CodesApart DEF ErrorTellsCause, TimedOutMeansNotReady, TimeoutInv, TimedOut
<1> QED
  BY <1>2 DEF CreationInv

\* The head of the loop: with no poll left all of the timeout has passed.
LEMMA LoopStep ==
    ASSUME CreationInv, phase \in Unsettled \ {"prepare"}, NEW n \in Nat, n <= Polls, Loop(n),
           UNCHANGED <<kind, files, uploaded, finishedAt>>,
           clock' \in Nat, clock' + n * SleepPeriodInMs = Polls * SleepPeriodInMs,
           finishedAt >= clock',
           creation' \in States \ {"none", "waitingForFile"},
           creation' = "scheduled" => finishedAt = Never,
           kind = "baseline" => uploaded = IF ByBackend THEN "prepared" ELSE "asGiven"
    PROVE  CreationInv'
<1>1. /\ kind \in AllKinds /\ SleepPeriodInMs \in Nat \ {0} /\ TimeOutInMs \in Nat
      /\ error = "none" /\ finishedAt \in Nat
  BY KindFacts DEF CreationInv, WaitInv, TypeOK
<1>2. ByBackend' = ByBackend
  BY DEF ByBackend, files
<1>3. CASE n > 0
  <2>1. retries' = n /\ phase' = "poll" /\ UNCHANGED error
    BY <1>3 DEF Loop
  <2>2. TypeOK'
    BY <2>1 DEF CreationInv, TypeOK, files
  <2>3. KindInv' /\ FileInv' /\ StateInv'
    BY <1>2, <2>1 DEF CreationInv, KindInv, FileInv, StateInv, files
  <2>4. WaitInv'
    BY <1>1, <1>3, <2>1 DEF WaitInv, Unfinished
  <2> QED
    BY <1>2, <2>1, <2>2, <2>3, <2>4, OnTheWay
<1>4. CASE n = 0
  <2>1. retries' = 0 /\ phase' = "rejected" /\ error' = TimeoutCode[kind]
    BY <1>4 DEF Loop, Throw
  <2>2. TypeOK'
    BY <1>1, <2>1, PollsCover, CodesApart DEF CreationInv, TypeOK, files
  <2>3. KindInv' /\ FileInv' /\ StateInv' /\ WaitInv'
    BY <1>2, <2>1 DEF CreationInv, KindInv, FileInv, StateInv, WaitInv, files
  <2>4. clock' = Polls * SleepPeriodInMs
    BY <1>1, <1>4
  <2>5. TimeOutInMs <= clock' /\ finishedAt' + SleepPeriodInMs > clock'
    BY <1>1, <2>4, PollsCover
  <2>6. /\ error' \notin {"MainIModelIsMissingFederationGuids", "InvalidIModelGCSCreationMode"}
        /\ kind' # "empty" => error' # FailureCode[kind']
    BY <1>1, <2>1, CodesApart
  <2>7. ErrorTellsCause' /\ TimedOutMeansNotReady' /\ TimeoutInv'
    BY <2>5, <2>6 DEF ErrorTellsCause, TimedOutMeansNotReady, TimeoutInv
  <2> QED
    BY <2>2, <2>3, <2>7 DEF CreationInv
<1> QED
  BY <1>3, <1>4

LEMMA PrepareStep == ASSUME CreationInv, Prepare PROVE CreationInv'
<1>1. /\ phase = "prepare" /\ phase' = "create" /\ kind = "baseline"
      /\ given' = AfterCheckpoint(given)
      /\ copy' = Edited(IF given = "none" THEN "blank" ELSE CopyOf(given'))
      /\ UNCHANGED <<kind, creation, uploaded, retries, clock, finishedAt, error>>
      /\ ByBackend
  BY DEF Prepare, CreationInv, KindInv
<1>2. given' \in Files /\ given' # "asGiven" /\ given' # "withWal"
  BY <1>1 DEF CreationInv, TypeOK, Files, AfterCheckpoint, ByBackend
<1>3. ByBackend' = ByBackend
  BY <1>1, <1>2 DEF ByBackend
<1>4. copy' \in Files
  BY <1>1, <1>2 DEF CopyOf, Edited, Files
<1>5. TypeOK'
  BY <1>1, <1>2, <1>4 DEF CreationInv, TypeOK
<1>6. given' # "partOfIt" /\ CopyOf(given') # "partOfIt"
  BY <1>1, <1>2 DEF CopyOf, AfterCheckpoint, CreationInv, FileInv
<1>7. KindInv' /\ StateInv' /\ WaitInv'
  BY <1>1, <1>3 DEF CreationInv, KindInv, StateInv, WaitInv
<1>8. FileInv'
  BY <1>1, <1>3, <1>6 DEF CreationInv, FileInv, KindInv, Edited
<1> QED
  BY <1>1, <1>3, <1>5, <1>7, <1>8, OnTheWay

LEMMA PrepareFailsStep == ASSUME CreationInv, PrepareFails PROVE CreationInv'
<1>1. /\ phase = "prepare" /\ ByBackend
      /\ given' \in {given, AfterCheckpoint(given)}
      /\ copy' \in {"none", "blank", CopyOf(given')}
      /\ Throw("nativeError")
      /\ UNCHANGED <<kind, creation, uploaded, retries, clock, finishedAt>>
  BY DEF PrepareFails, CreationInv, KindInv
<1>2. given' \in Files \ {"partOfIt"} /\ given' # "asGiven"
  BY <1>1 DEF CreationInv, TypeOK, FileInv, Files, AfterCheckpoint, ByBackend
<1>3. copy' \in Files
  BY <1>1, <1>2 DEF CopyOf, Files
<1>4. ByBackend' = ByBackend
  BY <1>1, <1>2 DEF ByBackend
<1>5. creation \in States /\ (kind # "baseline" => creation # "waitingForFile")
  BY DEF CreationInv, TypeOK, KindInv
<1> QED
  BY <1>1, <1>2, <1>3, <1>4, <1>5, ThrowStep

\* What fails with the files as they are.
LEMMA RequestFails ==
    ASSUME CreationInv, phase \in Unsettled, Throw("apiError"),
           creation' \in States, kind # "baseline" => creation' # "waitingForFile",
           UNCHANGED <<kind, files, uploaded, retries, clock, finishedAt>>
    PROVE  CreationInv'
<1>1. /\ given' \in Files \ {"partOfIt"} /\ copy' \in Files /\ copy' = copy
      /\ ByBackend' = ByBackend
  BY DEF CreationInv, TypeOK, FileInv, files, ByBackend
<1> QED
  BY <1>1, ThrowStep

LEMMA PropertiesRefusedStep == ASSUME CreationInv, PropertiesRefused PROVE CreationInv'
<1>1. /\ phase = "create" /\ Throw("InvalidIModelGCSCreationMode")
      /\ UNCHANGED <<kind, files, creation, uploaded, retries, clock, finishedAt>>
      /\ given' = given /\ copy' = copy /\ ByBackend' = ByBackend
  BY DEF PropertiesRefused, files, ByBackend
<1>2. /\ creation' = "none" /\ creation' \in States
      /\ given' \in Files \ {"partOfIt"} /\ copy' \in Files
  BY <1>1 DEF CreationInv, TypeOK, StateInv, FileInv
<1> QED
  BY <1>1, <1>2, ThrowStep

LEMMA CreateStep == ASSUME CreationInv, Create PROVE CreationInv'
<1>1. /\ phase = "create" /\ clock = 0 /\ retries = 0 /\ finishedAt = Never /\ creation = "none"
      /\ creation' \in FirstStates[kind]
      /\ UNCHANGED <<kind, files, uploaded, clock, finishedAt>>
      /\ kind \in AllKinds
  BY KindFacts DEF Create, CreationInv, WaitInv, StateInv, Unfinished
<1>2. /\ creation' \in States /\ creation' \in {"waitingForFile", "scheduled", "successful"}
      /\ creation' = "waitingForFile" <=> kind = "baseline"
  BY <1>1, StatesOfKind
<1>3. CASE creation' = "scheduled"
  <2>1. Loop(Polls) /\ kind # "baseline"
    BY <1>2, <1>3 DEF Create
  <2>2. /\ Polls \in Nat /\ clock' \in Nat /\ finishedAt >= clock'
        /\ clock' + Polls * SleepPeriodInMs = Polls * SleepPeriodInMs
    BY <1>1, PollsCover DEF CreationInv, TypeOK
  <2> HIDE DEF Loop
  <2> QED
    BY <1>1, <1>2, <1>3, <2>1, <2>2, LoopStep
<1>4. CASE creation' # "scheduled"
  <2>1. /\ phase' = IF kind = "baseline" THEN "upload" ELSE "fulfilled"
        /\ UNCHANGED <<retries, error>>
    BY <1>4 DEF Create
  <2>2. ByBackend' = ByBackend /\ given' = given /\ copy' = copy
    BY <1>1 DEF ByBackend, files
  <2>3. TypeOK'
    BY <1>1, <1>2, <2>1, <2>2 DEF CreationInv, TypeOK
  <2>4. KindInv'
    BY <1>1, <1>2, <2>1, <2>2 DEF CreationInv, KindInv
  <2>5. FileInv' /\ StateInv'
    BY <1>1, <1>2, <1>4, <2>1, <2>2 DEF CreationInv, KindInv, FileInv, StateInv
  <2>6. WaitInv'
    BY <1>1, <1>2, <1>4, <2>1 DEF CreationInv, WaitInv
  <2> QED
    BY <1>1, <2>1, <2>2, <2>3, <2>4, <2>5, <2>6, OnTheWay
<1> QED
  BY <1>3, <1>4

LEMMA CreateFailsStep == ASSUME CreationInv, CreateFails PROVE CreationInv'
<1>1. /\ kind \in AllKinds /\ phase = "create" /\ creation' \in {"none"} \union FirstStates[kind]
      /\ Throw("apiError") /\ UNCHANGED <<kind, files, uploaded, retries, clock, finishedAt>>
  BY KindFacts DEF CreateFails, CreationInv
<1>2. creation' \in States /\ (kind # "baseline" => creation' # "waitingForFile")
  BY <1>1, StatesOfKind, StatesListed
<1> QED
  BY <1>1, <1>2, RequestFails

LEMMA UploadStep == ASSUME CreationInv, Upload PROVE CreationInv'
<1>1. /\ phase = "upload" /\ phase' = "complete" /\ kind = "baseline"
      /\ uploaded' = IF ByBackend THEN copy ELSE given
      /\ UNCHANGED <<kind, creation, retries, clock, finishedAt, error>>
      /\ given' = given /\ copy' = copy /\ ByBackend' = ByBackend
  BY DEF Upload, files, ByBackend, CreationInv, KindInv
<1>2. TypeOK'
  BY <1>1 DEF CreationInv, TypeOK
<1>3. KindInv' /\ StateInv' /\ WaitInv'
  BY <1>1 DEF CreationInv, KindInv, StateInv, WaitInv
<1>4. ~ByBackend => given = "asGiven"
  BY DEF ByBackend
<1>5. FileInv'
  BY <1>1, <1>4 DEF CreationInv, FileInv
<1> QED
  BY <1>1, <1>2, <1>3, <1>5, OnTheWay

LEMMA CompleteStep == ASSUME CreationInv, Complete PROVE CreationInv'
<1>1. /\ phase = "complete" /\ clock = 0 /\ finishedAt = Never
      /\ creation' = "scheduled" /\ Loop(Polls)
      /\ UNCHANGED <<kind, files, uploaded, clock, finishedAt>>
      /\ kind = "baseline" => uploaded = IF ByBackend THEN "prepared" ELSE "asGiven"
      /\ creation = "waitingForFile"
  BY DEF Complete, CreationInv, WaitInv, StateInv, FileInv, Unfinished
<1>2. /\ Polls \in Nat /\ clock' \in Nat /\ finishedAt >= clock'
      /\ clock' + Polls * SleepPeriodInMs = Polls * SleepPeriodInMs
  BY <1>1, PollsCover DEF CreationInv, TypeOK
<1>3. creation' \in States
  BY <1>1, StatesListed
<1> QED
  BY <1>1, <1>2, <1>3, LoopStep

LEMMA PollStep == ASSUME CreationInv, Poll PROVE CreationInv'
<1>1. /\ phase = "poll" /\ UNCHANGED <<kind, creation, uploaded, retries, clock, finishedAt>>
      /\ given' = given /\ copy' = copy /\ ByBackend' = ByBackend
  BY DEF Poll, files, ByBackend
<1>2. /\ creation \in States \ {"none", "waitingForFile"} /\ error = "none"
      /\ kind \in AllKinds /\ SleepPeriodInMs \in Nat \ {0}
  BY <1>1, KindFacts DEF CreationInv, TypeOK, StateInv, WaitInv
<1>3. CASE creation = "scheduled"
  <2>1. phase' = "sleep" /\ UNCHANGED error
    BY <1>3 DEF Poll, Pending
  <2>2. TypeOK'
    BY <1>1, <2>1 DEF CreationInv, TypeOK
  <2>3. KindInv' /\ FileInv' /\ StateInv'
    BY <1>1, <1>2, <2>1 DEF CreationInv, KindInv, FileInv, StateInv
  <2>4. /\ retries \in Nat /\ retries > 0 /\ clock \in Nat
        /\ clock + retries * SleepPeriodInMs = Polls * SleepPeriodInMs
        /\ finishedAt = Never
    BY <1>1, <1>3, PollsCover DEF CreationInv, TypeOK, WaitInv, Unfinished
  <2>5. clock + SleepPeriodInMs <= Polls * SleepPeriodInMs
    BY <2>4, SleepFits
  <2>6. finishedAt >= clock + SleepPeriodInMs
    BY <1>2, <2>4, <2>5, PollsCover
  <2>7. WaitInv'
    BY <1>1, <2>1, <2>6 DEF CreationInv, WaitInv
  <2> QED
    BY <1>1, <2>1, <2>2, <2>3, <2>7, OnTheWay
<1>4. CASE creation = "successful"
  <2>1. phase' = "fetch" /\ UNCHANGED error
    BY <1>4 DEF Poll, Pending
  <2>2. TypeOK'
    BY <1>1, <2>1 DEF CreationInv, TypeOK
  <2>3. KindInv' /\ FileInv' /\ StateInv'
    BY <1>1, <1>4, <2>1 DEF CreationInv, KindInv, FileInv, StateInv
  <2>4. WaitInv'
    BY <1>1, <1>4, <2>1 DEF CreationInv, WaitInv
  <2> QED
    BY <1>1, <2>1, <2>2, <2>3, <2>4, OnTheWay
<1>5. CASE creation \notin {"scheduled", "successful"}
  <2> DEFINE code == IF creation = "mainIModelIsMissingFederationGuids"
                     THEN "MainIModelIsMissingFederationGuids" ELSE FailureCode[kind]
  <2>1. phase' = "rejected" /\ error' = code
    BY <1>2, <1>5 DEF Poll, Pending, Throw
  <2>2. creation \in {"failed", "mainIModelIsMissingFederationGuids", "fileIsBriefcase"}
    BY <1>2, <1>5, StatesListed
  <2>3. code \in Codes
    BY <1>2, CodesApart DEF Codes
  <2>4. TypeOK'
    BY <1>1, <2>1, <2>3 DEF CreationInv, TypeOK
  <2>5. KindInv' /\ FileInv' /\ StateInv' /\ WaitInv'
    BY <1>1, <2>1 DEF CreationInv, KindInv, FileInv, StateInv, WaitInv
  <2>6. ~TimedOut'
    BY <1>1, <1>2, <2>1, CodesApart DEF TimedOut
  <2>7. ErrorTellsCause'
    BY <1>1, <1>2, <2>1, <2>2, <2>6, CodesApart DEF ErrorTellsCause
  <2> QED
    BY <2>4, <2>5, <2>6, <2>7 DEF CreationInv, TimedOutMeansNotReady, TimeoutInv
<1> QED
  BY <1>3, <1>4, <1>5

LEMMA WakeStep == ASSUME CreationInv, Wake PROVE CreationInv'
<1>1. /\ phase = "sleep" /\ clock' = clock + SleepPeriodInMs /\ Loop(retries - 1)
      /\ UNCHANGED <<kind, files, creation, uploaded, finishedAt>>
  BY DEF Wake
<1>2. /\ SleepPeriodInMs \in Nat \ {0} /\ clock \in Nat /\ retries \in Nat
      /\ retries > 0 /\ retries <= Polls /\ Polls \in Nat
      /\ clock + retries * SleepPeriodInMs = Polls * SleepPeriodInMs
      /\ finishedAt >= clock + SleepPeriodInMs
      /\ creation = "scheduled" => finishedAt = Never
  BY <1>1, KindFacts, PollsCover DEF CreationInv, TypeOK, WaitInv, Unfinished
<1>3. clock' + (retries - 1) * SleepPeriodInMs = Polls * SleepPeriodInMs
  BY <1>1, <1>2, OnePollLess
<1>4. creation' \in States \ {"none", "waitingForFile"}
  BY <1>1 DEF CreationInv, TypeOK, StateInv
<1>5. kind = "baseline" => uploaded = IF ByBackend THEN "prepared" ELSE "asGiven"
  BY <1>1 DEF CreationInv, FileInv
<1>6. retries - 1 \in Nat /\ retries - 1 <= Polls /\ clock' \in Nat
  BY <1>1, <1>2
<1> QED
  BY <1>1, <1>2, <1>3, <1>4, <1>5, <1>6, LoopStep

LEMMA FetchStep == ASSUME CreationInv, Fetch PROVE CreationInv'
<1>1. /\ phase = "fetch" /\ phase' = "fulfilled" /\ copy' = "none" /\ given' = given
      /\ UNCHANGED <<kind, creation, uploaded, retries, clock, finishedAt, error>>
      /\ ByBackend' = ByBackend /\ creation = "successful"
  BY DEF Fetch, ByBackend, CreationInv, StateInv
<1>2. TypeOK'
  BY <1>1 DEF CreationInv, TypeOK, Files
<1>3. KindInv' /\ FileInv' /\ StateInv' /\ WaitInv'
  BY <1>1 DEF CreationInv, KindInv, FileInv, StateInv, WaitInv
<1> QED
  BY <1>1, <1>2, <1>3, OnTheWay

\* A request that says how far the creation is, or that carries a file.
LEMMA LaterFails ==
    ASSUME CreationInv, UploadFails \/ CompleteFails \/ PollFails \/ FetchFails
    PROVE  CreationInv'
<1>1. /\ phase \in {"upload", "complete", "poll", "fetch"} /\ Throw("apiError")
      /\ creation' \in {creation, "scheduled"}
      /\ UNCHANGED <<kind, files, uploaded, retries, clock, finishedAt>>
  BY DEF UploadFails, CompleteFails, PollFails, FetchFails
<1>2. creation' \in States /\ (kind # "baseline" => creation' # "waitingForFile")
  BY <1>1, StatesListed DEF CreationInv, TypeOK, KindInv
<1> QED
  BY <1>1, <1>2, RequestFails

\* The service may finish at any time, also when nobody waits any more.
LEMMA FinishStep == ASSUME CreationInv, Finish PROVE CreationInv'
<1>1. /\ creation = "scheduled" /\ creation' \in {"successful"} \union FailedStates[kind]
      /\ UNCHANGED <<kind, files, phase, uploaded, retries, clock, error>>
      /\ given' = given /\ copy' = copy /\ ByBackend' = ByBackend
      /\ kind \in AllKinds /\ SleepPeriodInMs \in Nat \ {0}
  BY KindFacts DEF Finish, files, ByBackend, CreationInv
<1>2. creation' \in States \ {"none", "waitingForFile", "scheduled"}
  BY <1>1, StatesOfKind, StatesListed
<1>3. phase \notin {"prepare", "create", "upload", "complete", "fetch", "fulfilled"}
  BY <1>1 DEF CreationInv, StateInv
<1>4. clock \in Nat /\ finishedAt \in Nat /\ finishedAt' \in Nat
  BY <1>1, <1>2 DEF Finish, CreationInv, TypeOK
<1>5. TypeOK'
  BY <1>1, <1>2, <1>4 DEF CreationInv, TypeOK
<1>6. KindInv' /\ FileInv' /\ StateInv'
  BY <1>1, <1>2, <1>3 DEF CreationInv, KindInv, FileInv, StateInv
<1>7. phase \notin Settled => phase \in {"poll", "sleep"}
  BY <1>3 DEF CreationInv, TypeOK
<1>8. CASE phase \in Settled
  <2>1. finishedAt' = finishedAt
    BY <1>8 DEF Finish
  <2>2. WaitInv'
    BY <1>1, <1>8 DEF WaitInv
  <2>3. error \notin {"MainIModelIsMissingFederationGuids", "InvalidIModelGCSCreationMode"}
    BY <1>1 DEF CreationInv, ErrorTellsCause
  <2>4. kind # "empty" => error # FailureCode[kind]
    BY <1>1 DEF CreationInv, ErrorTellsCause
  <2>5. TimedOut' => TimedOut /\ finishedAt' + SleepPeriodInMs > clock'
    BY <1>1, <2>1 DEF CreationInv, TimeoutInv, TimedOut
  <2>6. TimedOut => TimeOutInMs <= clock
    BY DEF CreationInv, TimedOutMeansNotReady
  <2>7. ErrorTellsCause' /\ TimedOutMeansNotReady' /\ TimeoutInv'
    BY <1>1, <2>3, <2>4, <2>5, <2>6 DEF ErrorTellsCause, TimedOutMeansNotReady, TimeoutInv
  <2> QED
    BY <1>5, <1>6, <2>2, <2>7 DEF CreationInv
<1>9. CASE phase \in {"poll", "sleep"}
  <2>1. finishedAt' = clock + IF phase = "sleep" THEN SleepPeriodInMs ELSE 0
    BY <1>9 DEF Finish
  <2>2. /\ phase = "poll" => finishedAt' >= clock
        /\ phase = "sleep" => finishedAt' >= clock + SleepPeriodInMs
    BY <1>1, <1>4, <2>1
  <2>3. WaitInv'
    BY <1>1, <1>2, <1>9, <2>2 DEF CreationInv, WaitInv, Unfinished
  <2> QED
    BY <1>1, <1>5, <1>6, <1>9, <2>3, OnTheWay
<1> QED
  BY <1>7, <1>8, <1>9

LEMMA NextInv == CreationInv /\ [Next]_vars => CreationInv'
<1> SUFFICES ASSUME CreationInv, [Next]_vars PROVE CreationInv'
  OBVIOUS
<1>1. CASE CallStep
  BY <1>1, PrepareStep, PrepareFailsStep, PropertiesRefusedStep, CreateStep, CreateFailsStep,
     UploadStep, CompleteStep, PollStep, WakeStep, FetchStep, LaterFails DEF CallStep
<1>2. CASE Finish
  BY <1>2, FinishStep
<1>3. CASE UNCHANGED vars
  BY <1>3 DEF vars, files, CreationInv, TypeOK, KindInv, FileInv, StateInv, WaitInv, ByBackend,
              ErrorTellsCause, TimedOutMeansNotReady, TimeoutInv, TimedOut
<1> QED
  BY <1>1, <1>2, <1>3 DEF Next, Done

LEMMA AlwaysCreationInv == Spec => []CreationInv
BY InitInv, NextInv, PTL DEF Spec
-------------------------------------------------------------------------------
(* What follows.                                                           *)

\* The variables keep their types.
THEOREM TypeCorrect == Spec => []TypeOK
<1>1. CreationInv => TypeOK
  BY DEF CreationInv
<1> QED
  BY <1>1, AlwaysCreationInv, PTL

\* The iModel that an operation returns is initialized, a baseline from the whole of its
\* file, prepared when the backend prepares it, and createNewIModel leaves no copy behind.
THEOREM ReturnedInitialized == Spec => []ReturnedMeansInitialized
<1>1. CreationInv => ReturnedMeansInitialized
  BY DEF CreationInv, StateInv, FileInv, ReturnedMeansInitialized
<1> QED
  BY <1>1, AlwaysCreationInv, PTL

\* A code of failure is thrown only for a creation that has failed, the one of missing
\* federation guids only for that reason, and the one of refused properties only when nothing
\* is created: what the service does later is of no account.  A failure that was there a sleep
\* period before the wait ended is not called a timeout.
THEOREM ErrorsTellCause == Spec => []ErrorTellsCause
<1>1. CreationInv => ErrorTellsCause
  BY DEF CreationInv
<1> QED
  BY <1>1, AlwaysCreationInv, PTL

\* Whatever the timeout, and whether or not the sleep period divides it, a wait that times
\* out has lasted as long, and overlooks nothing that was there a sleep period before its end.
THEOREM TimeoutsOverlookNothing == Spec => []TimedOutMeansNotReady
<1>1. CreationInv => TimedOutMeansNotReady
  BY DEF CreationInv
<1> QED
  BY <1>1, AlwaysCreationInv, PTL
===============================================================================
