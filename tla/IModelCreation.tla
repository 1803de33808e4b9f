----------------------------- MODULE IModelCreation -----------------------------
(***************************************************************************)
(* The operations that create an iModel and wait until it is initialized:  *)
(* createEmpty, createFromTemplate, clone and fork of the management       *)
(* client, createFromBaseline of the authoring client.  All of them send a *)
(* request, the last one also a file, and then look at the state of the    *)
(* creation once a second (waitForCondition) while the service works on it.*)
(* A request that fails is one that RestClient gave up on: the service may *)
(* have performed it all the same.                                         *)
(* createNewIModel of the backend calls the last one with a copy of the    *)
(* application's baseline file that it prepares first and removes after.   *)
(* Definitions called ...Defect are mistakes the properties must catch.    *)
(***************************************************************************)
EXTENDS Integers

CONSTANTS TimeOutInMs,      \* params.timeOutInMs ?? iModelInitializationTimeOutInMs
          SleepPeriodInMs,  \* Constants.time.sleepPeriodInMs
          Kinds             \* which of the operations are called

AllKinds == {"empty", "template", "clone", "fork", "baseline"}

ASSUME CreationAssumption == /\ TimeOutInMs \in Nat
                             /\ SleepPeriodInMs \in Nat \ {0}
                             /\ Kinds \subseteq AllKinds

VARIABLES kind,      \* the operation called
          given,     \* the baseline file, see Files
          copy,      \* createNewIModel: the file at tempBaselineFilePath
          phase,     \* where it is
          creation,  \* the state of the creation, or of the baseline file
          uploaded,  \* the baseline file in the storage
          retries,   \* the polls waitForCondition has left
          clock,     \* ms slept since the wait began
          finishedAt, \* the clock by which the creation had succeeded or failed
          error      \* the code of the error thrown; the backend adapts it, see ErrorAdapter

files == <<given, copy>>
vars == <<kind, files, phase, creation, uploaded, retries, clock, finishedAt, error>>

Settled == {"fulfilled", "rejected"}

\* what the service may answer first, and what a creation may fail with
FirstStates == [empty    |-> {"scheduled", "successful"},
                template |-> {"scheduled"},
                clone    |-> {"scheduled"},
                fork     |-> {"scheduled"},
                baseline |-> {"waitingForFile"}]

FailedStates == [empty    |-> {"failed"},
                 template |-> {"failed"},
                 clone    |-> {"failed"},
                 fork     |-> {"failed", "mainIModelIsMissingFederationGuids"},
                 baseline |-> {"failed", "fileIsBriefcase"}]

FailureCode == [empty    |-> "EmptyIModelInitializationFailed",
                template |-> "IModelFromTemplateInitializationFailed",
                clone    |-> "ClonedIModelInitializationFailed",
                fork     |-> "IModelForkInitializationFailed",
                baseline |-> "BaselineFileInitializationFailed"]

TimeoutCode == [empty    |-> "EmptyIModelInitializationFailed",
                template |-> "IModelFromTemplateInitializationTimedOut",
                clone    |-> "ClonedIModelInitializationTimedOut",
                fork     |-> "IModelForkInitializationTimedOut",
                baseline |-> "BaselineFileInitializationTimedOut"]

PollsDefect == TimeOutInMs \div SleepPeriodInMs

\* Math.ceil(timeOutInMs / sleepPeriodInMs)
Polls == (TimeOutInMs + SleepPeriodInMs - 1) \div SleepPeriodInMs

\* later than any poll and any timeout
Never == (Polls + 1) * SleepPeriodInMs

\* "none": no file; "asGiven": one that the caller of createFromBaseline has made;
\* "closed": an application's file; "withWal": one with a write-ahead log beside it, that
\* holds part of it; "partOfIt": such a file without the log; "blank": an empty snapshot;
\* "prepared": a whole file with the iTwin, without transactions, of no briefcase
Files == {"none", "asGiven", "closed", "withWal", "partOfIt", "blank", "prepared"}

\* createNewIModel has been called, with version0 or without
ByBackend == given # "asGiven"

Init == /\ kind \in Kinds
        /\ given \in IF kind = "baseline" THEN {"asGiven", "none", "closed", "withWal"} ELSE {"asGiven"}
        /\ copy = "none"
        /\ phase = IF ByBackend THEN "prepare" ELSE "create"
        /\ creation = "none"
        /\ uploaded = "none"
        /\ retries = 0
        /\ clock = 0
        /\ finishedAt = Never
        /\ error = "none"
-------------------------------------------------------------------------------
Throw(code) == /\ phase' = "rejected"
               /\ error' = code

LoopDefect(n) == /\ retries' = n
                 /\ IF n > 1
                    THEN phase' = "poll" /\ UNCHANGED error
                    ELSE IF n = 1
                    THEN phase' = "sleep" /\ UNCHANGED error
                    ELSE Throw(TimeoutCode[kind])

\* the head of the loop of waitForCondition, with n polls left
Loop(n) == /\ retries' = n
           /\ IF n > 0
              THEN phase' = "poll" /\ UNCHANGED error
              ELSE Throw(TimeoutCode[kind])

\* the log is written to the file it belongs to, if there is one
AfterCheckpoint(file) == IF file = "withWal" THEN "closed" ELSE file

\* copySync knows nothing of the log
CopyOf(file) == IF file = "withWal" THEN "partOfIt" ELSE file

\* What is edited and has its ids set; that of a file which lacks something is no use.
Edited(file) == IF file = "partOfIt" THEN file ELSE "prepared"

\* copyAndPrepareBaselineFile, all of it synchronous
Prepare ==
    /\ phase = "prepare"
    /\ given' = AfterCheckpoint(given)
    /\ copy' = Edited(IF given = "none" THEN "blank" ELSE CopyOf(given'))
    /\ phase' = "create"
    /\ UNCHANGED <<kind, creation, uploaded, retries, clock, finishedAt, error>>

\* It throws before the copy is made, or while it is edited.
PrepareFails ==
    /\ phase = "prepare"
    /\ \/ given' \in {given, AfterCheckpoint(given)} /\ copy' = "none"
       \/ given' = AfterCheckpoint(given) /\ copy' = IF given = "none" THEN "blank" ELSE CopyOf(given')
    /\ Throw("nativeError")
    /\ UNCHANGED <<kind, creation, uploaded, retries, clock, finishedAt>>

\* createEmpty: a coordinate system is given, and the mode of creation is not "empty"
PropertiesRefused ==
    /\ phase = "create" /\ kind = "empty"
    /\ Throw("InvalidIModelGCSCreationMode")
    /\ UNCHANGED <<kind, files, creation, uploaded, retries, clock, finishedAt>>

\* the creation is requested; an iModel that is initialized at once is returned
Create ==
    /\ phase = "create"
    /\ creation' \in FirstStates[kind]
    /\ IF creation' = "scheduled"
       THEN Loop(Polls)
       ELSE /\ phase' = IF kind = "baseline" THEN "upload" ELSE "fulfilled"
            /\ UNCHANGED <<retries, error>>
    /\ UNCHANGED <<kind, files, uploaded, clock, finishedAt>>

CreateFails ==
    /\ phase = "create"
    /\ creation' \in {"none"} \union FirstStates[kind]
    /\ Throw("apiError")
    /\ UNCHANGED <<kind, files, uploaded, retries, clock, finishedAt>>

\* the baseline file goes to the storage
Upload ==
    /\ phase = "upload"
    /\ uploaded' = IF ByBackend THEN copy ELSE given
    /\ phase' = "complete"
    /\ UNCHANGED <<kind, files, creation, retries, clock, finishedAt, error>>

UploadFails ==
    /\ phase = "upload"
    /\ Throw("apiError")
    /\ UNCHANGED <<kind, files, creation, uploaded, retries, clock, finishedAt>>

\* the upload is confirmed, and the service sets to work on the file
Complete ==
    /\ phase = "complete"
    /\ creation' = "scheduled"
    /\ Loop(Polls)
    /\ UNCHANGED <<kind, files, uploaded, clock, finishedAt>>

CompleteFails ==
    /\ phase = "complete"
    /\ creation' \in {creation, "scheduled"}
    /\ Throw("apiError")
    /\ UNCHANGED <<kind, files, uploaded, retries, clock, finishedAt>>

\* states that are no failure: look again later
Pending == {"scheduled", "waitingForFile"}

PollDefect ==
    /\ phase = "poll"
    /\ IF creation \in Pending
       THEN phase' = "sleep" /\ UNCHANGED error
       ELSE phase' = "fetch" /\ UNCHANGED error
    /\ UNCHANGED <<kind, files, creation, uploaded, retries, clock, finishedAt>>

PollDefect2 ==
    /\ phase = "poll"
    /\ phase' = IF creation = "successful" THEN "fetch" ELSE "sleep"
    /\ UNCHANGED <<kind, files, creation, uploaded, retries, clock, finishedAt, error>>

\* isIModelInitialized, isIModelForkInitialized or isBaselineInitialized
Poll ==
    /\ phase = "poll"
    /\ IF creation \in Pending
       THEN phase' = "sleep" /\ UNCHANGED error
       ELSE IF creation = "successful"
       THEN phase' = "fetch" /\ UNCHANGED error
       ELSE Throw(IF creation = "mainIModelIsMissingFederationGuids"
                  THEN "MainIModelIsMissingFederationGuids" ELSE FailureCode[kind])
    /\ UNCHANGED <<kind, files, creation, uploaded, retries, clock, finishedAt>>

PollFails ==
    /\ phase = "poll"
    /\ Throw("apiError")
    /\ UNCHANGED <<kind, files, creation, uploaded, retries, clock, finishedAt>>

WakeDefect ==
    /\ phase = "sleep"
    /\ clock' = (clock + SleepPeriodInMs) % Never
    /\ Loop(retries)
    /\ UNCHANGED <<kind, files, creation, uploaded, finishedAt>>

Wake ==
    /\ phase = "sleep"
    /\ clock' = clock + SleepPeriodInMs
    /\ Loop(retries - 1)
    /\ UNCHANGED <<kind, files, creation, uploaded, finishedAt>>

\* getSingle returns the iModel, and createNewIModel removes the copy
Fetch ==
    /\ phase = "fetch"
    /\ phase' = "fulfilled"
    /\ copy' = "none"
    /\ UNCHANGED <<kind, given, creation, uploaded, retries, clock, finishedAt, error>>

FetchFails ==
    /\ phase = "fetch"
    /\ Throw("apiError")
    /\ UNCHANGED <<kind, files, creation, uploaded, retries, clock, finishedAt>>

\* the service finishes; during a sleep, by the end of it
Finish ==
    /\ creation = "scheduled"
    /\ creation' \in {"successful"} \union FailedStates[kind]
    /\ finishedAt' = IF phase \in Settled THEN finishedAt
                     ELSE clock + IF phase = "sleep" THEN SleepPeriodInMs ELSE 0
    /\ UNCHANGED <<kind, files, phase, uploaded, retries, clock, error>>

Done == phase \in Settled /\ creation # "scheduled" /\ UNCHANGED vars

CallStep == \/ Prepare \/ PrepareFails
            \/ PropertiesRefused \/ Create \/ CreateFails \/ Upload \/ UploadFails
            \/ Complete \/ CompleteFails \/ Poll \/ PollFails
            \/ Wake \/ Fetch \/ FetchFails

Next == CallStep \/ Finish \/ Done

Spec == Init /\ [][Next]_vars

\* Requests end, see RestClient, and timers fire; the service owes nothing.
FairSpec == Spec /\ WF_vars(CallStep)
-------------------------------------------------------------------------------
States == {"none", "waitingForFile", "scheduled", "successful"}
             \union UNION {FailedStates[k] : k \in AllKinds}

Codes == {"none", "apiError", "nativeError", "InvalidIModelGCSCreationMode",
          "MainIModelIsMissingFederationGuids"}
            \union {FailureCode[k] : k \in AllKinds} \union {TimeoutCode[k] : k \in AllKinds}

\* Every variable has its type.
TypeOK ==
    /\ kind \in Kinds
    /\ given \in Files /\ copy \in Files
    /\ phase \in {"prepare", "create", "upload", "complete", "poll", "sleep", "fetch"} \union Settled
    /\ creation \in States
    /\ uploaded \in Files
    /\ retries \in 0..Polls
    /\ clock \in Nat
    /\ finishedAt \in Nat
    /\ error \in Codes

\* An operation returns an iModel only when the service has initialized it, and
\* one created from a baseline file only when it was initialized from that file: the whole
\* of what the application gave, prepared, of which no copy stays on its disk.
ReturnedMeansInitialized ==
    phase = "fulfilled" =>
        /\ creation = "successful"
        /\ kind = "baseline" => uploaded = IF ByBackend THEN "prepared" ELSE "asGiven"
        /\ copy = "none"

TimedOut == kind # "empty" /\ error = TimeoutCode[kind]

\* The code of the error tells why the operation gave up: a failure code that the creation
\* has failed, the code of missing federation guids that these are the reason, the code of
\* refused properties that nothing was created, now or later.  And no failure there was to
\* see is called a timeout: one a sleep period or more before the wait ended has its code.
\* createEmpty has one code for both.  The doc of createFromTemplate says the same of that
\* operation; the code has one for each, and it is the code that is stated here.
ErrorTellsCause ==
    /\ error = "MainIModelIsMissingFederationGuids" =>
          creation = "mainIModelIsMissingFederationGuids"
    /\ kind # "empty" /\ error = FailureCode[kind] =>
          creation \in {"failed", "fileIsBriefcase"}
    /\ error = "InvalidIModelGCSCreationMode" => creation = "none"
    /\ TimedOut /\ creation \in FailedStates[kind] => finishedAt + SleepPeriodInMs > clock

\* An operation that times out has waited for the time it was given, and an iModel
\* that was initialized a sleep period or more before the wait ended is returned: a
\* timeout never hides one that was there to be seen.
TimedOutMeansNotReady ==
    TimedOut => /\ TimeOutInMs <= clock
                /\ creation = "successful" => finishedAt + SleepPeriodInMs > clock

\* Every operation returns or throws, whether or not the service finishes.
CallSettles == <>(phase \in Settled)
===============================================================================
