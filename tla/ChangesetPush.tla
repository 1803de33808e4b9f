------------------------------ MODULE ChangesetPush ------------------------------
(***************************************************************************)
(* pushChangeset and ChangesetOperations.create: create, upload, confirm,  *)
(* by several briefcases at once.  A request that the rest client repeats  *)
(* after a lost connection leaves an attempt behind which the service may  *)
(* perform at any later time; the attempt in hand is performed and         *)
(* answered in one step, since an answer that is lost is such a repetition.*)
(* Definitions called ...Defect are mistakes the properties must catch.    *)
(***************************************************************************)
EXTENDS Naturals, Sequences, ErrorAdapter

CONSTANTS Pushers,      \* the briefcases that push
          MaxRetries,   \* what the rest client allows a request
          MaxCalls      \* calls of pushChangeset by a pusher: bounds the model

ASSUME PushAssumption == MaxRetries \in Nat /\ MaxCalls \in Nat

\* A changeset is told by who made it and by its parent, the changeset at that index.
Changesets == [pusher : Pushers, parent : Nat]

Requests == [changeset : Changesets, what : {"create", "confirm"}]

VARIABLES log,        \* the service: changesets whose upload was confirmed, by index
          waiting,    \* the changeset in state waitingForFile, if any
          file,       \* changesets whose file is in the storage
          stray,      \* requests left behind
          step,       \* [Pushers -> the await of create the pusher stands at]
          changeset,  \* [Pushers -> the changeset of the latest call]
          retries,    \* [Pushers -> retries of the request in hand]
          calls,      \* [Pushers -> calls so far]
          verdict,    \* [Pushers -> how the latest call ended]
          index,      \* [Pushers -> what pushChangeset returned]
          error,      \* [Pushers -> the code of the error it threw]
          doubtful    \* changesets whose confirmation ended with an error

service == <<log, waiting, file>>
client == <<step, changeset, retries, calls, verdict, index, error, doubtful>>
vars == <<service, stray, client>>

Logged(c) == \E i \in 1..Len(log) : log[i] = c

Init == /\ log = <<>> /\ waiting = {} /\ file = {} /\ stray = {}
        /\ step = [p \in Pushers |-> "idle"]
        /\ changeset = [p \in Pushers |-> [pusher |-> p, parent |-> 0]]
        /\ retries = [p \in Pushers |-> 0]
        /\ calls = [p \in Pushers |-> 0]
        /\ verdict = [p \in Pushers |-> "none"]
        /\ index = [p \in Pushers |-> 0]
        /\ error = [p \in Pushers |-> "none"]
        /\ doubtful = {}
-------------------------------------------------------------------------------
(* The service.                                                            *)
(* InsufficientPermissions stands for refusals that have nothing to do     *)
(* with what is pushed.                                                    *)

\* The latest changeset is the parent, and no other briefcase is in the middle of it.
Accepts(c) == c.parent = Len(log) /\ \A w \in waiting : w.pusher = c.pusher

RefusalsToCreate(c) ==
    {"InsufficientPermissions"}
        \union (IF c.parent # Len(log) THEN {"NewerChangesExist"} ELSE {})
        \union (IF \E w \in waiting : w.pusher # c.pusher THEN {"ConflictWithAnotherUser"} ELSE {})
        \union (IF Logged(c) \/ c \in waiting THEN {"ChangesetExists"} ELSE {})

\* not waiting for a file, or for one of another size
RefusalsToConfirm(c) ==
    {"InsufficientPermissions"}
        \union (IF c \notin waiting THEN {"InvalidChange"} ELSE {})
        \union (IF c \notin file THEN {"DataConflict"} ELSE {})

PerformCreate(c) == Accepts(c) /\ waiting' = {c} /\ UNCHANGED <<log, file>>

\* nothing here looks at the file
PerformConfirm(c) == c \in waiting /\ waiting' = {} /\ log' = Append(log, c) /\ UNCHANGED file

\* a request that was left behind arrives
Arrive(r) == /\ r \in stray
             /\ \/ r.what = "create" /\ PerformCreate(r.changeset)
                \/ r.what = "confirm" /\ PerformConfirm(r.changeset)
             /\ UNCHANGED <<stray, client>>

\* the service gives up on a changeset whose file does not come
Expire == /\ waiting # {}
          /\ waiting' = {}
          /\ UNCHANGED <<log, file, stray, client>>
-------------------------------------------------------------------------------
(* The client.                                                             *)

\* A caller pushes what it has on top of the history it has pulled, or tries again
\* what it could not push.
Begin(p) ==
    /\ step[p] = "idle"
    /\ calls[p] < MaxCalls
    /\ \/ verdict[p] # "pushed" /\ UNCHANGED changeset
       \/ changeset' = [changeset EXCEPT ![p] = [pusher |-> p, parent |-> Len(log)]]
    /\ step' = [step EXCEPT ![p] = "fileSize"]
    /\ calls' = [calls EXCEPT ![p] = @ + 1]
    /\ verdict' = [verdict EXCEPT ![p] = "open"]
    /\ error' = [error EXCEPT ![p] = "none"]
    /\ UNCHANGED <<service, stray, retries, index, doubtful>>

Goto(p, next) == /\ step' = [step EXCEPT ![p] = next]
                 /\ retries' = [retries EXCEPT ![p] = 0]
                 /\ UNCHANGED <<changeset, calls, verdict, index, error, doubtful>>

ThrowDefect(p, code) == IF step[p] = "confirm" THEN Goto(p, "create") ELSE
    /\ step' = [step EXCEPT ![p] = "idle"]
    /\ error' = [error EXCEPT ![p] = ToITwinError(code, "createChangeset")]
    /\ verdict' = [verdict EXCEPT ![p] = "refused"]
    /\ UNCHANGED <<changeset, retries, calls, index, doubtful>>

\* the error leaves create and is adapted; nothing is undone at the service
Throw(p, code) ==
    /\ step' = [step EXCEPT ![p] = "idle"]
    /\ error' = [error EXCEPT ![p] = ToITwinError(code, "createChangeset")]
    /\ verdict' = [verdict EXCEPT ![p] = IF step[p] = "confirm" THEN "unknown" ELSE "refused"]
    /\ doubtful' = IF step[p] = "confirm" THEN doubtful \union {changeset[p]} ELSE doubtful
    /\ UNCHANGED <<changeset, retries, calls, index>>

Return(p, i) == /\ step' = [step EXCEPT ![p] = "idle"]
                /\ verdict' = [verdict EXCEPT ![p] = "pushed"]
                /\ index' = [index EXCEPT ![p] = i]
                /\ UNCHANGED <<changeset, retries, calls, error, doubtful>>

FileSizeRead(p) == /\ step[p] = "fileSize"
                   /\ Goto(p, "create") \/ Throw(p, "ENOENT")
                   /\ UNCHANGED <<service, stray>>

CreatedDefect(p) ==
    /\ step[p] = "create"
    /\ \/ PerformCreate(changeset[p]) /\ Goto(p, "confirm")
       \/ \E code \in RefusalsToCreate(changeset[p]) : Throw(p, ParseCode(code)) /\ UNCHANGED service
    /\ UNCHANGED stray

\* the answer to the POST, with the links for what follows
Created(p) ==
    /\ step[p] = "create"
    /\ \/ PerformCreate(changeset[p]) /\ Goto(p, "upload")
       \/ \E code \in RefusalsToCreate(changeset[p]) : Throw(p, ParseCode(code)) /\ UNCHANGED service
    /\ UNCHANGED stray

UploadedDefect(p) ==
    /\ step[p] = "upload"
    /\ \/ file' = file \union {changeset[p]} /\ Return(p, Len(log) + 1)
       \/ UNCHANGED file /\ \E code \in {"uncoded", "RestError"} : Throw(p, code)
    /\ UNCHANGED <<log, waiting, stray>>

\* It fails without the file or with it: an error of the storage, or no link to complete it.
Uploaded(p) ==
    /\ step[p] = "upload"
    /\ \/ file' = file \union {changeset[p]} /\ Goto(p, "confirm")
       \/ file' \in {file, file \union {changeset[p]}} /\ \E code \in {"uncoded", "RestError"} : Throw(p, code)
    /\ UNCHANGED <<log, waiting, stray>>

\* the answer to the PATCH; one that arrives twice may be answered as the first was
Confirmed(p) ==
    /\ step[p] = "confirm"
    /\ \/ PerformConfirm(changeset[p]) /\ Return(p, Len(log) + 1)
       \/ UNCHANGED service /\ \E i \in 1..Len(log) : log[i] = changeset[p] /\ Return(p, i)
       \/ UNCHANGED service /\ \E code \in RefusalsToConfirm(changeset[p]) : Throw(p, ParseCode(code))
    /\ UNCHANGED stray

LeaveBehind(p) == stray' = stray \union {[changeset |-> changeset[p], what |-> step[p]]}

\* the connection is lost, and the rest client sends the request again
Resend(p) ==
    /\ step[p] \in {"create", "confirm"}
    /\ retries[p] < MaxRetries
    /\ retries' = [retries EXCEPT ![p] = @ + 1]
    /\ LeaveBehind(p)
    /\ UNCHANGED <<service, step, changeset, calls, verdict, index, error, doubtful>>

\* it is lost once too often
GiveUp(p) ==
    /\ step[p] \in {"create", "confirm"}
    /\ retries[p] = MaxRetries
    /\ LeaveBehind(p)
    /\ Throw(p, ParseCode("ERR_NETWORK"))
    /\ UNCHANGED service

Proceed(p) == \/ FileSizeRead(p) \/ Created(p) \/ Uploaded(p) \/ Confirmed(p)
              \/ Resend(p) \/ GiveUp(p)

Done == /\ \A p \in Pushers : step[p] = "idle" /\ calls[p] = MaxCalls
        /\ UNCHANGED vars

Next == \/ \E p \in Pushers : Begin(p) \/ Proceed(p)
        \/ \E r \in stray : Arrive(r)
        \/ Expire
        \/ Done

Spec == Init /\ [][Next]_vars

\* Every await of a call ends.
FairSpec == Spec /\ \A p \in Pushers : WF_vars(Proceed(p))
-------------------------------------------------------------------------------
\* Every variable has its type.
TypeOK ==
    /\ log \in Seq(Changesets)
    /\ waiting \subseteq Changesets /\ file \subseteq Changesets
    /\ stray \subseteq Requests
    /\ step \in [Pushers -> {"idle", "fileSize", "create", "upload", "confirm"}]
    /\ changeset \in [Pushers -> Changesets]
    /\ retries \in [Pushers -> 0..MaxRetries]
    /\ calls \in [Pushers -> 0..MaxCalls]
    /\ verdict \in [Pushers -> {"none", "open", "pushed", "refused", "unknown"}]
    /\ index \in [Pushers -> Nat]
    /\ error \in [Pushers -> {"none", "uncoded"} \union IModelsErrorCodes]
    /\ doubtful \subseteq Changesets

\* Each changeset of the history has its file, though nothing but the order of the
\* steps sees to it and requests left behind arrive when they like.
LoggedMeansUploaded == \A i \in 1..Len(log) : log[i] \in file

\* The index that pushChangeset returned is that of the changeset it was given, and
\* stays so.
ReturnedMeansPushed ==
    \A p \in Pushers : verdict[p] = "pushed" =>
        index[p] \in 1..Len(log) /\ log[index[p]] = changeset[p]

\* A caller that is told of another pusher or of newer changes has not pushed, unless
\* an earlier call for the same changeset failed at its confirmation.
RefusalIsCertain ==
    \A p \in Pushers :
        error[p] \in {"AnotherUserPushing", "NewerChangesExist"}
            /\ changeset[p] \notin doubtful => ~Logged(changeset[p])

\* Every call ends.
PushSettles == \A p \in Pushers : step[p] # "idle" ~> step[p] = "idle"

Abstract == INSTANCE PushLog

\* Three steps, retries and requests left behind come to no more than PushLog says.
ImplementsPushLog == Abstract!PushSpec
===============================================================================
