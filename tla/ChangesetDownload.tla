--------------------------- MODULE ChangesetDownload ---------------------------
(***************************************************************************)
(* downloadSingle and downloadList of the authoring client: the calls made *)
(* one after the other by a client, the downloads each of them runs, the   *)
(* target directory they share, and the iModels service they list from.    *)
(*                                                                         *)
(* A download is a pair of a call k and a changeset c; step[k][c] says     *)
(* which await of downloadChangesetWithRetries it stands at:               *)
(*   "exists", "size", "delete"   isChangesetAlreadyDownloaded             *)
(*   "link"                       getDownloadLink                          *)
(*   "request"                    storage.download of downloadFile         *)
(*   "stream"                     the piped stream of downloadFile         *)
(* A file is the set of its chunks on disk.  The stream of an attempt      *)
(* writes what it receives later, chunk after chunk at its own offset; one *)
(* that is ended because the attempt failed is awaited by nobody and may   *)
(* still write when the next attempt has truncated the file.  Deleting a   *)
(* file that is being written leaves the writer with a file of no name     *)
(* (POSIX).                                                                *)
(* A write that fails ends the process, for downloadFile listens to no     *)
(* "error" of the file stream: it is a Crash here.                         *)
(*                                                                         *)
(* Definitions called ...Defect are plausible mistakes in the definition   *)
(* that follows them; the system does not use them, the properties must    *)
(* tell them apart from it.                                                *)
(***************************************************************************)
EXTENDS LimitedParallelQueue

CONSTANTS MaxIndex,        \* bound on the changesets the service comes to hold
          InitialIndex,    \* changesets there are when the first call is made
          FileSize,        \* [1..MaxIndex -> chunks of the changeset file]
          Kind,            \* [Calls -> "single" or "list"], a call per entry
          MaxRetries,      \* params.maxRetries ?? 4
          PageSize,        \* changesets on a page of the list the service sends
          WithProgress,    \* [Calls -> is params.progressCallback given]
          Events           \* which of "abort", "apiError", "crash" and "push" may
                           \* happen besides the failures of single downloads

Calls == 1..Len(Kind)
Changesets == 1..MaxIndex
Attempts == 0..MaxRetries

ASSUME DownloadAssumption ==
    /\ MaxIndex \in Nat
    /\ InitialIndex \in 0..MaxIndex
    /\ FileSize \in [Changesets -> Nat \ {0}]
    /\ Kind \in Seq({"single", "list"})
    /\ MaxRetries \in Nat
    /\ PageSize \in Nat \ {0}
    /\ WithProgress \in [Calls -> BOOLEAN]
    /\ Events \subseteq {"abort", "apiError", "crash", "push"}

VARIABLES
    lastIndex,   \* changesets the service holds
    present,     \* [Changesets -> is there a file of that name]
    chunks,      \* [Changesets -> the chunks of that file that are written]
    unwritten,   \* [Calls -> [Changesets -> [Attempts -> chunks its stream has
                 \*  received and not yet written to the named file]]]
    overlap,     \* did a call begin beside downloads or writes of an earlier one
    late,        \* did an attempt open its file beside writes of an earlier attempt
    phase,       \* [Calls -> where the call itself is]
    cursor,      \* [Calls -> index of the last changeset listed]
    more,        \* [Calls -> did the last page come with a next link]
    result,      \* [Calls -> the changesets the call is to return]
    pool,        \* [Calls -> the LimitedParallelQueue of the page]
    aborted,     \* [Calls -> is abortSignal.aborted set]
    downloaded,  \* [Calls -> totalDownloaded]
    total,       \* [Calls -> totalSize]
    report,      \* [Calls -> the last pair the progress callback got]
    step,        \* [Calls -> [Changesets -> the await the download is at]]
    attempt,     \* [Calls -> [Changesets -> i, the attempts that failed]]
    position,    \* [Calls -> [Changesets -> chunks received in this attempt]]
    linked       \* [Calls -> [Changesets -> is the file it opened the named one]]

worldVars == <<lastIndex, overlap, late>>
fileVars == <<present, chunks, unwritten>>
listVars == <<cursor, more, result>>
progressVars == <<downloaded, total, report>>
streamVars == <<attempt, position, linked>>
vars == <<lastIndex, overlap, late, present, chunks, unwritten, phase, cursor, more,
          result, pool, aborted, downloaded, total, report, step, attempt, position, linked>>

Waiting == {"exists", "size", "delete", "link", "request", "stream"}
Scanning == {"scanFetch", "scan"}
Live == Scanning \union {"fetch", "download"}
SettledPhases == {"fulfilled", "rejected", "crashed"}

Running(k, c) == step[k][c] \in Waiting
\* streams of call k still have something to write to the file of c
Writing(k, c) == \E i \in Attempts : unwritten[k][c][i] # {}
NothingUnwritten == [c \in Changesets |-> [i \in Attempts |-> {}]]
Complete(c) == present[c] /\ chunks[c] = 1..FileSize[c]
\* the length of a file is where its last chunk ends
SizeMatches(c) == present[c] /\ FileSize[c] \in chunks[c]

\* The directory may hold files an earlier process left, whole or cut short.
Init == /\ lastIndex = InitialIndex
        /\ present \in [Changesets -> BOOLEAN]
        /\ \E left \in [Changesets -> UNION {0..FileSize[c] : c \in Changesets}] :
              /\ chunks = [c \in Changesets |-> 1..left[c]]
              /\ \A c \in Changesets :
                    left[c] <= IF present[c] THEN FileSize[c] ELSE 0
        /\ unwritten = [k \in Calls |-> NothingUnwritten]
        /\ overlap = FALSE
        /\ late = FALSE
        /\ phase = [k \in Calls |-> "idle"]
        /\ cursor = [k \in Calls |-> 0]
        /\ more = [k \in Calls |-> FALSE]
        /\ result = [k \in Calls |-> {}]
        /\ pool = [k \in Calls |-> NewQueue]
        /\ aborted = [k \in Calls |-> FALSE]
        /\ downloaded = [k \in Calls |-> 0]
        /\ total = [k \in Calls |-> 0]
        /\ report = [k \in Calls |-> <<0, 0>>]
        /\ step = [k \in Calls |-> [c \in Changesets |-> "none"]]
        /\ attempt = [k \in Calls |-> [c \in Changesets |-> 0]]
        /\ position = [k \in Calls |-> [c \in Changesets |-> 0]]
        /\ linked = [k \in Calls |-> [c \in Changesets |-> FALSE]]
-------------------------------------------------------------------------------
(* The call itself.                                                        *)

\* createDirectory leaves a directory that is there as it is
Begin(k) ==
    /\ phase[k] = "idle"
    /\ \A j \in 1..(k - 1) : phase[j] \in SettledPhases
    /\ overlap' = (overlap \/ \E j \in Calls, c \in Changesets :
                                Running(j, c) \/ Writing(j, c))
    /\ phase' = [phase EXCEPT ![k] = IF Kind[k] = "list" /\ WithProgress[k]
                                     THEN "scanFetch" ELSE "fetch"]
    /\ UNCHANGED <<lastIndex, late, fileVars, listVars, pool, aborted, progressVars,
                   step, streamVars>>

\* the end of the page that follows the last one
PageEnd(k) == IF cursor[k] + PageSize <= lastIndex THEN cursor[k] + PageSize
                                                   ELSE lastIndex

\* provideDownloadCallbacks asks for a page of the minimal list
FetchMinimalPage(k) ==
    /\ phase[k] = "scanFetch"
    /\ IF PageEnd(k) = cursor[k]
       THEN /\ phase' = [phase EXCEPT ![k] = "fetch"]
            /\ cursor' = [cursor EXCEPT ![k] = 0]
            /\ UNCHANGED <<more, step>>
       ELSE /\ phase' = [phase EXCEPT ![k] = "scan"]
            /\ cursor' = [cursor EXCEPT ![k] = PageEnd(k)]
            /\ more' = [more EXCEPT ![k] = PageEnd(k) < lastIndex]
            /\ step' = [step EXCEPT ![k][cursor[k] + 1] = "exists"]
    /\ UNCHANGED <<worldVars, fileVars, result, pool, aborted, progressVars,
                   streamVars>>

\* orders of a page by file size, changesets of one size by index (sort is stable)
BySize(S) ==
    {q \in [1..Cardinality(S) -> S] :
        /\ \A c \in S : \E j \in 1..Cardinality(S) : q[j] = c
        /\ \A i, j \in 1..Cardinality(S) :
              i < j => \/ FileSize[q[i]] < FileSize[q[j]]
                       \/ FileSize[q[i]] = FileSize[q[j]] /\ q[i] < q[j]}

\* a turn of the queue: the downloads it starts call fileExists
TurnQueue(k, q, steps) ==
    /\ pool' = [pool EXCEPT ![k] = Loop(q)]
    /\ step' = [step EXCEPT ![k] =
                  [c \in Changesets |->
                     IF c \in Started(q) THEN "exists" ELSE steps[c]]]

\* downloadList gets a page, queues it sorted and awaits waitAll
FetchPage(k) ==
    /\ phase[k] = "fetch"
    /\ Kind[k] = "list"
    /\ LET page == (cursor[k] + 1)..PageEnd(k)
       IN  /\ \E q \in BySize(page) :
                 TurnQueue(k, [NewQueue EXCEPT !.queue = q],
                           [c \in Changesets |-> IF c \in page THEN "queued"
                                                 ELSE step[k][c]])
           /\ result' = [result EXCEPT ![k] = @ \union page]
    /\ phase' = [phase EXCEPT ![k] = "download"]
    /\ cursor' = [cursor EXCEPT ![k] = PageEnd(k)]
    /\ more' = [more EXCEPT ![k] = PageEnd(k) < lastIndex]
    /\ UNCHANGED <<worldVars, fileVars, aborted, progressVars, streamVars>>

\* downloadSingle queries the changeset and downloads it without a queue
QuerySingle(k) ==
    /\ phase[k] = "fetch"
    /\ Kind[k] = "single"
    /\ \E c \in 1..lastIndex :
          /\ result' = [result EXCEPT ![k] = {c}]
          /\ step' = [step EXCEPT ![k][c] = "exists"]
    /\ phase' = [phase EXCEPT ![k] = "download"]
    /\ UNCHANGED <<worldVars, fileVars, cursor, more, pool, aborted, progressVars,
                   streamVars>>

\* a request for a page, or for the single changeset, fails
FetchFails(k) ==
    /\ "apiError" \in Events
    /\ phase[k] \in {"scanFetch", "fetch"}
    /\ phase' = [phase EXCEPT ![k] = "rejected"]
    /\ UNCHANGED <<worldVars, fileVars, listVars, pool, aborted, progressVars,
                   step, streamVars>>

\* waitAll goes on after its race was won by a fulfilled download
ResumeWaitAll(k) ==
    /\ phase[k] = "download"
    /\ pool[k].waitAll = "waiting" /\ pool[k].race = "fulfilled"
    /\ TurnQueue(k, pool[k], step[k])
    /\ UNCHANGED <<worldVars, fileVars, phase, listVars, aborted, progressVars,
                   streamVars>>

\* waitAll throws and downloadList with it; what runs is left running
WaitAllThrows(k) ==
    /\ phase[k] = "download"
    /\ pool[k].waitAll = "waiting" /\ pool[k].race = "rejected"
    /\ pool' = [pool EXCEPT ![k] = Throw(@)]
    /\ phase' = [phase EXCEPT ![k] = "rejected"]
    /\ UNCHANGED <<worldVars, fileVars, listVars, aborted, progressVars, step,
                   streamVars>>

\* the page is done: the next one, or the result
PageDone(k) ==
    /\ phase[k] = "download"
    /\ pool[k].waitAll = "fulfilled"
    /\ phase' = [phase EXCEPT ![k] = IF more[k] THEN "fetch" ELSE "fulfilled"]
    /\ UNCHANGED <<worldVars, fileVars, listVars, pool, aborted, progressVars,
                   step, streamVars>>
-------------------------------------------------------------------------------
(* The end of a download, and of the check made before it.                 *)

\* the promise of the download settles, and the call or its queue is told
Settle(k, c, outcome) ==
    /\ step' = [step EXCEPT ![k][c] = IF outcome = "fulfilled"
                                      THEN "done" ELSE "failed"]
    /\ IF Kind[k] = "single"
       THEN /\ phase' = [phase EXCEPT ![k] = outcome]
            /\ UNCHANGED pool
       ELSE /\ pool' = [pool EXCEPT ![k] = IF outcome = "fulfilled"
                                           THEN OnFulfilled(@, c)
                                           ELSE OnRejected(@, c)]
            /\ UNCHANGED phase

\* provideDownloadCallbacks goes on to the next changeset, page, or returns
Scanned(k, c, bytes) ==
    /\ total' = [total EXCEPT ![k] = @ + FileSize[c]]
    /\ downloaded' = [downloaded EXCEPT ![k] = @ + bytes]
    /\ IF c < cursor[k]
       THEN /\ step' = [step EXCEPT ![k][c] = "none", ![k][c + 1] = "exists"]
            /\ UNCHANGED <<phase, cursor>>
       ELSE /\ step' = [step EXCEPT ![k][c] = "none"]
            /\ phase' = [phase EXCEPT ![k] = IF more[k] THEN "scanFetch" ELSE "fetch"]
            /\ cursor' = [cursor EXCEPT ![k] = IF more[k] THEN @ ELSE 0]
    /\ UNCHANGED <<pool, report>>

AlreadyDownloadedDefect(k, c) ==
    IF phase[k] = "scan"
    THEN Scanned(k, c, 0)
    ELSE Settle(k, c, "fulfilled") /\ UNCHANGED <<cursor, progressVars>>

\* isChangesetAlreadyDownloaded returns true
AlreadyDownloaded(k, c) ==
    IF phase[k] = "scan"
    THEN Scanned(k, c, FileSize[c])
    ELSE Settle(k, c, "fulfilled") /\ UNCHANGED <<cursor, progressVars>>

\* it returns false: the loop over attempts begins, if it has any
NotDownloaded(k, c) ==
    IF phase[k] = "scan"
    THEN Scanned(k, c, 0)
    ELSE /\ IF MaxRetries = 0
            THEN Settle(k, c, "rejected")
            ELSE /\ step' = [step EXCEPT ![k][c] = "link"]
                 /\ UNCHANGED <<phase, pool>>
         /\ UNCHANGED <<cursor, progressVars>>

\* it throws (the file is gone since the last look), outside of any try
CheckThrows(k, c) ==
    /\ IF phase[k] = "scan"
       THEN /\ step' = [step EXCEPT ![k][c] = "none"]
            /\ phase' = [phase EXCEPT ![k] = "rejected"]
            /\ UNCHANGED pool
       ELSE Settle(k, c, "rejected")
    /\ UNCHANGED <<cursor, progressVars>>

AttemptsLeft(k, c) == attempt[k][c] + 1 < MaxRetries

\* what an attempt received before it failed is added to the total
FailedBytesDefect(k, c) == 0

FailedBytes(k, c) ==
    IF WithProgress[k] /\ Kind[k] = "list" THEN position[k][c] ELSE 0

\* when the attempt ends, by close or by end(), its stream gets nothing more
StreamClosed(k, c) == [linked EXCEPT ![k][c] = FALSE]

AttemptFails(k, c) ==
    /\ total' = [total EXCEPT ![k] = @ + FailedBytes(k, c)]
    /\ attempt' = [attempt EXCEPT ![k][c] = @ + 1]
    /\ position' = [position EXCEPT ![k][c] = 0]
    /\ linked' = StreamClosed(k, c)
    /\ IF AttemptsLeft(k, c)
       THEN /\ step' = [step EXCEPT ![k][c] = "link"]
            /\ UNCHANGED <<phase, pool>>
       ELSE Settle(k, c, "rejected")
    /\ UNCHANGED <<downloaded, report>>
-------------------------------------------------------------------------------
(* One download: isChangesetAlreadyDownloaded, then the attempts.          *)

FileExistsDefect(k, c) ==
    /\ step[k][c] = "exists"
    /\ NotDownloaded(k, c)
    /\ UNCHANGED <<worldVars, fileVars, more, result, aborted, streamVars>>

FileExists(k, c) ==
    /\ step[k][c] = "exists"
    /\ IF present[c]
       THEN /\ step' = [step EXCEPT ![k][c] = "size"]
            /\ UNCHANGED <<phase, cursor, pool, progressVars>>
       ELSE NotDownloaded(k, c)
    /\ UNCHANGED <<worldVars, fileVars, more, result, aborted, streamVars>>

GetFileSize(k, c) ==
    /\ step[k][c] = "size"
    /\ \/ ~present[c] /\ CheckThrows(k, c)
       \/ SizeMatches(c) /\ AlreadyDownloaded(k, c)
       \/ /\ present[c] /\ ~SizeMatches(c)
          /\ step' = [step EXCEPT ![k][c] = "delete"]
          /\ UNCHANGED <<phase, cursor, pool, progressVars>>
    /\ UNCHANGED <<worldVars, fileVars, more, result, aborted, streamVars>>

DeleteFile(k, c) ==
    /\ step[k][c] = "delete"
    /\ IF present[c]
       THEN /\ present' = [present EXCEPT ![c] = FALSE]
            /\ chunks' = [chunks EXCEPT ![c] = {}]
            /\ unwritten' = [j \in Calls |->
                               [unwritten[j] EXCEPT ![c] = NothingUnwritten[c]]]
            /\ linked' = [j \in Calls |-> [linked[j] EXCEPT ![c] = FALSE]]
            /\ NotDownloaded(k, c)
       ELSE /\ CheckThrows(k, c)
            /\ UNCHANGED <<fileVars, linked>>
    /\ UNCHANGED <<worldVars, more, result, aborted, attempt, position>>

OpenedDefect(c) == {FileSize[c]}

\* the chunks of a file just opened for writing (flag "w", no preallocation)
Opened(c) == {}

\* the link of the listing, or after a failure one queried anew; then
\* createWriteStream makes or truncates the file and the storage is asked
OpenTarget(k, c) ==
    /\ step[k][c] = "link"
    /\ present' = [present EXCEPT ![c] = TRUE]
    /\ chunks' = [chunks EXCEPT ![c] = Opened(c)]
    /\ linked' = [linked EXCEPT ![k][c] = TRUE]
    /\ step' = [step EXCEPT ![k][c] = "request"]
    /\ late' = (late \/ \E j \in Calls : Writing(j, c))
    /\ UNCHANGED <<lastIndex, overlap, unwritten, phase, listVars, pool, aborted, progressVars,
                   attempt, position>>

\* the query for a fresh link fails
RefreshFails(k, c) ==
    /\ step[k][c] = "link"
    /\ attempt[k][c] > 0
    /\ AttemptFails(k, c)
    /\ UNCHANGED <<worldVars, fileVars, listVars, aborted>>

StorageAnswers(k, c) ==
    /\ step[k][c] = "request"
    /\ ~aborted[k]
    /\ step' = [step EXCEPT ![k][c] = "stream"]
    /\ UNCHANGED <<worldVars, fileVars, phase, listVars, pool, aborted, progressVars,
                   streamVars>>

\* a chunk arrives: the pipe hands it to the file stream and the callbacks count it
ReceiveChunk(k, c) ==
    /\ step[k][c] = "stream"
    /\ ~aborted[k]
    /\ position[k][c] < FileSize[c]
    /\ position' = [position EXCEPT ![k][c] = @ + 1]
    /\ unwritten' = IF linked[k][c]
                    THEN [unwritten EXCEPT ![k][c][attempt[k][c]] =
                            @ \union {position[k][c] + 1}]
                    ELSE unwritten
    /\ IF ~WithProgress[k]
       THEN UNCHANGED progressVars
       ELSE IF Kind[k] = "single"
       THEN /\ report' = [report EXCEPT ![k] = <<1, FileSize[c]>>]
            /\ UNCHANGED <<downloaded, total>>
       ELSE /\ downloaded' = [downloaded EXCEPT ![k] = @ + 1]
            /\ report' = [report EXCEPT ![k] = <<downloaded[k] + 1, total[k]>>]
            /\ UNCHANGED total
    /\ UNCHANGED <<worldVars, present, chunks, phase, listVars, pool, aborted, step,
                   attempt, linked>>

\* a file stream, be it of an attempt that failed, writes the next chunk it holds
WriteChunk(k, c, i) ==
    /\ \E n \in unwritten[k][c][i] :
          /\ \A m \in unwritten[k][c][i] : n <= m
          /\ chunks' = [chunks EXCEPT ![c] = @ \union {n}]
          /\ unwritten' = [unwritten EXCEPT ![k][c][i] = @ \ {n}]
    /\ UNCHANGED <<worldVars, present, phase, listVars, pool, aborted, progressVars,
                   step, streamVars>>

\* the storage refuses the request or the stream breaks
TransferFails(k, c) ==
    /\ step[k][c] \in {"request", "stream"}
    /\ AttemptFails(k, c)
    /\ UNCHANGED <<worldVars, fileVars, listVars, aborted>>

\* an AbortError under an aborted signal is thrown on, not retried
TransferAborted(k, c) ==
    /\ step[k][c] \in {"request", "stream"}
    /\ aborted[k]
    /\ linked' = StreamClosed(k, c)
    /\ Settle(k, c, "rejected")
    /\ UNCHANGED <<worldVars, fileVars, listVars, aborted, progressVars, attempt,
                   position>>

TargetEndsDefect(k, c) ==
    /\ step[k][c] = "stream"
    /\ position[k][c] = FileSize[c]
    /\ linked' = StreamClosed(k, c)
    /\ Settle(k, c, "fulfilled")
    /\ UNCHANGED <<worldVars, fileVars, listVars, aborted, progressVars, attempt,
                   position>>

\* the file stream closes after it has written the last chunk
TargetCloses(k, c) ==
    /\ step[k][c] = "stream"
    /\ position[k][c] = FileSize[c]
    /\ unwritten[k][c][attempt[k][c]] = {}
    /\ linked' = StreamClosed(k, c)
    /\ Settle(k, c, "fulfilled")
    /\ UNCHANGED <<worldVars, fileVars, listVars, aborted, progressVars, attempt,
                   position>>
-------------------------------------------------------------------------------
(* The world around: the user, other clients, the process.                 *)

Abort(k) ==
    /\ "abort" \in Events
    /\ phase[k] \in Live \union {"rejected"}
    /\ ~aborted[k]
    /\ aborted' = [aborted EXCEPT ![k] = TRUE]
    /\ UNCHANGED <<worldVars, fileVars, phase, listVars, pool, progressVars, step,
                   streamVars>>

\* another client pushes a changeset (see ChangesetPush)
PushChangeset ==
    /\ "push" \in Events
    /\ lastIndex < MaxIndex
    /\ lastIndex' = lastIndex + 1
    /\ UNCHANGED <<fileVars, overlap, late, phase, listVars, pool, aborted, progressVars,
                   step, streamVars>>

\* the process ends: only the files stay
Crash ==
    /\ "crash" \in Events
    /\ \E k \in Calls : phase[k] = "idle"
    /\ \E k \in Calls : \/ phase[k] \in Live
                       \/ \E c \in Changesets : Running(k, c) \/ Writing(k, c)
    /\ unwritten' = [k \in Calls |-> NothingUnwritten]
    /\ phase' = [k \in Calls |-> IF phase[k] \in Live THEN "crashed" ELSE phase[k]]
    /\ pool' = [k \in Calls |-> NewQueue]
    /\ step' = [k \in Calls |-> [c \in Changesets |->
                  IF Running(k, c) \/ step[k][c] = "queued" THEN "none"
                                                            ELSE step[k][c]]]
    /\ linked' = [k \in Calls |-> [c \in Changesets |-> FALSE]]
    /\ UNCHANGED <<worldVars, present, chunks, listVars, aborted, progressVars, attempt,
                   position>>

AllSettled ==
    /\ \A k \in Calls : phase[k] \in SettledPhases
    /\ \A k \in Calls, c \in Changesets : ~Running(k, c) /\ ~Writing(k, c)
    /\ UNCHANGED vars

CallStep(k) == \/ FetchMinimalPage(k) \/ FetchPage(k) \/ QuerySingle(k)
               \/ ResumeWaitAll(k) \/ WaitAllThrows(k) \/ PageDone(k)

DownloadStep(k, c) ==
    \/ FileExists(k, c) \/ GetFileSize(k, c) \/ DeleteFile(k, c)
    \/ OpenTarget(k, c) \/ RefreshFails(k, c)
    \/ StorageAnswers(k, c) \/ ReceiveChunk(k, c) \/ TransferFails(k, c)
    \/ TransferAborted(k, c) \/ TargetCloses(k, c)
    \/ \E i \in Attempts : WriteChunk(k, c, i)

Next == \/ \E k \in Calls : Begin(k) \/ CallStep(k) \/ FetchFails(k) \/ Abort(k)
        \/ \E k \in Calls, c \in Changesets : DownloadStep(k, c)
        \/ PushChangeset
        \/ Crash
        \/ AllSettled

\* Ready callbacks run, the file system and the services answer.
Fairness == /\ \A k \in Calls : WF_vars(CallStep(k))
            /\ \A k \in Calls, c \in Changesets : WF_vars(DownloadStep(k, c))

Spec == Init /\ [][Next]_vars

FairSpec == Spec /\ Fairness
-------------------------------------------------------------------------------
\* Every variable has its type; chunks are of the file, and of a named file.
TypeOK ==
    /\ lastIndex \in InitialIndex..MaxIndex
    /\ overlap \in BOOLEAN /\ late \in BOOLEAN
    /\ present \in [Changesets -> BOOLEAN]
    /\ chunks \in [Changesets -> SUBSET Nat]
    /\ unwritten \in [Calls -> [Changesets -> [Attempts -> SUBSET Nat]]]
    /\ \A c \in Changesets :
          /\ chunks[c] \subseteq 1..FileSize[c]
          /\ \A k \in Calls, i \in Attempts : unwritten[k][c][i] \subseteq 1..FileSize[c]
    /\ phase \in [Calls -> {"idle"} \union Live \union SettledPhases]
    /\ cursor \in [Calls -> 0..MaxIndex]
    /\ more \in [Calls -> BOOLEAN]
    /\ result \in [Calls -> SUBSET Changesets]
    /\ pool \in [Calls -> Queues(Changesets)]
    /\ aborted \in [Calls -> BOOLEAN]
    /\ downloaded \in [Calls -> Nat]
    /\ total \in [Calls -> Nat]
    /\ report \in [Calls -> Nat \X Nat]
    /\ step \in [Calls -> [Changesets ->
                   Waiting \union {"none", "queued", "done", "failed"}]]
    /\ attempt \in [Calls -> [Changesets -> 0..MaxRetries]]
    /\ position \in [Calls -> [Changesets -> Nat]]
    /\ linked \in [Calls -> [Changesets -> BOOLEAN]]

\* A call that returns has every file it returns whole in the directory, and
\* the file stays whole: whatever was retried, aborted or cut short by a crash
\* in this call or an earlier one.
FulfilledMeansComplete ==
    \A k \in Calls : phase[k] = "fulfilled" =>
        \A c \in result[k] : Complete(c)

\* As long as no call begins beside what an earlier one left running or writing, and
\* no attempt beside writes of the one that failed before it: a file that one call
\* accepted as downloaded is whole, and nothing that call or another one still does or
\* does later breaks it.
AcceptedFilesStay ==
    ~overlap /\ ~late =>
        \A k \in Calls, c \in Changesets : step[k][c] = "done" => Complete(c)

\* As long as no calls and no attempts overlap in that way, the size is a sufficient
\* test of an existing file, the only one isChangesetAlreadyDownloaded makes: crashes,
\* aborts and last failures that lose or delay what the stream has not written leave
\* no file that has the expected length and is not whole.  (A write of a failed attempt
\* that comes after the next one truncated the file does leave one: such attempts are late.)
SizeTellsComplete ==
    ~overlap /\ ~late => \A c \in Changesets : SizeMatches(c) => Complete(c)

\* As long as no calls overlap, a changeset whose file has the expected size is not
\* downloaded again: a first attempt never opens such a file, that is truncates it.
NotDownloadedAgain ==
    [][~overlap => \A k \in Calls, c \in Changesets :
         step[k][c] = "link" /\ step'[k][c] = "request" /\ attempt[k][c] = 0
           => ~SizeMatches(c)]_vars

\* When a call returns, each of its downloads was accepted and none still runs
\* or waits to run, in whatever state other calls left the directory.
ReturnedMeansAccepted ==
    \A k \in Calls : phase[k] = "fulfilled" =>
        \A c \in Changesets :
            step[k][c] = IF c \in result[k] THEN "done" ELSE "none"

\* The progress a list call reports never exceeds the total it reports, for failed attempts
\* raise the total by what they received.  (A changeset pushed between the two listings of
\* the call is downloaded and missing from the total.)
ProgressWithinTotal ==
    \A k \in Calls : Kind[k] = "list" => report[k][1] <= report[k][2]

\* The last report of a list call that returned is the total itself, so no chunk of a
\* file that was there, received or received again is counted twice or forgotten.  It is
\* stated of lists alone: a single call, of whose successful downloads the tests assert the
\* same (assertProgressReports), reports the latest chunk in place of the sum.
ProgressEndsAtTotal ==
    \A k \in Calls : Kind[k] = "list" /\ phase[k] = "fulfilled"
                       => report[k][1] = report[k][2]

\* Every call returns or throws.
CallSettles == \A k \in Calls : phase[k] \in Live ~> phase[k] \in SettledPhases
===============================================================================
