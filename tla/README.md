# A verification project for imodels-clients

TLA+ modules, TLC configurations and TLAPS proofs about the client libraries of
the iModels service: `clients/imodels-client-management`,
`clients/imodels-client-authoring` and the iTwin platform adapters under
`itwin-platform-access`, and about the iModel their integration tests share. Every definition is translated from the TypeScript
source; `PROJECT.json` maps each one to its lines.

Contents: [inventory](#inventory), [modules](#modules), [runs](#runs),
[proofs](#proofs), [what the runs found](#what-the-runs-found),
[not modelled](#not-modelled), [plan](#plan).

## Inventory

The program is a library: it has no threads and no state of its own that
outlives a call. What makes it hard is that every call is a sequence of awaits.
Between two of them any other callback of the process may run, the service and
the file system may change, a request may be lost after it was performed, and
the process may end.

| part | state | operations | talks to | hard because of |
|---|---|---|---|---|
| limited parallel queue (`LimitedParallelQueue.ts`) | the items queued; the promises executing, local to `waitAll` | `push`, `waitAll` | the items it calls | settlements race the loop; a failure leaves items running |
| changeset download (`ChangesetOperations.ts`, `FileDownload.ts`) | the target directory; byte counts of a call; a loop counter per download | `downloadSingle`, `downloadList` | queue, REST client, storage, file system, progress callback, abort signal | ten downloads at once, retries, aborts, files of earlier processes, two listings of a growing list |
| REST client (`AxiosRestClient.ts`, `AxiosRetryPolicy.ts`) | a retry counter per request | the five verbs | the network | lost answers: performed and retried |
| iModel creation (`IModelOperations.ts` twice, `UtilityFunctions.ts`) | polls left | `createEmpty`, `createFromTemplate`, `clone`, `fork`, `createFromBaseline` | REST client, storage | the service works on its own; timeouts, failure in the middle |
| changeset push (`ChangesetOperations.create`, `pushChangeset`) | a changeset half pushed, at the service | create, upload, confirm | REST client, storage | competing pushers, a failure between the steps, retried confirmations |
| request building (`OperationsBase.ts`, `IModelsApiUrlFormatter.ts`) and the operations on entities (`operations/**`) | headers of the client | lists, `getSingle`, update, add, remove, functions attached to entities | REST client, authorization callback, header factories | tokens that expire, ids, indexes and links that name one thing |
| progress and cancellation adapter (`PlatformToClientAdapter.ts`, `BackendIModelsAccess.ts`) | a promise that decides once | progress callback, cancel | download | the cancellation races the end of the download |
| checkpoint search (`CheckpointHelperFunctions.ts`) | the index searched | V1 and V2 queries | REST client | checkpoints that come and go, index 0 |
| locks and briefcases (`LockOperations.ts`, `BriefcaseOperations.ts`, `BackendIModelsAccess.ts`) | at the service | acquire, release, release in chunks | REST client | requests that are not idempotent under retries |
| iterators (`EntityListIteratorImpl.ts`, `IteratorUtilFunctions.ts`) | the next page | `next`, `byPage`, `toArray`, `take` | REST client | pages of a list that changes; limits |
| version resolution (`ChangesetFunctions.ts`, `FrontendIModelsAccess.ts`, `BackendIModelsAccess.ts`) | none | latest, first and named version, range | iterators, REST client | two requests that see two states |
| errors (`ErrorAdapter.ts`, `IModelsErrorParser.ts`) | none | parse, adapt | all | tables with gaps |
| baseline preparation (`BackendIModelsAccess.ts`) | a temporary file | `createNewIModel` | native db, iModel creation | a write-ahead log beside the file, a failure before the copy is removed |
| the shared test iModel (`ReusableTestIModelProvider.ts`, `TestIModelCreator.ts`, `TestIModelRetriever.ts`) | at the service; the iModel a run was given | `getOrCreate` | all of the clients | several runs at once, runs that end in the middle |

What makes each of them correct:

- queue: at most ten items run; `waitAll` fulfils only when all are done, rejects
  on the first failure and starts nothing after it; it never hangs on settled
  promises.
- download: a file that a call returns is whole, and stays so; a call that
  returns has nothing running; progress ends at its total; every call settles.
- REST client: bounded repetitions; success means the request was performed;
  only a failure that cannot be retried, or the last one, is thrown.
- creation: a returned iModel is initialized, from its own file; an error tells
  what happened; the wait is as long as asked for.
- push: no confirmation without the file, one winner per parent, nothing of a
  failed push blocks the next one for good.
- cancellation: decided once, never after the end of the download.
- checkpoint search: the checkpoint found is the latest usable one at or before
  the changeset; the search ends.
- locks, briefcases: what a successful call reports holds at the service; a
  release loop ends; nobody edits what he has not got the latest change of.
- lists: nothing is left out or told twice while a list grows at its end, however it is
  read; each request has the headers of its call and a token of its time.
- versions and links: the answer is the entity that was named, and was right at some time
  during the call.
- the shared test iModel: what says it is complete is complete; all runs get the same one.

## Modules

Two conventions. A record or a set of values stands for each object of the code,
with the code's names. Definitions called `...Defect` are plausible mistakes in
the definition that follows them; nothing uses them: they are what the mutants of
`PROJECT.json` put in its place, to see that a property would notice.

An action is a synchronous stretch of code from one await to the next: JavaScript
runs nothing in between. Services, network and file system are actions of their own.

**`LimitedParallelQueue`** is a module of constants: the queue object as a record
(`queue`, `executing`, `broken`, `race`, `waitAll`) and an operator for each
stretch: `Push`, `Loop` (a turn of the loops of `waitAll`, up to its next await),
`OnFulfilled`, `OnRejected`, `Throw`. `race` remembers which settlement decided
`Promise.race`: a promise that settles between that and the loop going on changes
`executing` but not the race.

**`QueueClient`** runs one queue: a caller pushes, awaits `waitAll`, may push more
while it waits, and items settle in any order. **`TaskPool`** says what a pool of
tasks promises without queues and races: `ImplementsTaskPool` maps the one on the
other.

**`ChangesetDownload`** composes that queue with `downloadList`, `downloadSingle`,
`downloadChangesetWithRetries`, `isChangesetAlreadyDownloaded` and `downloadFile`.
Its constants are the sequence of calls a client makes (`Kind`), the sizes of the
changeset files in chunks, the page size, `maxRetries`, whether progress is asked
for, and which outside events happen. Calls follow each other; what an earlier one
left running runs on beside a later one. `step[k][c]` is the await the download of
changeset `c` in call `k` stands at. A file is the set of its chunks, with a name (`present`)
or without; opening truncates, deleting leaves a writer with a nameless file. What an attempt
receives goes to its stream (`unwritten`), and from there to the file, chunk by chunk at its
own offset, when the stream comes to it (`WriteChunk`). A download fulfils when its stream has
closed, that is, written all. A stream that is ended because its attempt failed is awaited by
nobody (`FileDownload.ts:67`) and goes on writing, be it after the next attempt has truncated
the file. Two variables remember what the properties about files except: `overlap`, that a
call began beside downloads or writes of an earlier one, and `late`, that an attempt opened a
file to which an earlier one had still to write. The file is opened, and truncated, when
`createWriteStream` is called: that is the first thing the stream asks of the file system, and
an open that is overtaken by later operations is left out. `Init` allows any
files an earlier process may have left. `Abort` sets the signal, `Crash` ends the
process and keeps of the files what is written, `PushChangeset` is another client at work.

**`DownloadCancellation`** is `downloadChangesets` and `downloadChangeset` of the backend over
`ChangesetDownload`, where the abort signal is set by nobody but the adapter. `monitor` is what
the promise of `toDownloadProgressParam` was told first, by the callback (`Report`) or by the
`finally` block (`Finally`); `asked` remembers that the callback answered a report with a
cancellation before the call ended. What a settled promise calls runs before anything else the
process waits for (`Quiet`). Downloads that a rejected call leaves running go on reporting; what
the callback answers then comes too late, since the promise is decided.

**`RestClient`** is `executeWithRetry` with the default policy. Attempts of a
request are numbered by `retriesInvoked`; `onWire` holds those the service may yet
perform, which include attempts whose connection failed. **`RetriedCall`** is what
the rest of the client may rely on: `RestClient` implements it, and modules of
other operations are to use it in place of requests. An attempt that arrives when its call
has ended still counts among the effects, which `EffectsBounded` bounds.

**`IModelCreation`** has the five operations that create an iModel in one module,
since they share `waitForCondition`: `kind` selects the states the service passes,
the errors and the steps (`createFromBaseline` uploads and confirms). `clock` counts
the ms slept and `finishedAt` notes by when the creation had succeeded or failed. For a baseline
`given` is the application's file and `copy` the one `createNewIModel` makes, prepares and
removes around `createFromBaseline`; what is in a file is told by one of a few `Files`.
`createEmpty` may refuse its properties before it sends anything (`PropertiesRefused`).

**`CheckpointSearch`** is a query for the V1 or V2 checkpoint of a changeset:
`queryV2Checkpoint`, the lookup of `downloadV1Checkpoint` and the backward search of
`CheckpointHelperFunctions.ts`. `awaiting` is the request the query stands at;
`checkpoint` is what the service holds and `Generate` adds to it at any time; `atStart`
remembers what was there when the query began, which is what its answer is held
against. A checkpoint has what decides its use: its state, a V1 download link, a V2
access record.

**`ChangesetPush`** is `pushChangeset` with `ChangesetOperations.create`, by several
briefcases that call again and again: `step` is the await a call stands at, `retries`
the count of the rest client. A request repeated after a lost connection stays in
`stray` for good and may `Arrive` at any time and more than once, so a lost answer, a
late request and a repeated one are all there. An upload that fails may have stored the file,
and the answer to the creation may come without the link that confirms it (`Uploaded`). The
service is external: it accepts a
changeset whose parent is the latest one, holds one at a time in state waitingForFile,
and refuses for the causes the errors of the client name. **`ErrorAdapter`** has the
tables by which a refusal reaches the caller. **`PushLog`** is what is promised: a list
that grows by each push that is open or in doubt, at most once.

**`BriefcaseLocks`** is what `BackendIModelsAccess` does with briefcases and locks, for
several users at once: `AcquireNewBriefcaseId`, `ReleaseBriefcase`, `GetMyBriefcaseIds`,
`AcquireLocks`, `QueryAllLocks` and `ReleaseAllLocks` each begin a call, `step[u]` is the await
it stands at, and an action per request answers it. `ToLockLevel`, `GroupLocksByLockLevel`,
`ToLockProps` and `ToLockState` are the adapters between the levels of the platform and those
of the API. The service is external: locks conflict between briefcases, and an exclusive one
is refused to a briefcase that has not pulled the changeset the object was released with.
`Resend` and `GiveUp` leave a request in `stray`, which may `Arrive` once at any later time.
`believed`, `released`, `pulled` and `edited` say what a user may conclude from what he was
told, which the properties hold against the service.

**`IModelsApi`** is a module of constants: every operation of the clients on entities as a
record of its verb, its type, its parameters and the functions it attaches to what it
returns; the links of each type of entity, and what each attached function does with them;
which entity a URL stands for; and the headers of a request. **`EntityQueries`** runs them.
A caller makes one call at a time: it reads a list (`GetList`, `Take`, `NextPage`), gets a
single entity, follows a function attached to the one in `hand`, sends a change, or asks one
of the `Questions` the platform adapters ask about versions, changesets and names. A call
stands at `"authorizing"` while the authorization callback is awaited and at `"sent"` until
the request, formed with the callback's answer, is performed. Others change the `content`
and tokens expire at any time. The list in hand and the entity in hand do not depend on each
other: a caller that turns to a single entity leaves the list it read. Pages are cut at an
offset, as `$skip` does it. Parameters of a change are chosen when it is performed, since
nothing depends on them before. Retries are left to `RestClient`.

**`ReusableTestIModel`** is the provider of the iModel that the integration tests share, for
several test runs at once: `run[r].at` is the request a run awaits, `Parts` the order in which
`createReusable` sends its requests, `Queries` the order in which an iModel that was found is
checked, and `waits[r]` the checkpoints awaited beside them. A run may end at any point
(`Ended`) and call again; a request may fail, performed or not (`Fails`), or be performed
twice once (`Repeat`). A wait polls on for a checkpoint
that is generated but has no link or no access record yet (`Wait`). A wait for a checkpoint that rejects before `Promise.all` is reached
is an unhandled rejection, which ends the run. The iTwin is taken to exist.

**`MCChangesetDownload`**, **`MCDownloadCancellation`**, **`MCBriefcaseLocks`**, **`MCEntityQueries`** and
**`MCReusableTestIModel`** have the values the runs give to constants.

## Runs

| run | asks | bounds |
|---|---|---|
| `QueueClient` | the limit, the task pool (nothing forgotten, nothing started after a failure), `waitAll` settles | 4 items, 2 at a time: a queue that waits, a slot freed by each of two, a failure while another runs |
| `DownloadCancellation` | a list whose callback may cancel, then a single download beside what the list left running: the progress of the list is within and ends at the total, a cancellation stops the call and nothing else does, both calls settle | 3 changesets on 2 pages, 2 at a time, 2 attempts; nobody pushes |
| `DownloadRestart` | a list with progress, then a single download, with late writes, crash, abort, request failures and a push: what is returned was accepted, accepted files stay, the size is a sufficient test, nothing downloaded twice | 2 changesets, the larger of two chunks so that it can be cut short; of the second one the first listing may know nothing; a list after a restart is the first call, which finds any files an earlier process may have left |
| `RestClient` | effects bounded, late arrivals included, the retried call, calls settle | 2 requests; 3 retries asked for, 2 allowed by the client: two attempts may be late at once |
| `IModelCreation` | initialized when returned, from the whole of its file, errors tell the cause, the length of the wait, neither a success nor a failure overlooked, settles though the service owes nothing | five kinds, the baseline given by a caller or by `createNewIModel` from no file, a closed one or one with a log; timeout 5 with period 2: three polls and a remainder |
| `CheckpointSearch` | the nearest checkpoint is found, none is overlooked, every query ends | changesets 0 to 3, every combination of checkpoints on them: an unusable checkpoint before and behind a usable one, and the baseline |
| `ChangesetPush` | no changeset without its file, the index returned is right and stays so, a refusal is certain, the list of `PushLog`, every call ends | 2 briefcases, 2 calls each, one retry: a push in doubt followed by the same one again or a new one, beside a competitor |
| `BriefcaseLocks` | granted locks are held, released ones free, nobody edits over a change he has not got, every call ends | 2 users, 2 objects, 2 briefcases, 4 calls, one retry, one request left behind, one changeset: a lock that goes from one user to the other with a late release between; chunks of any size, so that the release loop turns |
| `EntityLists` | lists read whole, by count or by page, headers and tokens of every page, every call ends | every list, up to 3 entities on pages of 2 so that there are two pages, one change and one expired token anywhere, 3 calls so that a take follows a take that was broken off |
| `EntityQuestions` | the entity named is the one returned, versions are resolved to what they stood for during the call | every operation and attached function, every question of the adapters, pages of 1 so that resolving takes two requests, two changes by others, 2 calls so that an attached function is called on what was returned |
| `ReusableTestIModel` | a completed iModel is whole, runs share one, every call ends | 2 runs, 2 changesets, one group, one set of extended data, 2 named versions, 2 iModels, 3 calls, one run that ends: a run that waits for one that ended, and a recreation of an iModel in use |
| `LeftoverDownloads` | violated: what a list returns is whole, beside what an earlier one left running | 2 changesets, two lists |

`BriefcaseLocks`, `EntityLists`, `EntityQuestions` and `ReusableTestIModel` do not look for
deadlocks: callers need not call again, and their number of calls is bounded.

The bounds are small since nothing in the code depends on larger numbers: a queue
treats its third and its tenth slot alike, a file of two chunks can be empty, cut
short and whole, a second attempt has a failed one before it and, with three, one
behind it. The limit of ten downloads is a constant that the runs set to 2.

Fairness: callbacks that are ready run (the event loop), timers fire, and a transfer
or request that is open ends in one way or another. The last is the network's part;
the code sets no timeout, and without it nothing could be said: a connection that
stays open and silent hangs the call. The service owes no progress in
`IModelCreation`: the timeout alone makes the call settle. In `ChangesetPush` only the
awaits of the client are fair: what was left behind may never arrive, and a pusher need
not call. A download whose storage
fails again and again is not assumed to succeed. In `BriefcaseLocks`, `EntityQueries` and
`ReusableTestIModel`, too, a call that has begun goes on and what it awaits ends, with an
answer or an error; nobody need call, change anything, or finish what an ended run began.

## Proofs

TLAPS proves, for every value of the constants that the modules' assumptions allow:

- `RestClientProofs`: the safety properties of `RestClient` and that it implements
  `RetriedCall`. `RetryInv` counts the attempts: one less may have been sent by a call
  that is about to send than by one that has. Without that distinction the bound is not
  inductive.

- `ChangesetDownloadProofs`, in five parts, each resting on the one before it:
  - The queue: first what each operator of `LimitedParallelQueue` preserves (`WellFormed`), for
    any client of it, then the safety properties of `QueueClient` and that it implements
    `TaskPool`. The inductive invariant `ClientInv` relates the record to the items: the queue
    is without duplicates, the executing items are the running and the rejected ones, a pending
    race has no rejected item among its candidates.
  - A call which returns has accepted every download and runs none, however calls overlap.
    `CallInv` relates, for each call, its phase, the steps of its downloads, their attempts
    and its queue: the queued items are the downloads at `"queued"`, the executing ones that
    are not broken are those that run. The lemmas about the queue are used here for a second
    client. A step changes one call; `OneCallChanges` leaves only
    that call to be looked at.
  - Accepted files stay whole, the size is a sufficient test, what a call returned is whole, as
    long as `overlap` and `late` are false, and no file of the expected size is downloaded
    again, as long as `overlap` is. `FileInv` says that at most one call is busy, also with
    writing; that each file is a prefix of its chunks (`PrefixInv`); that one attempt at most
    has something to write to it, and this continues what is there up to what the attempt
    received (`OneWriter`); and that no accepted file has a download under way that would write
    it. None of these is inductive without the others: a chunk keeps the file a prefix only
    because it is the next one, and that only because no other stream writes to the file. The
    part that holds whatever attempts do to each other (`CallsApart`) is kept apart. `QuietStep`
    covers the steps that touch no file; `WorkFiles` reduces a step of a download to its own
    file.
  - The adapter's downloads are downloads (`AdapterImplementsDownload`), and one whose callback
    cancelled receives nothing any more; it may still open its file. `CancellationInv` says that a call is aborted only by
    a promise that its callback decided, and that a promise which the end decided belongs to a
    call that has ended.
  - Reported progress stays within its total and, when a list returns, ends there, as long as
    nothing disturbs it (`Undisturbed`: no push between the two listings, no overlap; both do
    break it). `ProgressInv` does not add sizes up, which would be induction over the
    changesets: `Missing(k)` is the set of chunks a call has yet to receive, and its
    cardinality is what `downloaded` falls short of `total`. A chunk removes one member, a
    failed attempt puts its own back. Both are said of lists: a single download reports the
    latest chunk alone.

- `CheckpointSearchProofs`: what `CheckpointSearch` checks but for its liveness, for a
  history of any length and any checkpoints that appear meanwhile. `AheadInv` is the
  heart of it: every checkpoint that was there at the start and is not behind the
  changeset asked for lies in the part still to be searched.
- `ChangesetPushProofs`: the safety properties of `ChangesetPush` and that it implements
  `PushLog`. `PlaceInv` says that a changeset's parent is where it stands in the history,
  so nothing is confirmed twice though confirmations may arrive twice; `StrayInv` that a
  confirmation left behind belongs to a push that is open, done or in doubt; `CertainInv`
  that nothing else gets into the history behind its pusher's back. A step of the proof
  is an answer, an error or a repetition (`GotoStep`, `ReturnStep`, `ThrowStep`), whatever
  the await.
- `IModelCreationProofs`: the safety properties that hold of `IModelCreation`. `CreationInv` says by
  which phase the file is uploaded whole (`FileInv`), what the service may say when the
  client asks (`StateInv`), and that the time slept and the polls left make up the wait that
  was asked for (`WaitInv`), from which a creation that had succeeded or failed a period
  before the timeout was looked at (`TimeoutInv`). `PollsCover`, `OnePollLess` and `SleepFits` are the arithmetic of
  the rounding up, kept apart since the provers do nonlinear terms poorly.
- `BriefcaseLocksProofs`: what was granted is held, what was released is free, and edits
  build on each other, for any number of users, objects, repeated requests and late
  arrivals; and that nobody relies on a lock of an object that another user relies on
  exclusively (`ExclusiveLocksExclude`). `LocksInv` has a part for each reason why a step
  of one user leaves the conclusions of the others alone. `OwnerInv`: a briefcase is the
  matter of one user, for the service, in its hand, in its requests and in those it left
  behind. `RequestInv`: a request for locks is of the briefcase and the changeset the user
  is at. `HeldInv` is `GrantedMeansHeld` for every level up to the one believed: a release
  that was left behind and lowers a lock still leaves what it does not lower, which the
  property alone forgets when a belief is lowered. `EditInv` follows an edit: whoever holds
  the object exclusively has it, or it was released with a changeset at least as late.
  `StrayInv` makes late requests harmless there: they carry a changeset no later than the
  one their user is at. Every change of locks is an instance of `Relocks`, and every answer
  of `AnswerKeeps`.

- `EntityQueriesProofs`: all that `EntityLists` and `EntityQuestions` check but for liveness,
  for any content of the service, any lists, pages, parameters and questions. `QueriesInv` is
  what every other part rests on: the service stays sound (`ServiceOK`), a request is the one
  its call waits for and a later page follows what was fetched (`CallsOK`), the links of the
  entity in hand lead to what there is (`HandOK`). Then one invariant for each property:
  - `HeadersInv`: a request that has been sent was formed with the headers of its call and the
    token that was good at that time (`formedAt`), or the one the caller insists on. The token
    may have expired before the request is performed, so it is said of the time of forming.
  - `NamedInv`: the url on its way names what is to be returned. What a link leads to may go
    away before it is followed, except for types of which nothing is removed (`KeptTypes`):
    those are the ones links lead to.
  - `TakesInv`: what was given, what is being taken and what is left of the page are together
    what was fetched (`Whole`): in this order, or, when pages were taken in between, each
    entity as many times; a take that got less than asked for has come to the end, and
    none gets more, but for a count of 0.
  - `WholeInv`: what was fetched is a beginning of the list as it is now, and the next page
    begins where it ends. That pages put together are the list would be an induction over
    pages; said of a beginning (`IsPrefix`), one page is one step. `InOrderLists` is why a
    list in its order is a list: a member's position is how many are ahead of it.
  - `QuestionInv`: what is right now is among the answers right at some time of the call
    (`history.right`), where a named version on the baseline is index 0, and what the adapters
    say of it instead (`Reported`) is an exception that `ResolvedWithinCall` states; the part
    of a range read so far is a beginning of what is right now; and the changeset of a named
    version, found by the first of two requests, is among the right answers and still there for
    the second.
- `ReusableTestIModelProofs`: a completed iModel is whole and runs share one, for any number of
  runs, calls, ends, briefcases, changesets, groups and versions. `ShareInv` holds whatever is
  repeated: one iModel of the name at most, what a run checks or was given says that it is
  completed, and it is gone only if a run with the option deletes it. `PartsInv` is about
  requests performed once: a creating run is the only one that creates its iModel
  (`OwnerInv`), the iModel holds exactly what the answered requests of each part have made
  (`Holds` of `Sent`), so the ids of groups that later parts send are right, and each named
  version has its checkpoint or a wait of its run (`CheckpointsOK`). The completing request is
  the last, so it finds all of them done. `PerformKeeps` is the step that interferes: what a
  run sends, also one that fails or ends afterwards, touches no iModel of another creating run.

`ReturnedFilesWhole` has two conditions, and both are needed: `FulfilledMeansComplete` fails
with overlap, as the run `LeftoverDownloads` shows, and with late writes, as told below.

The assumptions are those the modules state of their constants (`DownloadAssumption`,
`QueueAssumption`, `IndexAssumption`, `PushAssumption`, `RestAssumption`,
`CreationAssumption`, `CancellationAssumption`, `LocksAssumption`, `QueriesAssumption`,
`HeadersAssumption`, `QuestionsAssumption`, `InitialAssumption`, `ReusableAssumption`): counts
are naturals, files have at least one chunk, pages at least one changeset, the period of a
wait is not zero, locks are asked of objects that exist, an abort can happen. Those of
`EntityQueries` say which lists, operations and questions there are, that nobody passes an
authorization header of his own, and that the service begins `Sound`: nothing is listed twice,
changesets are numbered as they come, names are unique where the service keeps them so,
versions are made on changesets that were pushed; that it stays so is proved. The
one of `ReusableTestIModel` has each kind of content at least once, as the static members of
`TestIModelCreator` have it, and the named versions on later and later changesets (5 and 10
there): the check compares what it found, sorted by changeset, with that list in its order.

Each proof module of a component proves the type invariant, for every value of the
constants, so the runs do not check it again; those of the other modules hold on the
instances of their runs and are there for proofs to begin with.

Only model-checked: liveness, since the prover does neither fairness nor `ENABLED`. Every
safety property, action property and refinement that a passing run checks is a theorem as
well.

## What the runs found

The run `LeftoverDownloads` is violated; `PROJECT.json` quotes the sentence it contradicts.
`downloadList` throws at the first failure and leaves the other downloads running. If the
caller calls again, an old retry truncates a file the new call has already returned. As long
as no calls overlap, and no attempts, the files stay whole (`DownloadRestart`).

Others were met on the way and are told by the model, without a run of their own. Where a
property leaves one out, the property says so.

Downloads, creations, checkpoints and pushes:

- The stream of a failed attempt is not awaited before the next attempt truncates the file
  (`FileDownload.ts:67`). What it still writes lies at the end of the file; when the next
  attempt fails before it has filled the gap, the file has the expected size and is not whole,
  and a later call takes it for downloaded and returns it. `SizeTellsComplete`,
  `AcceptedFilesStay` and `ReturnedFilesWhole` leave out attempts that are `late`.
- `downloadSingle` reports the size of the last chunk in place of the bytes downloaded so far
  (`ChangesetOperations.ts:230`), where `NodeOnlyAssertions.ts:286` expects the last report to
  be the total. It is, of a file that comes in one chunk. `ProgressEndsAtTotal` is about lists.
- A changeset pushed between the two listings of `downloadList` makes the progress exceed its
  total, which `NodeOnlyAssertions.ts:274` asserts it does not. The run has no push.
- `createFromTemplate` reports a timeout as `IModelFromTemplateInitializationTimedOut`; its
  documentation (`IModelOperations.ts:198-199` of the management client) names
  `IModelFromTemplateInitializationFailed` for it. `ErrorTellsCause` says what the code does.
- `maxRetries` counts attempts, the documents say retries (`CommonInterfaces.ts:21` of the
  authoring client). With 0 no attempt is made.
- A search that meets an unusable checkpoint on changeset 1 steps to index 0 and ends there
  with nothing, so a usable checkpoint of the baseline is overlooked. From any other
  changeset it does get to the baseline; `NothingOverlooked` has the exception.
- `waitForCondition` ends with a sleep, not a look: a creation that completes in the
  last period of `timeOutInMs` is reported as timed out. `TimedOutMeansNotReady`
  is what does hold.
- A query for changeset 0 with `allowPreceding` asks for the baseline's checkpoint by
  another way: when there is none it throws `CheckpointNotFound`, where the query
  without `allowPreceding` returns undefined.
- A push whose confirmation is repeated after a lost answer may be told `InvalidChange`
  though it succeeded; one that was given up may succeed later. `RefusalIsCertain` is
  what a caller can rely on; any other error leaves it to look at the history.
- The code of the API for an existing named version, `NamedVersionExists`, is the value
  of the member `VersionExists` of `IModelsErrorCode`; `parseCode` looks for a member of
  that name, finds none and makes it `Unrecognized`.
- `createEmpty`, `clone` and `fork` send their last request, `getSingle`, without the
  headers given to them.
- `createNewIModel` removes its copy of the baseline file only when the creation succeeded;
  one that was given up leaves it in the temporary directory.

Locks and briefcases:

- A release of a briefcase or of locks, or an update that lowers one, may arrive after the
  caller has acquired locks again, and take them away unnoticed. The properties of
  `BriefcaseLocks` have the exception.
- `releaseAllLocks` that fails in the middle has released some locks; the caller is not told
  which, and `queryAllLocks` is how it finds out.

Entities and lists:

- A named version on the baseline is reported `NamedVersionNotFound` by the adapters
  (`ChangesetFunctions.ts:65`, `FrontendIModelsAccess.ts:165-170`), though
  `NamedVersionInterfaces.ts:30-31` has index 0 for it. `ResolvedWithinCall` excepts it.
- `take(iterator, 0)` takes all: the count is compared after an entity has been taken
  (`IteratorUtilFunctions.ts:60`). `TakesContinue` bounds every other count.
- A page that fails ends the iterator. What was taken until then is lost, and a later `take`
  returns less as if the list had ended there.
- Names in URLs are not escaped: of a name with "&" or "#" the service gets what is before it.
- An empty `$continuationToken` is left out of the URL (`IModelsApiUrlFormatter.ts:359`),
  though `CommonInterfaces.ts:85-86` says that it begins the paging by token.
- Full representations from the lists of favorites and recents come without `getCreator`
  (`FavoriteIModelOperations.ts:70`, `RecentIModelOperations.ts:74`), which
  `IModelInterfaces.ts:113-118` promises.
- One briefcase without a link to its checkpoint makes its whole page throw.
- An authorization callback that fails rejects a request for a single entity with its own
  error and one for a page with a parsed one.

The shared test iModel:

- The wait for its completion ends with a look that nobody looks at: an iModel that is
  complete by then is reported as timed out.
- A run that ends in the middle of a creation leaves an iModel for which all later runs wait
  in vain, and one whose request was performed twice (a second briefcase) an iModel that all
  later runs reject, until one of them recreates it; and that one deletes it under the others.

## Not modelled

- The text of URLs, bodies, header values and JSON: which entity a URL stands for and which
  header is sent is modelled, not how they are written.
- Lengths of the backoff sleeps and of transfers: only their order matters.
- An open of a target file that the file system performs after later operations of the
  process: it is performed when it is asked for.
- A zero timeout in the run of `IModelCreation`; `TimeoutsOverlookNothing` covers it.
- A source stream that ends early without an error (listed as a hazard): that it does not is
  what the storage library owes `downloadFile`.
- The details and messages of errors, and which locks conflict.
- The storage library, assertions and fixtures of the tests but for the shared iModel,
  generated and build scripts (`common/scripts`): none of it has behaviour of its own to get
  wrong between two awaits.

`PROJECT.json` lists every component with its state.

## Plan

The modules are written, in this order: the queue and the download with their proofs, its
cancellation, the REST client, the creations, the checkpoint search, the push, briefcases and
locks, entities and lists, the shared test iModel; and the safety properties of the runs are
proved. What would add to it:

1. An abstract table of locks that `BriefcaseLocks` implements, as `PushLog` is for the push.
2. `createEmptyAndUploadChangesets` of the test utilities, which sends a part of the requests of
   `createReusable` for an iModel of one run.
