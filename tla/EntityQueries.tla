------------------------------ MODULE EntityQueries ------------------------------
(***************************************************************************)
(* A caller of the clients, and of the two platform adapters, asks the     *)
(* iModels service for lists, single entities and related ones, sends what *)
(* takes one request, and asks what a version stands for, while others     *)
(* change what there is and tokens expire.  The caller makes one call at a *)
(* time.  A request is formed when the authorization callback has answered *)
(* and is performed and answered in a later step; code between two awaits  *)
(* is one step.  That a request is repeated after a lost connection, and   *)
(* may arrive late, is told by RestClient.                                 *)
(* Definitions called ...Defect are mistakes the properties must catch.    *)
(***************************************************************************)
EXTENDS IModelsApi, SequencesExt

CONSTANTS MaxId,      \* entities of a type are numbered up to MaxId
          Names,      \* of iModels and named versions
          Initial,    \* what there is: [store, names, madeOn], see content
          PageSize,   \* of the service, when the caller does not say
          Lists,      \* lists the caller asks for: [operation, params]
          Counts,     \* what it takes of one at a time; 0 is never met, so takes all
          Gets,       \* other operations it calls
          Sends,
          Questions,  \* what it asks the adapters
          Headers,    \* what it may pass as headers
          OthersDo,   \* what others do meanwhile
          MaxChanges, \* changes, by others and by the caller: bounds the model
          MaxExpired, \* tokens that expire: bounds the model
          MaxCalls    \* calls of the caller: bounds the model

Ids == 1..MaxId

\* a changeset of another briefcase
Push == Send("post", "changeset", {})

Operations == ListOperations \union GetOperations \union SendOperations

Types == {operation.on : operation \in ListOperations \union GetOperations}

ASSUME QueriesAssumption ==
    /\ MaxId \in Nat /\ MaxChanges \in Nat /\ MaxExpired \in Nat /\ MaxCalls \in Nat
    /\ PageSize \in Nat \ {0} /\ Counts \subseteq Nat /\ DigitIds \subseteq Ids
    /\ \A list \in Lists : /\ list.operation \in ListOperations
                           /\ "top" \in DOMAIN list.params => list.params.top \in Seq(Nat)
    /\ Gets \subseteq GetOperations /\ Sends \subseteq SendOperations
    /\ OthersDo \subseteq SendOperations \union {Push}
    /\ Names \subseteq Seq(STRING)

\* Headers are given for what the client does not say of itself.
ASSUME HeadersAssumption ==
    \A headers \in Headers \union {ClientHeaders} : "authorization" \notin DOMAIN headers

\* The frontend knows changesets by their ids, and has no question about the baseline.
ASSUME QuestionsAssumption ==
    /\ Questions \subseteq
           [ask : {"first", "latest", "changeset", "latestNamedVersion", "namedVersion", "iModel", "range"},
            side : {"backend", "frontend"}, name : Names,
            changeset : [form : {"id", "index"}, number : Nat],
            range : [first : Nat, end : Seq(Nat)]]
    /\ \A q \in Questions :
           /\ q.ask = "changeset" /\ q.side = "frontend" => q.changeset.form = "id" /\ q.changeset.number # 0
           /\ Len(q.range.end) <= 1

VARIABLES content,  \* the service: [store, names, madeOn], where
                    \*   store: from types to what there is, in the order it is listed,
                    \*   names: [{"iModel", "namedVersion"} -> [Ids -> Names]],
                    \*   madeOn: [Ids -> the changeset of a named version, 0 for the baseline]
          expired,  \* tokens up to this one are refused
          changes,  \* changes so far
          calls,    \* calls so far
          step,     \* the await of the call: "idle", "authorizing" or "sent"
          call,     \* the call: what, want, got, wanted and caller
          request,  \* the latest request
          iterator, \* the latest list
          hand,     \* an entity that was returned, for its attached functions
          outcome,  \* of the latest call: what came of it, what it was, got and wanted
          history   \* right: the right answers to a question since it was asked;
                    \* disturbed: the latest list has changed, but for what it got at its end

service == <<content, expired, changes>>
vars == <<service, calls, step, call, request, iterator, hand, outcome, history>>

Nobody == [headers |-> <<>>, token |-> 0]
NoCall == [what |-> "none", want |-> 0, got |-> <<>>, wanted |-> <<>>, caller |-> Nobody]
NoRequest == [operation |-> IModelGetSingle, url |-> ListUrl("iModel"),
              query |-> <<>>, skip |-> 0, headers |-> <<>>, formedAt |-> 0]
NoHand == [operation |-> IModelGetMinimalList, linked |-> <<>>, caller |-> Nobody]
NoIterator == [operation |-> IModelGetMinimalList, query |-> <<>>, caller |-> Nobody,
               next |-> {}, buffer |-> <<>>, fetched |-> <<>>, given |-> <<>>,
               byPage |-> FALSE, failed |-> FALSE, atLeast |-> 0]
NoOutcome == [came |-> "nothing", of |-> "none", got |-> <<>>, wanted |-> <<>>]
-------------------------------------------------------------------------------
(* The service.                                                            *)

There(now, on) == {now.store[on][i] : i \in DOMAIN now.store[on]}

Rank(now, on, n) == IF on = "namedVersion" THEN now.madeOn[n] ELSE n

\* The members of a set one after another, as the pairs before say.
InOrder(S, before) ==
    [k \in 1..Cardinality(S) |-> CHOOSE p \in S : Cardinality({q \in S : <<q, p>> \in before}) = k - 1]

Less(S) == {pair \in S \X S : pair[1] < pair[2]}

Filtered(now, on, query) ==
    {p \in DOMAIN now.store[on] :
        LET n == now.store[on][p]
        IN  /\ "name" \in DOMAIN query => now.names[on][n] = <<query.name>>
            /\ "afterIndex" \in DOMAIN query => n > query.afterIndex
            /\ "lastIndex" \in DOMAIN query => n <= query.lastIndex}

\* which places of the store come first when the latest changesets are asked for
Later(now, on) ==
    LET places == DOMAIN now.store[on]
        rank == [p \in places |-> Rank(now, on, now.store[on][p])]
    IN  {pair \in places \X places :
            \/ rank[pair[1]] > rank[pair[2]]
            \/ rank[pair[1]] = rank[pair[2]] /\ pair[1] < pair[2]}

\* A list as it is now, for the query string of a request.
Listing(now, on, query) ==
    LET places == Filtered(now, on, query)
        order == InOrder(places, IF "orderBy" \in DOMAIN query THEN Later(now, on) ELSE Less(places))
    IN  [k \in DOMAIN order |-> now.store[on][order[k]]]

\* A page, and where its link to the next one leads, if it has one.
PageOf(now, on, query, skip) ==
    LET all == Listing(now, on, query)
        end == skip + (IF "top" \in DOMAIN query THEN query.top ELSE PageSize)
    IN  IF end < Len(all) THEN [entities |-> SubSeq(all, skip + 1, end), next |-> {end}]
        ELSE [entities |-> SubSeq(all, skip + 1, Len(all)), next |-> {}]

\* The latest checkpoint up to a changeset.
Preceding(now, c) ==
    {k \in There(now, "checkpoint") : k <= c /\ \A j \in There(now, "checkpoint") : j <= c => j <= k}

\* What a url names: {} or {type and number}.  The baseline is changeset 0 by its index.
Found(now, url) ==
    LET part == url.part
        changeset == IF part.form = "index" THEN {0} ELSE {}
    IN  CASE url.under = "changeset" ->
                 {<<"changeset", c>> : c \in {part.number} \intersect (There(now, "changeset") \union changeset)}
          [] url.under = "changesets" ->
                 {<<"checkpoint", k>> : k \in {part.number} \intersect There(now, "checkpoint")}
          [] url.under = "namedVersions" ->
                 {<<"checkpoint", k>> : k \in {now.madeOn[part.number]} \intersect There(now, "checkpoint")}
          [] url.under = "briefcases" -> {<<"checkpoint", k>> : k \in Preceding(now, MaxId)}
          [] OTHER -> {<<url.under, n>> : n \in {part.number} \intersect There(now, url.under)}

\* What holds of the service at any time: nothing is listed twice, changesets are numbered
\* as they come, names are unique, a named version is made on what was pushed.
Contents == [store : [Types -> Seq(0..MaxId)],
             names : [{"iModel", "namedVersion"} -> [Ids -> Names]],
             madeOn : [Ids -> 0..MaxId]]

Sound(now) ==
    /\ now \in Contents
    /\ \A on \in Types : /\ on # "checkpoint" => There(now, on) \subseteq Ids
                         /\ \A i, j \in DOMAIN now.store[on] : now.store[on][i] = now.store[on][j] => i = j
    /\ \A i \in DOMAIN now.store["changeset"] : now.store["changeset"][i] = i
    /\ \A on \in {"iModel", "namedVersion"} : \A m, n \in There(now, on) :
           now.names[on][m] = now.names[on][n] => m = n
    /\ \A v \in There(now, "namedVersion") : now.madeOn[v] \in There(now, "changeset") \union {0}
    /\ There(now, "user") # {}

ASSUME InitialAssumption == Sound(Initial)

\* The entity a link of another one stands for, if the other one has the link.
Linked(now, on, n, link) ==
    CASE link \in {"creator", "owner"} ->
             {<<"user", IF n \in There(now, "user") THEN n ELSE now.store["user"][1]>>}
      [] link = "changeset" -> {<<"changeset", c>> : c \in {now.madeOn[n]} \ {0}}
      [] link = "namedVersion" ->
             {<<"namedVersion", v>> : v \in {v \in There(now, "namedVersion") : now.madeOn[v] = n}}
      [] link = "currentOrPrecedingCheckpoint" -> {<<"checkpoint", k>> : k \in Preceding(now, n)}
      [] link = "checkpoint" -> {<<"checkpoint", k>> : k \in Preceding(now, MaxId)}

\* Changesets, and their checkpoints, are linked by index or by id.
Links(entity) ==
    {[on |-> entity[1], part |-> [form |-> form, number |-> entity[2]]] :
        form \in IF entity[1] \notin {"changeset", "checkpoint"} THEN {"id"}
                 ELSE IF entity[2] = 0 THEN {"index"} ELSE {"index", "id"}}

Without(list, n) ==
    LET left == {p \in DOMAIN list : list[p] # n}
        order == InOrder(left, Less(left))
    IN  [k \in DOMAIN order |-> list[order[k]]]
Fresh(now, on) == {n \in Ids \ There(now, on) : \A m \in Ids \ There(now, on) : n <= m}
FreeNames(now, on) == {name \in Names : \A n \in There(now, on) : now.names[on][n] # name}
Added(now, on, n) == [now EXCEPT !.store[on] = Append(@, n)]
Removed(now, on, n) == [now EXCEPT !.store[on] = Without(@, n)]
PutFirst(now, on, n) == [now EXCEPT !.store[on] = <<n>> \o Without(@, n)]
Renamed(now, on, n, name) == [now EXCEPT !.names[on][n] = name]
MadeOn(now, v, c) == [now EXCEPT !.madeOn[v] = c]

\* What an operation may make of what there is, and the entity it returns.  All but the
\* list of iModels is that of iModel 1, which nobody deletes.
Effects(now, operation) ==
    LET on == operation.on
    IN  CASE operation \in {IModelUpdate, NamedVersionUpdate} ->
                 {<<Renamed(now, on, n, name), n>> : n \in There(now, on), name \in FreeNames(now, on)}
          [] operation = IModelDelete ->
                 {<<Removed(Removed(Removed(now, "iModel", n), "favorite", n), "recent", n), n>> :
                     n \in There(now, "iModel") \ {1}}
          [] operation = FavoriteAdd ->
                 {<<Added(now, on, n), n>> : n \in There(now, "iModel") \ There(now, on)}
          [] operation = RecentAdd -> {<<PutFirst(now, on, n), n>> : n \in There(now, "iModel")}
          [] operation \in {FavoriteRemove, RecentRemove} ->
                 {<<Removed(now, on, n), n>> : n \in There(now, on)}
          [] operation = NamedVersionCreate ->
                 {<<MadeOn(Renamed(Added(now, on, n), on, n, name), n, c), n>> :
                     n \in Fresh(now, on), name \in FreeNames(now, on), c \in There(now, "changeset") \union {0}}
          [] operation = CheckpointUpdate ->
                 {<<IF now.madeOn[v] \in There(now, on) THEN now ELSE Added(now, on, now.madeOn[v]), now.madeOn[v]>> :
                     v \in There(now, "namedVersion")}
          [] operation \in {ChangesetGroupCreate, ExtendedDataCreate, Push} ->
                 {<<Added(now, on, n), n>> : n \in Fresh(now, on)}
          [] operation = ChangesetGroupUpdate -> {<<now, n>> : n \in There(now, on)}
          [] operation = ThumbnailUpload -> {<<now, 1>>}

\* What is listed in front or has gone makes the pages of a list overlap or leave gaps.
Disturbed(now, after) ==
    ~IsPrefix(Listing(now, iterator.operation.on, iterator.query),
              Listing(after, iterator.operation.on, iterator.query))
-------------------------------------------------------------------------------
(* What the adapters make of their arguments.                              *)

\* The id of changeset 0 is blank.
ToChangesetIdOrIndex(changeset) ==
    IF changeset.number = 0 THEN [changesetIndex |-> 0]
    ELSE IF changeset.form = "index" THEN [changesetIndex |-> changeset.number]
    ELSE [changesetId |-> changeset.number]

\* a range without an end goes to the latest changeset
ToChangesetRangeUrlParams(range) ==
    [lastIndex |-> range.end,
     afterIndex |-> IF range.first = 0 THEN <<0>> ELSE <<range.first - 1>>]

ByChangesetIndex == [top |-> <<1>>, orderBy |-> <<"desc">>]

\* A fixed token is the one in use when the call is made; 0 is a callback that gets one.
Callers(headers) == [headers : headers, token : {0, expired + 1}]
-------------------------------------------------------------------------------
(* Right answers to questions; <<>> is that there is none.                 *)

LatestOf(changesets) == CHOOSE c \in changesets : \A d \in changesets : d <= c

RightAnswer(now, question) ==
    LET pushed == There(now, "changeset")
        versions == There(now, "namedVersion")
        On(v) == <<now.madeOn[v]>>
    IN  CASE question.ask = "first" -> <<0>>
          [] question.ask = "latest" -> IF pushed = {} THEN <<0>> ELSE <<LatestOf(pushed)>>
          [] question.ask = "changeset" ->
                 IF question.changeset.number \in pushed \union {0} THEN <<question.changeset.number>> ELSE <<>>
          [] question.ask = "latestNamedVersion" ->
                 IF versions = {} THEN <<>>
                 ELSE On(CHOOSE v \in versions : \A w \in versions : now.madeOn[w] <= now.madeOn[v])
          [] question.ask = "namedVersion" ->
                 IF \A v \in versions : now.names["namedVersion"][v] # question.name THEN <<>>
                 ELSE On(CHOOSE v \in versions : now.names["namedVersion"][v] = question.name)
          [] question.ask = "iModel" ->
                 IF \A n \in There(now, "iModel") : now.names["iModel"][n] # question.name THEN <<>>
                 ELSE <<CHOOSE n \in There(now, "iModel") : now.names["iModel"][n] = question.name>>
          [] question.ask = "range" ->
                 LET within == {c \in pushed : c >= question.range.first
                                   /\ (question.range.end # <<>> => c <= question.range.end[1])}
                 IN  InOrder(within, Less(within))

Asked(c) == c.what = "question"
-------------------------------------------------------------------------------
Init == /\ content = Initial /\ expired = 0 /\ changes = 0 /\ calls = 0
        /\ step = "idle" /\ call = NoCall /\ request = NoRequest
        /\ iterator = NoIterator
        /\ hand = NoHand /\ outcome = NoOutcome
        /\ history = [right |-> {}, disturbed |-> FALSE]

\* What others do, and the effect of what the caller sends.
Becomes(after) ==
    /\ changes < MaxChanges \/ after = content
    /\ changes' = IF after = content THEN changes ELSE changes + 1
    /\ content' = after
    /\ history' = [right |-> IF Asked(call) THEN history.right \union {RightAnswer(after, call.wanted)}
                             ELSE history.right,
                   disturbed |-> history.disturbed \/ Disturbed(content, after)]

OthersChange == \E operation \in OthersDo : \E effect \in Effects(content, operation) :
    /\ Becomes(effect[1])
    /\ UNCHANGED <<expired, calls, step, call, request, iterator, hand, outcome>>

TokenExpires == /\ expired < MaxExpired
                /\ expired' = expired + 1
                /\ UNCHANGED <<content, changes, calls, step, call, request, iterator, hand, outcome, history>>
-------------------------------------------------------------------------------
(* Requests.                                                               *)

\* The url is ready; the headers wait for the authorization callback.
Ask(operation, url, query, skip) ==
    /\ step' = "authorizing"
    /\ request' = [request EXCEPT !.operation = operation, !.url = url, !.query = query, !.skip = skip]

AskForPage(it, skip) == Ask(it.operation, ListUrl(it.operation.on), it.query, skip)

Return(c, came, got) ==
    /\ step' = "idle"
    /\ call' = NoCall
    /\ request' = NoRequest
    /\ outcome' = [came |-> came, of |-> c.what, got |-> got, wanted |-> c.wanted]

\* a generator that throws is finished
Fail(came) ==
    /\ Return(call, came, <<>>)
    /\ iterator' = IF request.operation.verb = "list" THEN [iterator EXCEPT !.next = {}, !.failed = TRUE]
                   ELSE iterator
    /\ UNCHANGED <<expired, calls, hand>>

Token(caller) == IF caller.token = 0 THEN expired + 1 ELSE caller.token

AuthorizedDefect ==
    /\ step = "authorizing"
    /\ step' = "sent"
    /\ request' = IF request.headers # <<>> THEN [request EXCEPT !.formedAt = expired]
                  ELSE [request EXCEPT !.formedAt = expired,
                            !.headers = FormHeaders(request.operation, Token(call.caller), call.caller.headers)]
    /\ UNCHANGED <<service, calls, call, iterator, hand, outcome, history>>

\* Every request asks the callback, the pages of a list too.
Authorized ==
    /\ step = "authorizing"
    /\ step' = "sent"
    /\ request' = [request EXCEPT !.formedAt = expired,
                       !.headers = FormHeaders(request.operation, Token(call.caller), call.caller.headers)]
    /\ UNCHANGED <<service, calls, call, iterator, hand, outcome, history>>

\* The callback throws, or what it returns is no token.
AuthorizationFails == /\ step = "authorizing"
                      /\ Fail("failed")
                      /\ UNCHANGED <<content, changes, history>>

TokenRefused == request.headers.authorization[1] <= expired

UnauthorizedDefect ==
    /\ step = "sent" /\ TokenRefused
    /\ step' = "authorizing"
    /\ UNCHANGED <<service, calls, call, request, iterator, hand, outcome, history>>

Unauthorized == /\ step = "sent" /\ TokenRefused
                /\ Fail("unauthorized")
                /\ UNCHANGED <<content, changes, history>>

\* Any other error, or no answer though what was sent may have been done.
RequestFails ==
    /\ step = "sent"
    /\ Fail("failed")
    /\ \/ UNCHANGED <<content, changes, history>>
       \/ /\ request.operation \in SendOperations /\ ~TokenRefused
          /\ \E effect \in Effects(content, request.operation) : Becomes(effect[1])
-------------------------------------------------------------------------------
(* Lists.                                                                  *)

NewIterator(operation, params, caller) ==
    [operation |-> operation, query |-> FormQueryString(params), caller |-> caller,
     next |-> {0}, buffer |-> <<>>, fetched |-> <<>>, given |-> <<>>, byPage |-> FALSE,
     failed |-> FALSE,
     atLeast |-> Len(Listing(content, operation.on, FormQueryString(params)))]

\* The count is compared when an entity has been taken, so a want of 0 is never met.
Enough(c) == c.want # 0 /\ Len(c.got) = c.want

\* how many entities of a page for await takes
Taken(c, it) == IF c.want = 0 \/ Len(it.buffer) <= c.want - Len(c.got) THEN Len(it.buffer)
                ELSE c.want - Len(c.got)

RestDefect(it, n) == <<>>

\* What is left of the page stays with the generator: breaking out does not close it.
Rest(it, n) == SubSeq(it.buffer, n + 1, Len(it.buffer))

ContinueAtDefect(it, page) == {skip + 1 : skip \in page.next}

\* what the page says, and nothing of the client's own
ContinueAt(it, page) == page.next

\* The named version's changeset, if it is not the baseline.
NamedChangeset(c) ==
    IF c.got = <<>> \/ content.madeOn[c.got[1]] = 0 THEN <<>> ELSE <<content.madeOn[c.got[1]]>>

NeedsChangeset(c) ==
    Asked(c) /\ c.wanted.ask = "namedVersion" /\ c.wanted.side = "backend" /\ NamedChangeset(c) # <<>>

AnswerFromList(c) ==
    CASE c.wanted.ask = "latest" -> IF c.got = <<>> THEN <<0>> ELSE <<c.got[1]>>
      [] c.wanted.ask \in {"namedVersion", "latestNamedVersion"} -> NamedChangeset(c)
      [] c.wanted.ask = "iModel" -> IF c.got = <<>> THEN <<>> ELSE <<c.got[1]>>
      [] c.wanted.ask = "range" -> c.got

\* toArray or take has what it wants, and the call goes on.
ListRead(c, it) ==
    /\ iterator' = [it EXCEPT !.given = @ \o c.got]
    /\ \/ /\ NeedsChangeset(c)
          /\ call' = [c EXCEPT !.got = NamedChangeset(c)]
          /\ Ask(ChangesetGetSingle, EntityUrl("changeset", Part(NamedChangeset(c)[1])), <<>>, 0)
          /\ outcome' = NoOutcome
       \/ /\ ~NeedsChangeset(c)
          /\ Return(c, "returned", IF Asked(c) THEN AnswerFromList(c) ELSE c.got)

\* for await, from the entities at hand to the end or to the next request
ForAwait(c, it) ==
    LET n == Taken(c, it)
        after == [c EXCEPT !.got = @ \o SubSeq(it.buffer, 1, n)]
        left == [it EXCEPT !.buffer = Rest(it, n)]
    IN  \/ /\ Enough(after) \/ left.next = {}
           /\ ListRead(after, left)
        \/ /\ ~Enough(after)
           /\ \E skip \in left.next : AskForPage(left, skip)
           /\ iterator' = left /\ call' = after
           /\ outcome' = NoOutcome

Begin == /\ step = "idle" /\ calls < MaxCalls
         /\ calls' = calls + 1
         /\ UNCHANGED service

\* Turning to something else the caller leaves the list and the entity it had.
LeaveList == iterator' = NoIterator
LeaveEntity == hand' = NoHand

\* ...List of an operations class: no request yet.
GetList ==
    \E list \in Lists, caller \in Callers(Headers) :
        /\ step = "idle" /\ calls < MaxCalls
        /\ iterator' = NewIterator(list.operation, list.params, caller)
        /\ outcome' = NoOutcome
        /\ history' = [history EXCEPT !.disturbed = FALSE]
        /\ LeaveEntity
        /\ UNCHANGED <<service, calls, step, call, request>>

NewCall(what, want, wanted, caller) ==
    [what |-> what, want |-> want, got |-> <<>>, wanted |-> wanted, caller |-> caller]

\* take(iterator, want); what it does for a want of 0 is what toArray(iterator) does
Take(want) ==
    /\ Begin
    /\ ForAwait(NewCall("take", want, <<want>>, iterator.caller), iterator)
    /\ UNCHANGED <<hand, history>>

\* byPage().next(): the pages flatten has not asked for yet
NextPage ==
    /\ Begin
    /\ LET c == NewCall("page", 0, <<>>, iterator.caller)
       IN  \/ /\ iterator.next = {}
              /\ Return(c, "returned", <<>>)
              /\ UNCHANGED iterator
           \/ /\ \E skip \in iterator.next : AskForPage(iterator, skip)
              /\ call' = c
              /\ iterator' = [iterator EXCEPT !.byPage = TRUE]
              /\ outcome' = NoOutcome
    /\ UNCHANGED <<hand, history>>

\* An entity with attached functions, the links as they are in the answer.
Holding(now, operation, n) ==
    [operation |-> operation, caller |-> call.caller,
     linked |-> [f \in operation.attached |->
                    IF AttachedFunction[f].link \in LinksOf(operation.on, operation.prefer)
                    THEN Linked(now, operation.on, n, AttachedFunction[f].link) ELSE {}]]

Hold(now, operation, ns) ==
    IF operation.attached = {} \/ ns = {} THEN UNCHANGED hand
    ELSE \E n \in ns : hand' = Holding(now, operation, n)

\* the link that must be there, or attaching the functions throws
LinksAsserted(operation, ns) ==
    "getCheckpoint" \in operation.attached =>
        \A n \in ns : Linked(content, operation.on, n, "checkpoint") # {}

PageAnswered ==
    /\ step = "sent" /\ request.operation.verb = "list" /\ ~TokenRefused
    /\ LET page == PageOf(content, request.operation.on, request.query, request.skip)
           it == [iterator EXCEPT !.next = ContinueAt(iterator, page), !.fetched = @ \o page.entities]
       IN  /\ LinksAsserted(request.operation, ToSet(page.entities))
           /\ Hold(content, request.operation, ToSet(page.entities))
           /\ \/ /\ call.what = "page"
                 /\ iterator' = [it EXCEPT !.given = @ \o page.entities]
                 /\ Return(call, "returned", page.entities)
              \/ /\ call.what # "page"
                 /\ ForAwait(call, [it EXCEPT !.buffer = page.entities])
    /\ UNCHANGED <<service, calls, history>>
-------------------------------------------------------------------------------
(* Single requests.                                                        *)

GetParams(operation) ==
    CASE operation.on = "changeset" ->
             [changesetId : Ids] \union [changesetIndex : 0..MaxId]
      [] operation.on = "checkpoint" ->
             [changesetId : Ids] \union [changesetIndex : 0..MaxId]
                 \union [namedVersionId : There(content, "namedVersion")] \union {<<>>}
      [] OTHER -> [id : Ids]

GetUrl(operation, params) ==
    CASE operation.on = "changeset" -> EntityUrl("changeset", ChangesetPart(params))
      [] operation.on = "checkpoint" -> CheckpointUrl(params)
      [] OTHER -> EntityUrl(operation.on, Part(params.id))

\* The entity that parameters stand for; without any it is the latest checkpoint.
NamedBy(operation, params) ==
    IF params = <<>> THEN <<>>
    ELSE <<operation.on, CASE "changesetId" \in DOMAIN params -> params.changesetId
                           [] "changesetIndex" \in DOMAIN params -> params.changesetIndex
                           [] "namedVersionId" \in DOMAIN params -> content.madeOn[params.namedVersionId]
                           [] OTHER -> params.id>>

GetSingle(operation) == \E params \in GetParams(operation), caller \in Callers(Headers) :
    /\ Begin
    /\ call' = NewCall("get", 0, NamedBy(operation, params), caller)
    /\ Ask(operation, GetUrl(operation, params), <<>>, 0)
    /\ LeaveList /\ LeaveEntity
    /\ outcome' = NoOutcome
    /\ UNCHANGED history

\* A function attached to an entity: it asks with what the entity was asked for with.
Follow(f) ==
    /\ Begin
    /\ \/ /\ hand.linked[f] = {}
          /\ Return(NewCall("follow", 0, <<>>, hand.caller), "undefined", <<>>)
       \/ /\ \E entity \in hand.linked[f] : \E link \in Links(entity) :
                /\ call' = NewCall("follow", 0, entity, hand.caller)
                /\ Ask(AttachedFunction[f].operation, UrlOfLink(f, link), <<>>, 0)
          /\ outcome' = NoOutcome
    /\ UNCHANGED <<iterator, hand, history>>

\* What the caller sends is told by what the service makes of it.
SendRequest(operation) == \E caller \in Callers(Headers) :
    /\ Begin
    /\ call' = NewCall("send", 0, <<>>, caller)
    /\ Ask(operation, EntityUrl(operation.on, Part(1)), <<>>, 0)
    /\ LeaveEntity
    /\ outcome' = NoOutcome
    /\ UNCHANGED <<iterator, history>>

SingleAnswered ==
    /\ step = "sent" /\ request.operation.verb = "get" /\ ~TokenRefused
    /\ LET found == Found(content, request.url)
       IN  \/ /\ found = {}
              /\ Fail("notFound")
              /\ UNCHANGED <<content, changes>>
           \/ /\ \E entity \in found :
                    /\ LinksAsserted(request.operation, {entity[2]})
                    /\ Hold(content, request.operation, {entity[2]})
                    /\ Return(call, "returned", IF Asked(call) THEN <<entity[2]>> ELSE entity)
              /\ UNCHANGED <<service, calls, iterator>>
    /\ UNCHANGED history

SendAnswered ==
    /\ step = "sent" /\ request.operation \in SendOperations /\ ~TokenRefused
    /\ \E effect \in Effects(content, request.operation) :
          /\ Becomes(effect[1])
          /\ Hold(effect[1], request.operation, {effect[2]})
          /\ Return(call, "returned", IF Returns(request.operation) THEN <<request.operation.on, effect[2]>>
                                      ELSE <<>>)
    /\ UNCHANGED <<expired, calls, iterator>>
-------------------------------------------------------------------------------
(* Questions to the adapters.                                              *)

Question(q) ==
    /\ Begin /\ LeaveEntity
    /\ history' = [right |-> {RightAnswer(content, q)}, disturbed |-> FALSE]

AskList(q, operation, params, want) == \E caller \in Callers({<<>>}) :
    /\ Question(q)
    /\ call' = NewCall("question", want, q, caller)
    /\ iterator' = NewIterator(operation, params, caller)
    /\ Ask(operation, ListUrl(operation.on), FormQueryString(params), 0)
    /\ outcome' = NoOutcome

AskChangeset(q, params) == \E caller \in Callers({<<>>}) :
    /\ Question(q)
    /\ call' = NewCall("question", 0, q, caller)
    /\ Ask(ChangesetGetSingle, EntityUrl("changeset", ChangesetPart(params)), <<>>, 0)
    /\ LeaveList
    /\ outcome' = NoOutcome

\* The backend needs all of the changeset.
LatestChangesetList(side) ==
    IF side = "backend" THEN ChangesetGetRepresentationList ELSE ChangesetGetMinimalList

GetLatestChangesetDefect(q) == AskList(q, LatestChangesetList(q.side), [top |-> <<1>>], 1)

\* take(iterator, 1)
GetLatestChangeset(q) == AskList(q, LatestChangesetList(q.side), ByChangesetIndex, 1)

GetNamedVersionChangeset(q) == AskList(q, NamedVersionGetMinimalList, [name |-> q.name], 0)

\* the frontend's, without a name
GetChangesetFromLatestNamedVersion(q) == AskList(q, NamedVersionGetMinimalList, ByChangesetIndex, 1)

QueryIModelByName(q) == AskList(q, IModelGetMinimalList, [name |-> q.name], 0)

QueryChangesets(q) ==
    AskList(q, ChangesetGetRepresentationList, ToChangesetRangeUrlParams(q.range), 0)

QueryChangeset(q) == AskChangeset(q, ToChangesetIdOrIndex(q.changeset))

\* the frontend's
GetChangesetFromId(q) == AskChangeset(q, [changesetId |-> q.changeset.number])

\* The first version is changeset 0, without a request; others are asked for as above.
GetFirstVersion(q) ==
    /\ Question(q)
    /\ Return(NewCall("question", 0, q, Nobody), "returned", <<0>>)
    /\ LeaveList

GetChangesetFromVersion(q) ==
    \/ q.ask = "first" /\ GetFirstVersion(q)
    \/ q.ask = "changeset" /\ q.side = "backend" /\ QueryChangeset(q)
    \/ q.ask = "changeset" /\ q.side = "frontend" /\ GetChangesetFromId(q)
    \/ q.ask = "namedVersion" /\ GetNamedVersionChangeset(q)
    \/ q.ask = "latest" /\ GetLatestChangeset(q)
-------------------------------------------------------------------------------
Call == \/ GetList \/ NextPage
        \/ \E want \in Counts : Take(want)
        \/ \E operation \in Gets : GetSingle(operation)
        \/ \E operation \in Sends : SendRequest(operation)
        \/ \E f \in DOMAIN hand.linked : Follow(f)
        \/ \E q \in Questions : \/ GetChangesetFromVersion(q)
                                \/ q.ask = "latestNamedVersion" /\ GetChangesetFromLatestNamedVersion(q)
                                \/ q.ask = "iModel" /\ QueryIModelByName(q)
                                \/ q.ask = "range" /\ QueryChangesets(q)

Proceed == \/ Authorized \/ AuthorizationFails \/ Unauthorized \/ RequestFails
           \/ PageAnswered \/ SingleAnswered \/ SendAnswered

Next == Call \/ Proceed \/ OthersChange \/ TokenExpires

Spec == Init /\ [][Next]_vars

\* Every await of a call ends.
FairSpec == Spec /\ WF_vars(Proceed)
-------------------------------------------------------------------------------
Entities == Types \X (0..MaxId)
AnyList == Seq(0..MaxId)

AnyCaller == [headers : Headers \union {<<>>}, token : Nat]
AnyUrl == [under : Types \union {"changesets", "namedVersions", "briefcases"},
           part : [form : {"none", "index", "id"}, number : Nat]]
AnyQuery == {FormQueryString(params) :
                params \in {<<>>, ByChangesetIndex} \union {list.params : list \in Lists}
                          \union {[name |-> q.name] : q \in Questions}
                          \union {ToChangesetRangeUrlParams(q.range) : q \in Questions}}
AnyWanted == {<<>>} \union {<<want>> : want \in Counts} \union Entities \union Questions
AnyWhat == {"none", "take", "page", "get", "follow", "send", "question"}

AnyHeaders == {FormHeaders(operation, caller.token, caller.headers) :
                   operation \in Operations, caller \in AnyCaller}

AnyCall == [what : AnyWhat, want : Nat, got : Seq(Ids), wanted : AnyWanted, caller : AnyCaller]
AnyRequest == [operation : Operations, url : AnyUrl, query : AnyQuery, skip : Nat,
               headers : {<<>>} \union AnyHeaders, formedAt : 0..MaxExpired]
AnyIterator == [operation : ListOperations, query : AnyQuery, caller : AnyCaller,
                next : SUBSET Nat, buffer : Seq(Ids), fetched : Seq(Ids), given : Seq(Ids),
                byPage : BOOLEAN, failed : BOOLEAN, atLeast : Nat]
AnyHand == [operation : Operations, caller : AnyCaller,
            linked : UNION {[names -> SUBSET Entities] : names \in SUBSET DOMAIN AttachedFunction}]
AnyOutcome == [came : {"nothing", "returned", "undefined", "notFound", "unauthorized", "failed"},
               of : AnyWhat, got : AnyList \union Entities, wanted : AnyWanted]

\* Every variable has its type.
TypeOK ==
    /\ content \in Contents
    /\ expired \in 0..MaxExpired /\ changes \in 0..MaxChanges /\ calls \in 0..MaxCalls
    /\ step \in {"idle", "authorizing", "sent"}
    /\ call \in AnyCall /\ request \in AnyRequest /\ iterator \in AnyIterator /\ hand \in AnyHand
    /\ outcome \in AnyOutcome
    /\ history \in [right : SUBSET AnyList, disturbed : BOOLEAN]

\* As long as a list changes at its end only, what was read of it, in however many pages,
\* is how it begins, nothing left out and nothing twice; when it has been read to the end
\* all that was there when it was asked for is among it.
ListsAreWhole ==
    ~history.disturbed =>
        /\ IsPrefix(iterator.fetched, Listing(content, iterator.operation.on, iterator.query))
        /\ iterator.next = {} /\ ~iterator.failed => Len(iterator.fetched) >= iterator.atLeast

Times(n, list) == Cardinality({i \in DOMAIN list : list[i] = n})

InProgress == IF call.what \in {"take", "question"} THEN call.got ELSE <<>>

\* Whether entities are taken by count, all at once or by page, and from however many
\* iterations that were broken off, each that was read is handed out once or still to come,
\* in order unless pages were taken in between.  Nobody gets less than asked for before the
\* end, nor ever more; a count of 0 alone is never met, and takes all there is.  None of it
\* holds once a page has failed: what had been taken is lost.
TakesContinue ==
    ~iterator.failed /\ (step # "idle" => call.what # "question" \/ request.operation.verb = "list") =>
        /\ \A n \in 0..MaxId : Times(n, iterator.given) + Times(n, InProgress) + Times(n, iterator.buffer)
                                = Times(n, iterator.fetched)
        /\ ~iterator.byPage => iterator.given \o InProgress \o iterator.buffer = iterator.fetched
        /\ outcome.of = "take" /\ outcome.came = "returned" /\ step = "idle" =>
               /\ \/ Len(outcome.got) = outcome.wanted[1]
                  \/ iterator.next = {} /\ iterator.buffer = <<>>
               /\ outcome.wanted[1] # 0 => Len(outcome.got) <= outcome.wanted[1]

\* as a caller gave it
Carries(headers, name, value) ==
    IF value = <<>> THEN name \notin DOMAIN headers
    ELSE name \in DOMAIN headers /\ headers[name] = value

\* Every request, of a later page and of an attached function too, has the headers of the
\* call that it is for and a token that was good when it was formed, unless the caller
\* insisted on one of its own.
RequestsSpeakForCaller ==
    step = "sent" =>
        /\ call.caller.token = 0 => request.headers.authorization[1] > request.formedAt
        /\ call.caller.token # 0 => request.headers.authorization[1] = call.caller.token
        /\ request.headers.authorization[1] <= expired =>
               call.caller.token # 0 \/ expired > request.formedAt
        /\ \A name \in DOMAIN call.caller.headers :
               Carries(request.headers, name, call.caller.headers[name])
        /\ \A name \in DOMAIN ClientHeaders \ DOMAIN call.caller.headers :
               Carries(request.headers, name, ClientHeaders[name])

\* A function attached to an entity returns what the entity's link stood for in the answer
\* it came with, and finds it; an operation returns the entity its parameters name, if they
\* name one.
NamedIsReturned ==
    outcome.of \in {"follow", "get"} =>
        /\ outcome.came = "returned" /\ outcome.wanted # <<>> => outcome.got = outcome.wanted
        /\ outcome.came = "notFound" => outcome.of = "get"

\* What the adapters make of a right answer: no named version is on the baseline.
Reported(question, right) ==
    IF question.ask \in {"namedVersion", "latestNamedVersion"} /\ right = <<0>> THEN <<>> ELSE right

\* What a question about versions, changesets and iModels by name is answered with was
\* right at some time between the question and the answer, over however many requests and
\* pages.  Two exceptions: a name that has a "&" is not asked about, as the service gets what
\* is before it, and of a named version on the baseline it is said that there is none.
ResolvedWithinCall ==
    outcome.of = "question" /\ step = "idle" /\ Len(outcome.wanted.name) = 1 =>
        /\ outcome.came = "returned" =>
               outcome.got \in {Reported(outcome.wanted, right) : right \in history.right}
        /\ outcome.came = "notFound" => <<>> \in history.right

\* Every call ends.
CallsSettle == step # "idle" ~> step = "idle"
===============================================================================
