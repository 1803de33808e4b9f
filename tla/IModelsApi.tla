------------------------------- MODULE IModelsApi -------------------------------
(***************************************************************************)
(* What the clients ask of the iModels service: one record per operation   *)
(* of the management and the authoring client, the urls and headers a      *)
(* request is sent with, and the functions attached to what is returned.   *)
(* Operations that take several requests are modelled in modules of their  *)
(* own: creation of iModels, changesets' files, locks and briefcases.      *)
(*                                                                         *)
(* A text that goes into a url is the sequence of its parts between "&"    *)
(* signs, so <<>> is a blank one.  A number has a single part.             *)
(***************************************************************************)
EXTENDS Naturals, Sequences

CONSTANTS DigitIds,      \* changesets whose id has digits only
          ClientHeaders  \* given to the constructor of the client

\* "list" is a GET that is answered in pages
Operation(verb, on, prefer, attached) ==
    [verb |-> verb, on |-> on, prefer |-> prefer, attached |-> attached]

MinimalList(on) == Operation("list", on, "minimal", {})
FullList(on, attached) == Operation("list", on, "representation", attached)
PlainList(on, attached) == Operation("list", on, "none", attached)
Get(on, attached) == Operation("get", on, "none", attached)
Send(verb, on, attached) == Operation(verb, on, "none", attached)
-------------------------------------------------------------------------------
(* Functions that are attached to an entity, by appendRelatedEntityCallbacks. *)

IModelCallbacks == {"getCreator"}
BriefcaseCallbacks == {"getOwner", "getCheckpoint"}
MinimalChangesetCallbacks == {"getCreator"}
ChangesetCallbacks ==
    MinimalChangesetCallbacks \union {"getNamedVersion", "getCurrentOrPrecedingCheckpoint"}
NamedVersionCallbacks == {"getCreator", "getChangeset"}
ChangesetGroupCallbacks == {"getCreator"}
-------------------------------------------------------------------------------
(* The operations.                                                         *)

IModelGetMinimalList == MinimalList("iModel")
IModelGetRepresentationList == FullList("iModel", IModelCallbacks)
IModelGetSingle == Get("iModel", IModelCallbacks)
IModelUpdate == Send("patch", "iModel", IModelCallbacks)
IModelDelete == Send("delete", "iModel", {})

FavoriteGetMinimalList == MinimalList("favorite")
FavoriteGetRepresentationList == FullList("favorite", {})
FavoriteAdd == Send("put", "favorite", {})
FavoriteRemove == Send("delete", "favorite", {})

RecentGetMinimalList == MinimalList("recent")
RecentGetRepresentationList == FullList("recent", {})
RecentAdd == Send("post", "recent", {})
RecentRemove == Send("delete", "recent", {})

BriefcaseGetMinimalList == MinimalList("briefcase")
BriefcaseGetRepresentationList == FullList("briefcase", BriefcaseCallbacks)
BriefcaseGetSingle == Get("briefcase", BriefcaseCallbacks)

ChangesetGetMinimalList == [MinimalList("changeset") EXCEPT !.attached = MinimalChangesetCallbacks]
ChangesetGetRepresentationList == FullList("changeset", ChangesetCallbacks)
ChangesetGetSingle == Get("changeset", ChangesetCallbacks)

ChangesetGroupGetList == PlainList("changesetGroup", ChangesetGroupCallbacks)
ChangesetGroupGetSingle == Get("changesetGroup", ChangesetGroupCallbacks)
ChangesetGroupCreate == Send("post", "changesetGroup", ChangesetGroupCallbacks)
ChangesetGroupUpdate == Send("patch", "changesetGroup", ChangesetGroupCallbacks)

ExtendedDataGetList == PlainList("extendedData", {})
ExtendedDataGetSingle == Get("extendedData", {})
ExtendedDataCreate == Send("post", "extendedData", {})

NamedVersionGetMinimalList == MinimalList("namedVersion")
NamedVersionGetRepresentationList == FullList("namedVersion", NamedVersionCallbacks)
NamedVersionGetSingle == Get("namedVersion", NamedVersionCallbacks)
NamedVersionCreate == Send("post", "namedVersion", NamedVersionCallbacks)
NamedVersionUpdate == Send("patch", "namedVersion", NamedVersionCallbacks)

CheckpointGetSingle == Get("checkpoint", {})
CheckpointUpdate == Send("put", "checkpoint", {})

UserGetMinimalList == MinimalList("user")
UserGetRepresentationList == FullList("user", {})
UserGetSingle == Get("user", {})
UserPermissionGet == Get("permission", {})

ThumbnailDownload == Get("thumbnail", {})
ThumbnailUpload == Send("put", "thumbnail", {})

LockGetReleasedLockList == PlainList("releasedLock", {})

ListOperations ==
    {IModelGetMinimalList, IModelGetRepresentationList,
     FavoriteGetMinimalList, FavoriteGetRepresentationList,
     RecentGetMinimalList, RecentGetRepresentationList,
     BriefcaseGetMinimalList, BriefcaseGetRepresentationList,
     ChangesetGetMinimalList, ChangesetGetRepresentationList,
     ChangesetGroupGetList, ExtendedDataGetList,
     NamedVersionGetMinimalList, NamedVersionGetRepresentationList,
     UserGetMinimalList, UserGetRepresentationList, LockGetReleasedLockList}

GetOperations ==
    {IModelGetSingle, BriefcaseGetSingle, ChangesetGetSingle, ChangesetGroupGetSingle,
     ExtendedDataGetSingle, NamedVersionGetSingle, CheckpointGetSingle, UserGetSingle,
     UserPermissionGet, ThumbnailDownload}

SendOperations ==
    {IModelUpdate, IModelDelete, FavoriteAdd, FavoriteRemove, RecentAdd, RecentRemove,
     ChangesetGroupCreate, ChangesetGroupUpdate, ExtendedDataCreate,
     NamedVersionCreate, NamedVersionUpdate, CheckpointUpdate, ThumbnailUpload}

\* delete, and put but for a checkpoint, return nothing
Returns(operation) ==
    operation.verb # "delete" /\ (operation.verb = "put" => operation = CheckpointUpdate)
                              /\ operation # RecentAdd
-------------------------------------------------------------------------------
(* Links of entities, by type; and what an attached function does with one. *)

IModelLinks == {"creator"}
BriefcaseLinks == {"owner", "checkpoint"}
MinimalChangesetLinks == {"creator"}
ChangesetLinks == MinimalChangesetLinks \union {"namedVersion", "currentOrPrecedingCheckpoint"}
NamedVersionLinks == {"creator", "changeset"}
ChangesetGroupLinks == {"creator"}

LinksOf(on, prefer) ==
    CASE on = "changeset" -> IF prefer = "minimal" THEN MinimalChangesetLinks ELSE ChangesetLinks
      [] on # "changeset" /\ prefer = "minimal" -> {}
      [] on \in {"iModel", "favorite", "recent"} /\ prefer # "minimal" -> IModelLinks
      [] on = "briefcase" /\ prefer # "minimal" -> BriefcaseLinks
      [] on = "namedVersion" /\ prefer # "minimal" -> NamedVersionLinks
      [] on = "changesetGroup" -> ChangesetGroupLinks
      [] OTHER -> {}

\* An attached function: the link it follows, and the operation that does.
GetCreator == [link |-> "creator", operation |-> UserGetSingle]
GetOwner == [link |-> "owner", operation |-> UserGetSingle]
GetChangeset == [link |-> "changeset", operation |-> ChangesetGetSingle]
GetNamedVersion == [link |-> "namedVersion", operation |-> NamedVersionGetSingle]
GetCheckpoint == [link |-> "checkpoint", operation |-> CheckpointGetSingle]
GetCurrentOrPrecedingCheckpoint ==
    [link |-> "currentOrPrecedingCheckpoint", operation |-> CheckpointGetSingle]

AttachedFunction ==
    [getCreator |-> GetCreator, getOwner |-> GetOwner, getChangeset |-> GetChangeset,
     getNamedVersion |-> GetNamedVersion, getCheckpoint |-> GetCheckpoint,
     getCurrentOrPrecedingCheckpoint |-> GetCurrentOrPrecedingCheckpoint]
-------------------------------------------------------------------------------
(* Urls.  The last part of one is an index or an id; both name by number.  *)

OnlyDigits(part) == part.form = "index" \/ part.number \in DigitIds

\* Digits only, and fewer than 40 of them.
ParseChangesetIdOrIndex(part) ==
    IF OnlyDigits(part) /\ part.form = "index"
    THEN [changesetIndex |-> part.number]
    ELSE [changesetId |-> part.number]

ChangesetPart(params) ==
    IF "changesetId" \in DOMAIN params THEN [form |-> "id", number |-> params.changesetId]
    ELSE [form |-> "index", number |-> params.changesetIndex]

CheckpointUrlDefect(params) ==
    IF "namedVersionId" \in DOMAIN params
    THEN [under |-> "namedVersions", part |-> [form |-> "id", number |-> params.namedVersionId]]
    ELSE IF "changesetId" \in DOMAIN params \/ (params # <<>> /\ params.changesetIndex # 0)
    THEN [under |-> "changesets", part |-> ChangesetPart(params)]
    ELSE [under |-> "briefcases", part |-> [form |-> "id", number |-> 0]]

\* The checkpoint of a named version, of a changeset, or the latest one.
CheckpointUrl(params) ==
    IF "namedVersionId" \in DOMAIN params
    THEN [under |-> "namedVersions", part |-> [form |-> "id", number |-> params.namedVersionId]]
    ELSE IF {"changesetId", "changesetIndex"} \intersect DOMAIN params # {}
    THEN [under |-> "changesets", part |-> ChangesetPart(params)]
    ELSE [under |-> "briefcases", part |-> [form |-> "id", number |-> 0]]

EntityUrl(on, part) == [under |-> on, part |-> part]

ListUrl(on) == [under |-> on, part |-> [form |-> "none", number |-> 0]]

Part(number) == [form |-> "id", number |-> number]

\* What a link is followed to; that of a briefcase's checkpoint as it is.
UrlOfLink(callback, link) ==
    CASE callback = "getChangeset" ->
             EntityUrl("changeset", ChangesetPart(ParseChangesetIdOrIndex(link.part)))
      [] callback = "getCurrentOrPrecedingCheckpoint" ->
             CheckpointUrl(ParseChangesetIdOrIndex(link.part))
      [] callback = "getCheckpoint" -> [under |-> "changesets", part |-> link.part]
      [] OTHER -> EntityUrl(link.on, link.part)

\* What the service receives: blank values are left out, and nothing is escaped, so the
\* value ends at its first "&".
FormQueryString(params) ==
    [key \in {key \in DOMAIN params : params[key] # <<>>} |-> params[key][1]]
-------------------------------------------------------------------------------
(* Headers: <<>> is a factory that returns nothing.                        *)

AddOrUpdateHeaders(existing, additional) ==
    LET given == {name \in DOMAIN additional : additional[name] # <<>>}
    IN  [name \in given \union (DOMAIN existing \ DOMAIN additional) |->
            IF name \in given THEN additional[name] ELSE existing[name]]

\* a body is JSON, but for that of a put
ContentType(operation) ==
    CASE operation.verb \in {"post", "patch"} -> "json"
      [] operation = ThumbnailUpload -> "image"
      [] OTHER -> "none"

FormHeaders(operation, token, headers) ==
    LET own == [name \in {"authorization"}
                    \union {name \in {"prefer"} : operation.prefer # "none"}
                    \union {name \in {"contentType"} : ContentType(operation) # "none"} |->
                       CASE name = "authorization" -> <<token>>
                         [] name = "prefer" -> <<operation.prefer>>
                         [] name = "contentType" -> <<ContentType(operation)>>]
    IN  AddOrUpdateHeaders(AddOrUpdateHeaders(own, ClientHeaders), headers)
===============================================================================
