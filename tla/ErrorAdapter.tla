------------------------------ MODULE ErrorAdapter ------------------------------
(***************************************************************************)
(* The codes of the errors the service answers with, as IModelsErrorParser *)
(* reads them and as ErrorAdapter turns them into those of the platform.   *)
(* A member of the enumeration is named by its key, as parseCode does.     *)
(* Definitions called ...Defect are mistakes the properties must catch.    *)
(***************************************************************************)

AuthErrors == {"Unauthorized", "InsufficientPermissions"}

UsageErrors ==
    {"TooManyRequests", "RequestTooLarge", "InvalidValue", "InvalidHeaderValue",
     "InvalidRequestBody", "InvalidThumbnailFormat", "MutuallyExclusivePropertiesProvided",
     "MutuallyExclusiveParametersProvided", "MissingRequestBody", "MissingRequiredProperty",
     "MissingRequiredParameter", "MissingRequiredHeader", "InvalidChange", "DataConflict"}

ErrorsWithoutStatus ==
    {"NamedVersionNotFound", "UserNotFound", "ChangesetGroupNotFound", "BaselineFileNotFound",
     "BaselineFileInitializationFailed", "IModelFromTemplateInitializationFailed",
     "EmptyIModelInitializationFailed", "ClonedIModelInitializationFailed",
     "ChangesetDownloadFailed"}

\* mapErrorCode keeps these and makes Unknown of every other
KnownErrors ==
    {"Unknown", "ITwinNotFound", "IModelNotFound", "ChangesetNotFound", "BriefcaseNotFound",
     "FileNotFound", "CheckpointNotFound", "LockNotFound", "IModelExists", "VersionExists",
     "ChangesetExists", "NamedVersionOnChangesetExists", "NewerChangesExist",
     "BaselineFileInitializationTimedOut", "IModelFromTemplateInitializationTimedOut",
     "ClonedIModelInitializationTimedOut"}

OtherErrors ==
    {"AnotherUserPushing", "CannotAcquire", "ChangesetExtendedDataNotFound",
     "ConflictWithAnotherUser", "DownloadAborted", "DownloadCancelled",
     "IModelForkInitializationFailed", "IModelForkInitializationTimedOut",
     "InvalidIModelGCSCreationMode", "InvalidIModelsRequest", "LockOwnedByAnotherBriefcase",
     "MainIModelIsMissingFederationGuids", "MaximumNumberOfBriefcasesPerUser",
     "MaximumNumberOfBriefcasesPerUserPerMinute", "RateLimitExceeded",
     "ResourceQuotaExceeded", "StorageTypeNotSupported", "Unrecognized"}

IModelsErrorCodes == AuthErrors \union UsageErrors \union ErrorsWithoutStatus
                         \union KnownErrors \union OtherErrors

\* parseCode: the code of an answer by the keys of the enumeration; an answer
\* without a body, or no answer at all, has none
ParseCode(code) == IF code \in IModelsErrorCodes THEN code ELSE "Unrecognized"

\* tryMapGenericErrorCode: what a code means depends on what was asked for
SpecificCode(code, operation) ==
    CASE code = "RateLimitExceeded" /\ operation = "acquireBriefcase"
             -> {"MaximumNumberOfBriefcasesPerUserPerMinute"}
      [] code = "DownloadAborted" /\ operation = "downloadChangesets"
             -> {"DownloadCancelled"}
      [] code = "ConflictWithAnotherUser" /\ operation = "createChangeset"
             -> {"AnotherUserPushing"}
      [] code = "ConflictWithAnotherUser" /\ operation = "updateLocks"
             -> {"LockOwnedByAnotherBriefcase"}
      [] OTHER -> {}

\* what is thrown on as it is, an error without a code too
Passed == {"uncoded", "Unrecognized", "InvalidIModelsRequest"} \union AuthErrors \union UsageErrors
              \union ErrorsWithoutStatus

\* toITwinError, but for the details an InvalidIModelsRequest may carry.  A code of
\* another origin, such as one of the file system, becomes Unknown as well.
ToITwinError(code, operation) ==
    IF code \in Passed THEN code
    ELSE IF SpecificCode(code, operation) # {}
         THEN CHOOSE specific \in SpecificCode(code, operation) : TRUE
         ELSE IF code \in KnownErrors THEN code ELSE "Unknown"
===============================================================================
