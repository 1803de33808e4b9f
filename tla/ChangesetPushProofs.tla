--------------------------- MODULE ChangesetPushProofs ---------------------------
(***************************************************************************)
(* That pushing keeps its promises for any number of briefcases, calls and *)
(* retries, and comes to no more than PushLog says.                        *)
(***************************************************************************)
EXTENDS ChangesetPush, TLAPS

\* A changeset tells where in the history it belongs, and that is where it gets.
PlaceInv == /\ \A i \in 1..Len(log) : log[i].parent = i - 1
            /\ \A c \in waiting : c.parent = Len(log)

OwnerInv == \A p \in Pushers : changeset[p].pusher = p

\* What is confirmed, now or late, was uploaded.
UploadInv == /\ \A p \in Pushers : step[p] = "confirm" => changeset[p] \in file
             /\ \A r \in stray : r.what = "confirm" => r.changeset \in file

\* A confirmation left behind belongs to a push that is open, over or in doubt.
StrayInv == \A r \in stray : r.what = "confirm" =>
                \/ r.changeset \in doubtful \/ Logged(r.changeset)
                \/ \E p \in Pushers : step[p] = "confirm" /\ changeset[p] = r.changeset

\* A changeset gets into the history behind its pusher's back only if in doubt.
CertainInv == \A p \in Pushers :
                  changeset[p] \notin doubtful /\ step[p] # "confirm" /\ verdict[p] # "pushed"
                      => ~Logged(changeset[p])

VerdictInv == \A p \in Pushers :
                  /\ step[p] # "idle" <=> verdict[p] = "open"
                  /\ error[p] # "none" => verdict[p] \in {"refused", "unknown"}

PushInv == /\ TypeOK
           /\ PlaceInv
           /\ OwnerInv
           /\ UploadInv
           /\ StrayInv
           /\ CertainInv
           /\ VerdictInv
           /\ LoggedMeansUploaded
           /\ ReturnedMeansPushed
-------------------------------------------------------------------------------
\* What ChangesetOperations.create throws on leaves with one of the known codes.
LEMMA AdaptedCode ==
    ASSUME NEW code
    PROVE  ToITwinError(code, "createChangeset") \in {"uncoded"} \union IModelsErrorCodes
<1>1. CASE code \in Passed
  BY <1>1 DEF ToITwinError, Passed, IModelsErrorCodes, OtherErrors
<1>2. CASE code \notin Passed /\ SpecificCode(code, "createChangeset") # {}
  <2>1. SpecificCode(code, "createChangeset") \subseteq {"AnotherUserPushing"}
    BY DEF SpecificCode
  <2>2. ToITwinError(code, "createChangeset") = "AnotherUserPushing"
    BY <1>2, <2>1 DEF ToITwinError
  <2> QED BY <2>2 DEF IModelsErrorCodes, OtherErrors
<1>3. CASE code \notin Passed /\ SpecificCode(code, "createChangeset") = {}
  BY <1>3 DEF ToITwinError, IModelsErrorCodes, KnownErrors
<1> QED BY <1>1, <1>2, <1>3

LEMMA InitInv == Init => PushInv
<1> SUFFICES ASSUME Init PROVE PushInv
  OBVIOUS
<1> USE PushAssumption DEF Init, Logged
<1>1. TypeOK
  BY DEF TypeOK, Changesets, Requests
<1>2. PlaceInv /\ OwnerInv /\ UploadInv /\ StrayInv
  BY DEF PlaceInv, OwnerInv, UploadInv, StrayInv
<1>3. CertainInv /\ VerdictInv /\ LoggedMeansUploaded /\ ReturnedMeansPushed
  BY DEF CertainInv, VerdictInv, LoggedMeansUploaded, ReturnedMeansPushed
<1> QED BY <1>1, <1>2, <1>3 DEF PushInv

\* A changeset that is created or waiting is not in the history yet.
LEMMA NotYetLogged ==
    ASSUME PushInv, NEW c, c.parent = Len(log)
    PROVE  ~Logged(c)
BY DEF PushInv, TypeOK, PlaceInv, Logged

\* What a confirmation does to the history.
LEMMA ConfirmExtends ==
    ASSUME PushInv, NEW c, PerformConfirm(c)
    PROVE  /\ c \in Changesets /\ ~Logged(c)
           /\ log' \in Seq(Changesets) /\ Len(log') = Len(log) + 1 /\ log'[Len(log) + 1] = c
           /\ \A i \in 1..Len(log) : log'[i] = log[i]
           /\ \A d : Logged(d)' <=> Logged(d) \/ d = c
           /\ PlaceInv'
<1>1. c \in waiting /\ c.parent = Len(log) /\ c \in Changesets
  BY DEF PerformConfirm, PushInv, PlaceInv, TypeOK
<1>2. /\ log' \in Seq(Changesets) /\ Len(log') = Len(log) + 1 /\ log'[Len(log) + 1] = c
      /\ \A i \in 1..Len(log) : log'[i] = log[i]
  BY <1>1 DEF PerformConfirm, PushInv, TypeOK
<1>3. Len(log) \in Nat
  BY DEF PushInv, TypeOK
<1>4. \A d : Logged(d)' <=> Logged(d) \/ d = c
  BY <1>2, <1>3 DEF Logged
<1>5. PlaceInv'
  BY <1>1, <1>2, <1>3 DEF PlaceInv, PerformConfirm, PushInv
<1> QED BY <1>1, <1>2, <1>4, <1>5, NotYetLogged

LEMMA CreateKeeps ==
    ASSUME PushInv, NEW c, PerformCreate(c)
    PROVE  PlaceInv'
BY DEF PushInv, PlaceInv, PerformCreate, Accepts

LEMMA ArriveStep ==
    ASSUME PushInv, NEW r \in stray, Arrive(r)
    PROVE  PushInv'
<1> USE DEF PushInv, client
<1>0. r.changeset \in Changesets
  BY DEF TypeOK, Requests
<1>1. CASE r.what = "create" /\ PerformCreate(r.changeset)
  <2>1. TypeOK'
    BY <1>0, <1>1 DEF TypeOK, Arrive, PerformCreate
  <2>2. PlaceInv'
    BY <1>1, CreateKeeps
  <2> QED BY <1>1, <2>1, <2>2
          DEF Arrive, PerformCreate, OwnerInv, UploadInv, StrayInv, CertainInv, VerdictInv, Logged,
              LoggedMeansUploaded, ReturnedMeansPushed
<1>2. CASE r.what = "confirm" /\ PerformConfirm(r.changeset)
  <2> USE <1>2 DEF Arrive, PerformConfirm
  <2>1. /\ ~Logged(r.changeset)
        /\ log' \in Seq(Changesets) /\ Len(log') = Len(log) + 1
        /\ log'[Len(log) + 1] = r.changeset
        /\ \A i \in 1..Len(log) : log'[i] = log[i]
        /\ \A d : Logged(d)' <=> Logged(d) \/ d = r.changeset
        /\ PlaceInv'
    BY ConfirmExtends
  <2>2. TypeOK'
    BY <2>1 DEF TypeOK
  <2>3. OwnerInv' /\ UploadInv' /\ StrayInv' /\ VerdictInv'
    BY <2>1 DEF OwnerInv, UploadInv, StrayInv, VerdictInv
  <2>4. ASSUME NEW p \in Pushers, changeset[p] \notin doubtful, step[p] # "confirm"
        PROVE  changeset[p] # r.changeset
    BY <2>1, <2>4 DEF StrayInv, OwnerInv
  <2>5. CertainInv'
    BY <2>1, <2>4 DEF CertainInv
  <2>6. r.changeset \in file
    BY DEF UploadInv
  <2>7. LoggedMeansUploaded' /\ ReturnedMeansPushed'
    BY <2>1, <2>6 DEF LoggedMeansUploaded, ReturnedMeansPushed, TypeOK
  <2> QED BY <2>1, <2>2, <2>3, <2>5, <2>7
<1> QED BY <1>1, <1>2 DEF Arrive

LEMMA ExpireStep == PushInv /\ Expire => PushInv'
BY DEF PushInv, Expire, client, TypeOK, PlaceInv, OwnerInv, UploadInv, StrayInv, CertainInv,
       VerdictInv, Logged, LoggedMeansUploaded, ReturnedMeansPushed

LEMMA BeginStep ==
    ASSUME PushInv, NEW p \in Pushers, Begin(p)
    PROVE  PushInv'
<1> USE PushAssumption DEF PushInv, Begin, service
<1>1. CASE verdict[p] # "pushed" /\ UNCHANGED changeset
  <2>1. TypeOK'
    BY <1>1 DEF TypeOK
  <2>2. PlaceInv' /\ OwnerInv' /\ UploadInv' /\ StrayInv'
    BY <1>1 DEF TypeOK, PlaceInv, OwnerInv, UploadInv, StrayInv, Logged
  <2>3. CertainInv' /\ VerdictInv' /\ LoggedMeansUploaded' /\ ReturnedMeansPushed'
    BY <1>1 DEF TypeOK, CertainInv, VerdictInv, Logged, LoggedMeansUploaded, ReturnedMeansPushed
  <2> QED BY <2>1, <2>2, <2>3
<1>2. CASE changeset' = [changeset EXCEPT ![p] = [pusher |-> p, parent |-> Len(log)]]
  <2>0. changeset'[p] = [pusher |-> p, parent |-> Len(log)] /\ changeset'[p] \in Changesets
    BY <1>2 DEF TypeOK, Changesets
  <2>1. TypeOK' /\ ~Logged(changeset'[p])
    BY <1>2, <2>0, NotYetLogged DEF TypeOK
  <2>2. PlaceInv' /\ OwnerInv' /\ UploadInv'
    BY <1>2, <2>0 DEF TypeOK, PlaceInv, OwnerInv, UploadInv
  <2>3. \A q \in Pushers : step[q] = "confirm" => q # p /\ step'[q] = step[q]
                                                     /\ changeset'[q] = changeset[q]
    BY <1>2 DEF TypeOK
  <2>4. StrayInv'
    BY <2>3 DEF StrayInv, Logged
  <2>5. CertainInv' /\ VerdictInv' /\ LoggedMeansUploaded' /\ ReturnedMeansPushed'
    BY <1>2, <2>1 DEF TypeOK, CertainInv, VerdictInv, Logged, LoggedMeansUploaded,
                      ReturnedMeansPushed
  <2> QED BY <2>1, <2>2, <2>4, <2>5
<1> QED BY <1>1, <1>2

\* An error that leaves create, with the last request left behind or not.
LEMMA ThrowStep ==
    ASSUME PushInv, NEW p \in Pushers, NEW code, step[p] # "idle", Throw(p, code),
           UNCHANGED <<log, waiting>>, file \subseteq file', file' \subseteq Changesets,
           UNCHANGED stray \/ (step[p] \in {"create", "confirm"} /\ LeaveBehind(p))
    PROVE  PushInv'
<1> USE PushAssumption DEF PushInv, Throw, LeaveBehind
<1>1. TypeOK'
  BY AdaptedCode DEF TypeOK, Requests
<1>2. PlaceInv' /\ OwnerInv' /\ UploadInv'
  BY DEF TypeOK, PlaceInv, OwnerInv, UploadInv
<1>3. StrayInv'
  <2>1. \A q \in Pushers : step[q] = "confirm" /\ q # p => step'[q] = "confirm"
    BY DEF TypeOK
  <2>2. step[p] = "confirm" => changeset[p] \in doubtful'
    OBVIOUS
  <2>3. doubtful \subseteq doubtful'
    OBVIOUS
  <2>4. \A r \in stray' : r.what = "confirm" => r \in stray
                                  \/ (step[p] = "confirm" /\ r.changeset = changeset[p])
    OBVIOUS
  <2> QED BY <2>1, <2>2, <2>3, <2>4 DEF StrayInv, Logged
<1>4. CertainInv' /\ VerdictInv'
  BY DEF TypeOK, CertainInv, VerdictInv, Logged
<1>5. LoggedMeansUploaded' /\ ReturnedMeansPushed'
  BY DEF TypeOK, LoggedMeansUploaded, ReturnedMeansPushed
<1> QED BY <1>1, <1>2, <1>3, <1>4, <1>5

\* A step from one await to the next that leaves the history alone.
LEMMA GotoStep ==
    ASSUME PushInv, NEW p \in Pushers, NEW next \in {"create", "upload", "confirm"},
           step[p] \notin {"idle", "confirm"}, Goto(p, next), UNCHANGED <<log, stray>>,
           file \subseteq file', next = "confirm" => changeset[p] \in file',
           waiting' \subseteq Changesets, file' \subseteq Changesets, PlaceInv'
    PROVE  PushInv'
<1> USE PushAssumption DEF PushInv, Goto
<1>1. TypeOK'
  BY DEF TypeOK
<1>2. OwnerInv' /\ UploadInv'
  BY DEF TypeOK, OwnerInv, UploadInv
<1>3. StrayInv'
  BY DEF TypeOK, StrayInv, Logged
<1>4. CertainInv' /\ VerdictInv'
  BY DEF TypeOK, CertainInv, VerdictInv, Logged
<1>5. LoggedMeansUploaded' /\ ReturnedMeansPushed'
  BY DEF TypeOK, LoggedMeansUploaded, ReturnedMeansPushed
<1> QED BY <1>1, <1>2, <1>3, <1>4, <1>5
LEMMA FileSizeStep ==
    ASSUME PushInv, NEW p \in Pushers, FileSizeRead(p)
    PROVE  PushInv'
<1>1. CASE Goto(p, "create")
  <2>1. PlaceInv' /\ waiting' \subseteq Changesets /\ file' \subseteq Changesets
    BY DEF PushInv, TypeOK, PlaceInv, FileSizeRead, service
  <2> QED BY <1>1, <2>1, GotoStep DEF FileSizeRead, service
<1>2. CASE Throw(p, "ENOENT")
  BY <1>2, ThrowStep DEF FileSizeRead, service, PushInv, TypeOK
<1> QED BY <1>1, <1>2 DEF FileSizeRead

LEMMA CreatedStep ==
    ASSUME PushInv, NEW p \in Pushers, Created(p)
    PROVE  PushInv'
<1>1. CASE PerformCreate(changeset[p]) /\ Goto(p, "upload")
  <2>1. PlaceInv' /\ waiting' \subseteq Changesets /\ file' \subseteq Changesets
    BY <1>1, CreateKeeps DEF PushInv, TypeOK, PerformCreate
  <2> QED BY <1>1, <2>1, GotoStep DEF Created, PerformCreate
<1>2. ASSUME NEW code, Throw(p, ParseCode(code)), UNCHANGED service
      PROVE  PushInv'
  BY <1>2, ThrowStep DEF Created, service, PushInv, TypeOK
<1> QED BY <1>1, <1>2 DEF Created

LEMMA UploadedStep ==
    ASSUME PushInv, NEW p \in Pushers, Uploaded(p)
    PROVE  PushInv'
<1>1. CASE file' = file \union {changeset[p]} /\ Goto(p, "confirm")
  <2>1. PlaceInv' /\ waiting' \subseteq Changesets /\ file' \subseteq Changesets
    BY <1>1 DEF PushInv, TypeOK, PlaceInv, Uploaded
  <2> QED BY <1>1, <2>1, GotoStep DEF Uploaded
<1>2. ASSUME NEW code, Throw(p, code), file' \in {file, file \union {changeset[p]}}
      PROVE  PushInv'
  <2>1. file \subseteq file' /\ file' \subseteq Changesets
    BY <1>2 DEF PushInv, TypeOK
  <2> QED BY <1>2, <2>1, ThrowStep DEF Uploaded
<1> QED BY <1>1, <1>2 DEF Uploaded

\* The answer to a confirmation that did what was asked, now or before.
LEMMA ReturnStep ==
    ASSUME PushInv, NEW p \in Pushers, step[p] = "confirm", NEW i \in Nat, Return(p, i),
           UNCHANGED <<file, stray>>, log' \in Seq(Changesets), waiting' \subseteq Changesets,
           Len(log') \in Nat, Len(log) \in Nat, Len(log) <= Len(log'),
           i \in 1..Len(log'), log'[i] = changeset[p],
           \A j \in 1..Len(log) : log'[j] = log[j],
           \A d : Logged(d)' <=> Logged(d) \/ d = changeset[p],
           PlaceInv', LoggedMeansUploaded'
    PROVE  PushInv'
<1> USE PushAssumption DEF PushInv, Return
<1>1. TypeOK'
  BY DEF TypeOK
<1>2. OwnerInv' /\ UploadInv' /\ VerdictInv'
  BY DEF TypeOK, OwnerInv, UploadInv, VerdictInv
<1>3. \A q \in Pushers : q # p => /\ step'[q] = step[q] /\ verdict'[q] = verdict[q]
                                  /\ index'[q] = index[q] /\ changeset[q] # changeset[p]
  BY DEF TypeOK, OwnerInv
<1>4. verdict'[p] = "pushed" /\ index'[p] = i
  BY DEF TypeOK
<1>5. StrayInv'
  BY <1>3 DEF StrayInv
<1>6. CertainInv'
  BY <1>3, <1>4 DEF CertainInv
<1>7. ReturnedMeansPushed'
  BY <1>3, <1>4 DEF ReturnedMeansPushed
<1> QED BY <1>1, <1>2, <1>5, <1>6, <1>7

LEMMA ConfirmedStep ==
    ASSUME PushInv, NEW p \in Pushers, Confirmed(p)
    PROVE  PushInv'
<1>0. Len(log) \in Nat
  BY DEF PushInv, TypeOK
<1>1. CASE PerformConfirm(changeset[p]) /\ Return(p, Len(log) + 1)
  <2>1. /\ log' \in Seq(Changesets) /\ Len(log') = Len(log) + 1
        /\ log'[Len(log) + 1] = changeset[p]
        /\ \A i \in 1..Len(log) : log'[i] = log[i]
        /\ \A d : Logged(d)' <=> Logged(d) \/ d = changeset[p]
        /\ PlaceInv'
    BY <1>1, ConfirmExtends
  <2>2. LoggedMeansUploaded' /\ waiting' \subseteq Changesets
    BY <1>0, <1>1, <2>1
       DEF PushInv, UploadInv, LoggedMeansUploaded, PerformConfirm, Confirmed
  <2> QED BY <1>0, <1>1, <2>1, <2>2, ReturnStep DEF Confirmed, PerformConfirm
<1>2. ASSUME UNCHANGED service, NEW i \in 1..Len(log), log[i] = changeset[p], Return(p, i)
      PROVE  PushInv'
  <2>1. \A d : Logged(d)' <=> Logged(d) \/ d = changeset[p]
    BY <1>2 DEF Logged, service
  <2>2. PlaceInv' /\ LoggedMeansUploaded'
    BY <1>2 DEF PushInv, PlaceInv, LoggedMeansUploaded, service
  <2>3. log \in Seq(Changesets) /\ waiting \subseteq Changesets
    BY DEF PushInv, TypeOK
  <2> QED BY <1>0, <1>2, <2>1, <2>2, <2>3, ReturnStep DEF Confirmed, service
<1>3. ASSUME UNCHANGED service, NEW code, Throw(p, ParseCode(code))
      PROVE  PushInv'
  BY <1>3, ThrowStep DEF Confirmed, service, PushInv, TypeOK
<1> QED BY <1>1, <1>2, <1>3 DEF Confirmed

LEMMA ResendStep ==
    ASSUME PushInv, NEW p \in Pushers, Resend(p)
    PROVE  PushInv'
<1> USE PushAssumption DEF PushInv, Resend, LeaveBehind, service
<1>1. TypeOK'
  BY DEF TypeOK, Requests
<1>2. PlaceInv' /\ OwnerInv' /\ UploadInv' /\ StrayInv'
  BY DEF PlaceInv, OwnerInv, UploadInv, StrayInv, Logged
<1>3. CertainInv' /\ VerdictInv' /\ LoggedMeansUploaded' /\ ReturnedMeansPushed'
  BY DEF CertainInv, VerdictInv, Logged, LoggedMeansUploaded, ReturnedMeansPushed
<1> QED BY <1>1, <1>2, <1>3

LEMMA GiveUpStep ==
    ASSUME PushInv, NEW p \in Pushers, GiveUp(p)
    PROVE  PushInv'
BY ThrowStep DEF GiveUp, service, PushInv, TypeOK

LEMMA NextInv == PushInv /\ [Next]_vars => PushInv'
<1> SUFFICES ASSUME PushInv, [Next]_vars PROVE PushInv'
  OBVIOUS
<1>1. ASSUME NEW p \in Pushers, Begin(p) \/ Proceed(p) PROVE PushInv'
  BY <1>1, BeginStep, FileSizeStep, CreatedStep, UploadedStep, ConfirmedStep, ResendStep,
     GiveUpStep DEF Proceed
<1>2. ASSUME NEW r \in stray, Arrive(r) PROVE PushInv'
  BY <1>2, ArriveStep
<1>3. CASE Expire
  BY <1>3, ExpireStep
<1>4. CASE UNCHANGED vars
  BY <1>4 DEF vars, service, client, PushInv, TypeOK, PlaceInv, OwnerInv, UploadInv, StrayInv,
              CertainInv, VerdictInv, Logged, LoggedMeansUploaded, ReturnedMeansPushed
<1> QED BY <1>1, <1>2, <1>3, <1>4 DEF Next, Done

LEMMA Invariance == Spec => []PushInv
BY InitInv, NextInv, PTL DEF Spec

\* Every variable has its type.
THEOREM TypeCorrect == Spec => []TypeOK
<1>1. PushInv => TypeOK
  BY DEF PushInv
<1> QED BY <1>1, Invariance, PTL

\* No changeset gets into the history before its file is in the storage, whenever
\* the requests of ChangesetOperations.create arrive.
THEOREM HistoryHasFiles == Spec => []LoggedMeansUploaded
<1>1. PushInv => LoggedMeansUploaded
  BY DEF PushInv
<1> QED BY <1>1, Invariance, PTL

\* The index pushChangeset returned is and remains that of the changeset pushed.
THEOREM IndexOfPush == Spec => []ReturnedMeansPushed
<1>1. PushInv => ReturnedMeansPushed
  BY DEF PushInv
<1> QED BY <1>1, Invariance, PTL

\* A caller of pushChangeset that is told of another pusher or of newer changes has
\* not pushed, unless an earlier call left it in doubt.
THEOREM RefusedIsNotPushed == Spec => []RefusalIsCertain
<1>1. PushInv => RefusalIsCertain
  <2> SUFFICES ASSUME PushInv, NEW p \in Pushers,
                      error[p] \in {"AnotherUserPushing", "NewerChangesExist"},
                      changeset[p] \notin doubtful
               PROVE  ~Logged(changeset[p])
    BY DEF RefusalIsCertain
  <2>1. verdict[p] \in {"refused", "unknown"} /\ step[p] = "idle"
    BY DEF PushInv, TypeOK, VerdictInv
  <2> QED BY <2>1 DEF PushInv, CertainInv
<1> QED BY <1>1, Invariance, PTL
-------------------------------------------------------------------------------
\* Each step is one of the list, or none.

LEMMA NoDouble ==
    ASSUME PushInv, NEW c, PerformConfirm(c), c \in Abstract!MayStillBePushed
    PROVE  c \in Abstract!MayStillBePushed \ Abstract!Pushed
BY ConfirmExtends DEF Logged, Abstract!Pushed

LEMMA ArriveMaps ==
    ASSUME PushInv, NEW r \in stray, Arrive(r)
    PROVE  [Abstract!PushNext]_(Abstract!pushVars)
<1>1. CASE r.what = "create" /\ PerformCreate(r.changeset)
  BY <1>1 DEF Arrive, PerformCreate, client, Abstract!pushVars
<1>2. CASE r.what = "confirm" /\ PerformConfirm(r.changeset)
  <2>1. ~Logged(r.changeset)
    BY <1>2, ConfirmExtends
  <2>2. r.changeset \in Abstract!MayStillBePushed
    BY <1>2, <2>1 DEF PushInv, StrayInv, VerdictInv, Abstract!MayStillBePushed
  <2>3. Abstract!TakeEffect(r.changeset)
    BY <1>2 DEF Arrive, PerformConfirm, client, Abstract!TakeEffect
  <2> QED BY <1>2, <2>2, <2>3, NoDouble DEF Abstract!PushNext
<1> QED BY <1>1, <1>2 DEF Arrive

LEMMA BeginMaps ==
    ASSUME PushInv, NEW p \in Pushers, Begin(p)
    PROVE  Abstract!PushNext
<1>1. verdict[p] # "open" /\ changeset' = [changeset EXCEPT ![p] = changeset'[p]]
      /\ changeset'[p] \in Changesets
  BY DEF PushInv, VerdictInv, TypeOK, Changesets, Begin
<1>2. Abstract!Invoke(p)
  BY <1>1 DEF Abstract!Invoke, Begin, service
<1> QED BY <1>2 DEF Abstract!PushNext

LEMMA ThrowMaps ==
    ASSUME PushInv, NEW p \in Pushers, NEW code, step[p] # "idle", Throw(p, code), UNCHANGED log
    PROVE  Abstract!PushNext
<1>1. verdict[p] = "open"
  BY DEF PushInv, VerdictInv
<1>2. CASE step[p] = "confirm"
  <2>1. Abstract!Doubt(p)
    BY <1>1, <1>2 DEF Throw, Abstract!Doubt
  <2> QED BY <2>1 DEF Abstract!PushNext
<1>3. CASE step[p] # "confirm"
  <2>1. Abstract!Refuse(p)
    BY <1>1, <1>3 DEF Throw, Abstract!Refuse
  <2> QED BY <2>1 DEF Abstract!PushNext
<1> QED BY <1>2, <1>3

LEMMA GotoMaps ==
    ASSUME NEW p \in Pushers, NEW next, Goto(p, next), UNCHANGED log
    PROVE  UNCHANGED Abstract!pushVars
BY DEF Goto, Abstract!pushVars

LEMMA ConfirmedMaps ==
    ASSUME PushInv, NEW p \in Pushers, Confirmed(p)
    PROVE  Abstract!PushNext
<1>0. verdict[p] = "open" /\ step[p] = "confirm"
  BY DEF PushInv, VerdictInv, Confirmed
<1>1. CASE PerformConfirm(changeset[p]) /\ Return(p, Len(log) + 1)
  <2>1. changeset[p] \in Abstract!MayStillBePushed
    BY <1>0 DEF Abstract!MayStillBePushed
  <2>2. Abstract!TakeEffect(changeset[p])
    BY <1>0, <1>1 DEF PerformConfirm, Return, Abstract!TakeEffect
  <2> QED BY <1>1, <2>1, <2>2, NoDouble DEF Abstract!PushNext
<1>2. ASSUME UNCHANGED service, NEW i \in 1..Len(log), log[i] = changeset[p], Return(p, i)
      PROVE  Abstract!PushNext
  <2>1. Abstract!Succeed(p)
    BY <1>0, <1>2 DEF service, Return, Abstract!Succeed, Abstract!Pushed
  <2> QED BY <2>1 DEF Abstract!PushNext
<1>3. ASSUME UNCHANGED service, NEW code, Throw(p, ParseCode(code))
      PROVE  Abstract!PushNext
  BY <1>0, <1>3, ThrowMaps DEF service
<1> QED BY <1>1, <1>2, <1>3 DEF Confirmed

LEMMA ProceedMaps ==
    ASSUME PushInv, NEW p \in Pushers, Proceed(p)
    PROVE  [Abstract!PushNext]_(Abstract!pushVars)
<1>1. CASE FileSizeRead(p)
  BY <1>1, GotoMaps, ThrowMaps DEF FileSizeRead, service
<1>2. CASE Created(p)
  BY <1>2, GotoMaps, ThrowMaps DEF Created, PerformCreate, service
<1>3. CASE Uploaded(p)
  BY <1>3, GotoMaps, ThrowMaps DEF Uploaded
<1>4. CASE Confirmed(p)
  BY <1>4, ConfirmedMaps
<1>5. CASE Resend(p)
  BY <1>5 DEF Resend, service, Abstract!pushVars
<1>6. CASE GiveUp(p)
  BY <1>6, ThrowMaps DEF GiveUp, service
<1> QED BY <1>1, <1>2, <1>3, <1>4, <1>5, <1>6 DEF Proceed

\* Pushing in three steps, over requests that are repeated and late, is appending to
\* a list: ChangesetOperations.create keeps the promise of PushLog.
THEOREM ImplementsList == Spec => ImplementsPushLog
<1>1. Init => Abstract!PushInit
  BY DEF Init, Abstract!PushInit, Changesets
<1>2. PushInv /\ [Next]_vars => [Abstract!PushNext]_(Abstract!pushVars)
  <2> SUFFICES ASSUME PushInv, [Next]_vars PROVE [Abstract!PushNext]_(Abstract!pushVars)
    OBVIOUS
  <2>1. CASE Expire
    BY <2>1 DEF Expire, client, Abstract!pushVars
  <2>2. CASE UNCHANGED vars
    BY <2>2 DEF vars, service, client, Abstract!pushVars
  <2> QED BY <2>1, <2>2, BeginMaps, ProceedMaps, ArriveMaps DEF Next, Done
<1> QED BY <1>1, <1>2, Invariance, PTL DEF Spec, ImplementsPushLog, Abstract!PushSpec
===============================================================================
