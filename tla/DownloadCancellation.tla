-------------------------- MODULE DownloadCancellation --------------------------
(***************************************************************************)
(* downloadChangesets and downloadChangeset of the backend: a download of  *)
(* the authoring client whose progress callback may cancel it.  The        *)
(* adapter turns the answer of the callback into a promise that decides    *)
(* once, and the promise into the abort signal; when the call ends it is   *)
(* told not to cancel any more.  In ChangesetDownload the signal may be    *)
(* set at any time; here it is set by the adapter alone.                   *)
(* What a settled promise calls runs before anything else the process      *)
(* waits for; a chunk is what the stream hands over in one event.          *)
(* Definitions called ...Defect are mistakes the properties must catch.    *)
(***************************************************************************)
EXTENDS ChangesetDownload

ASSUME CancellationAssumption == "abort" \in Events

VARIABLES monitor, \* [Calls -> what downloadCancellationMonitorFunc was told first]
          asked    \* [Calls -> has the callback asked to cancel before the call ended]

cancellation == <<monitor, asked>>
allVars == <<vars, cancellation>>

AdapterInit == /\ Init
               /\ monitor = [k \in Calls |-> "none"]
               /\ asked = [k \in Calls |-> FALSE]

\* toDownloadProgressParam returns nothing without a callback
Monitored(k) == WithProgress[k]

\* the promise keeps what it is resolved with first
Told(k, params) == monitor' = [monitor EXCEPT ![k] = IF @ = "pending" THEN params ELSE @]

Ended(k) == phase[k] \in {"fulfilled", "rejected"}

\* abortController.abort is to be called, or the finally block to be run
AbortIsDue(k) == monitor[k] = "cancel" /\ ~aborted[k]
FinallyIsDue(k) == monitor[k] = "pending" /\ Ended(k)

Quiet == \A k \in Calls : ~AbortIsDue(k) /\ ~FinallyIsDue(k)
-------------------------------------------------------------------------------
Call(k) == /\ Quiet
           /\ Begin(k)
           /\ monitor' = [monitor EXCEPT ![k] = IF Monitored(k) THEN "pending" ELSE "none"]
           /\ UNCHANGED asked

\* A chunk is reported, be it of a download that a call has left running, and the callback
\* answers ProgressStatus.Continue or another status.
Report(k, c) ==
    /\ Quiet
    /\ ReceiveChunk(k, c)
    /\ \/ UNCHANGED cancellation
       \/ /\ Monitored(k)
          /\ Told(k, "cancel")
          /\ asked' = [asked EXCEPT ![k] = @ \/ ~Ended(k)]

AbortSignalled(k) == /\ AbortIsDue(k)
                     /\ Abort(k)
                     /\ UNCHANGED cancellation

FinallyDefect(k) == /\ phase[k] # "idle" /\ monitor[k] = "pending"
                    /\ Told(k, "end")
                    /\ UNCHANGED <<vars, asked>>

Finally(k) == /\ FinallyIsDue(k)
              /\ Told(k, "end")
              /\ UNCHANGED <<vars, asked>>

\* All else is as ChangesetDownload has it; a step that receives nothing is no report.
GoOn(k) == Quiet /\ CallStep(k) /\ UNCHANGED cancellation
Download(k, c) == /\ Quiet /\ UNCHANGED cancellation
                  /\ DownloadStep(k, c) /\ position'[k][c] <= position[k][c]
Others == /\ Quiet /\ UNCHANGED cancellation
          /\ PushChangeset \/ Crash \/ AllSettled \/ \E k \in Calls : FetchFails(k)

AdapterNext ==
    \/ \E k \in Calls : Call(k) \/ GoOn(k) \/ AbortSignalled(k) \/ Finally(k)
    \/ \E k \in Calls, c \in Changesets : Report(k, c) \/ Download(k, c)
    \/ Others

AdapterSpec == AdapterInit /\ [][AdapterNext]_allVars

\* As in ChangesetDownload; and what is due is done.
AdapterFairSpec ==
    /\ AdapterSpec
    /\ \A k \in Calls : WF_allVars(GoOn(k)) /\ WF_allVars(AbortSignalled(k) \/ Finally(k))
    /\ \A k \in Calls, c \in Changesets : WF_allVars(Report(k, c) \/ Download(k, c))
-------------------------------------------------------------------------------
\* When the callback has asked to cancel before the call ended, no further chunk of any
\* download of the call is received, those it leaves running and their retries included
\* (one of them may still open, and with that truncate, its file); and no download is
\* aborted for which that was not asked, whatever the callback answers to chunks of
\* downloads that were left running.
CancelStopsTheCall ==
    /\ [](\A k \in Calls : aborted[k] => asked[k])
    /\ [][\A k \in Calls, c \in Changesets : asked[k] => position'[k][c] <= position[k][c]]_allVars
===============================================================================
