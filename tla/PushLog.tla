-------------------------------- MODULE PushLog --------------------------------
(***************************************************************************)
(* What pushing changesets promises, without links, files and retries: the *)
(* history of an iModel is a list that grows by changesets of pushes that  *)
(* are open or whose outcome their pushers do not know, each of them once; *)
(* a push reported as done is in it.                                       *)
(***************************************************************************)
EXTENDS Naturals, Sequences

CONSTANTS Pushers, Changesets

VARIABLES log,        \* the changesets of the iModel, by index
          changeset,  \* [Pushers -> the changeset of the latest push]
          verdict,    \* [Pushers -> what the pusher was told]
          doubtful    \* changesets with a push that failed and may yet succeed

pushVars == <<log, changeset, verdict, doubtful>>

Pushed == {log[i] : i \in 1..Len(log)}

PushInit == /\ log = <<>>
            /\ changeset \in [Pushers -> Changesets]
            /\ verdict = [p \in Pushers |-> "none"]
            /\ doubtful = {}

Invoke(p) == /\ verdict[p] # "open"
             /\ verdict' = [verdict EXCEPT ![p] = "open"]
             /\ changeset'[p] \in Changesets
             /\ changeset' = [changeset EXCEPT ![p] = changeset'[p]]
             /\ UNCHANGED <<log, doubtful>>

MayStillBePushed == doubtful \union {changeset[p] : p \in {q \in Pushers : verdict[q] = "open"}}

\* a push takes effect, and its pusher may learn it at once
TakeEffect(c) == /\ log' = Append(log, c)
                 /\ verdict' = verdict \/ \E p \in Pushers :
                        /\ verdict[p] = "open" /\ changeset[p] = c
                        /\ verdict' = [verdict EXCEPT ![p] = "pushed"]
                 /\ UNCHANGED <<changeset, doubtful>>

Succeed(p) == /\ verdict[p] = "open"
              /\ changeset[p] \in Pushed
              /\ verdict' = [verdict EXCEPT ![p] = "pushed"]
              /\ UNCHANGED <<log, changeset, doubtful>>

Refuse(p) == /\ verdict[p] = "open"
             /\ verdict' = [verdict EXCEPT ![p] = "refused"]
             /\ UNCHANGED <<log, changeset, doubtful>>

Doubt(p) == /\ verdict[p] = "open"
            /\ verdict' = [verdict EXCEPT ![p] = "unknown"]
            /\ doubtful' = doubtful \union {changeset[p]}
            /\ UNCHANGED <<log, changeset>>

PushNext == \/ \E p \in Pushers : Invoke(p) \/ Succeed(p) \/ Refuse(p) \/ Doubt(p)
            \/ \E c \in MayStillBePushed \ Pushed : TakeEffect(c)

PushSpec == PushInit /\ [][PushNext]_pushVars
===============================================================================
