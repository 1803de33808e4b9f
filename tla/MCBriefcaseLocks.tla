---- MODULE MCBriefcaseLocks ----
\* Values for the constants of BriefcaseLocks.
EXTENDS BriefcaseLocks, TLC

CONSTANTS o1, o2

\* one lock, two of different levels, one lowered
SomeLockMaps == {o1 :> 2, o1 :> 1, (o1 :> 2 @@ o2 :> 1)}
====
