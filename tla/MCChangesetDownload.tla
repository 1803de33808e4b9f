-------------------------- MODULE MCChangesetDownload --------------------------
(* Instances of ChangesetDownload for TLC: sizes of changeset files in chunks, *)
(* and the calls a client makes.  The sizes differ, so that sorting matters,   *)
(* and the largest takes two chunks, so that a file can be cut short.          *)
EXTENDS ChangesetDownload

Sizes2 == <<2, 1>>
OneChunkEach == <<1, 1>>

TwoLists == <<"list", "list">>
ListThenSingle == <<"list", "single">>

FirstReported == [k \in Calls |-> k = 1]
Silent == [k \in Calls |-> FALSE]
===============================================================================
