---- MODULE MCEntityQueries ----
\* Values for the constants of EntityQueries.
EXTENDS EntityQueries, TLC

A == <<"a">>
B == <<"b">>
C == <<"c">>

\* three of what is listed, on two pages; versions of changesets 1 and 2; checkpoints of the
\* baseline and of changeset 2
Some == [store |-> [on \in Types |->
             CASE on = "checkpoint" -> <<0, 2>> [] on = "namedVersion" -> <<1, 2>>
               [] on \in {"permission", "thumbnail"} -> <<1>> [] on = "user" -> <<2, 1, 3>>
               [] on \in {"favorite", "recent"} -> <<1, 2>> [] OTHER -> <<1, 2, 3>>],
         names |-> [on \in {"iModel", "namedVersion"} |-> (1 :> A @@ 2 :> B @@ 3 :> C)],
         madeOn |-> (1 :> 1 @@ 2 :> 2 @@ 3 :> 0)]

ABC == {A, B, C}
AnyChange == {IModelDelete, FavoriteAdd, FavoriteRemove, RecentAdd, RecentRemove, NamedVersionCreate, CheckpointUpdate}

AnyPush == {Push, NamedVersionCreate, NamedVersionUpdate, IModelUpdate}

\* no changeset or two; a named version of the baseline beside one of changeset 1
Few == [Some EXCEPT !.store["changeset"] = <<1, 2>>, !.store["iModel"] = <<1, 2>>,
                    !.madeOn = (1 :> 0 @@ 2 :> 1 @@ 3 :> 0)]

Question0 == [ask |-> "first", side |-> "backend", name |-> A,
              changeset |-> Part(0), range |-> [first |-> 0, end |-> <<>>]]
Of(ask) == {[Question0 EXCEPT !.ask = ask, !.side = side] : side \in {"backend", "frontend"}}
Named(ask, names) == {[q EXCEPT !.name = name] : q \in Of(ask), name \in names}
OfChangeset == {[q EXCEPT !.changeset = [form |-> form, number |-> c]] :
                   q \in Of("changeset"), form \in {"id", "index"}, c \in 0..3}
OfRange == {[Question0 EXCEPT !.ask = "range", !.range = [first |-> first, end |-> end]] :
                first \in 0..2, end \in {<<>>, <<0>>, <<2>>}}
AllQuestions ==
    Of("first") \union Of("latest") \union Named("namedVersion", ABC)
        \union {[Question0 EXCEPT !.ask = "latestNamedVersion", !.side = "frontend"]}
        \union {[Question0 EXCEPT !.ask = "iModel", !.name = name] : name \in ABC}
        \union {q \in OfChangeset : q.side = "frontend" => q.changeset.form = "id" /\ q.changeset.number # 0}
        \union OfRange

NoHeaders == {<<>>}
NoParams == <<>>
AllLists == {[operation |-> operation, params |-> NoParams] : operation \in ListOperations}
TwoClientHeaders == [correlation |-> <<"client">>, application |-> <<"client">>]
SomeHeaders == {[correlation |-> <<>>, extra |-> <<"call">>]}
====
