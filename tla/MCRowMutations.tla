--------------------------- MODULE MCRowMutations ---------------------------
EXTENDS RowMutations

MCOrder == <<10, 2, 6>>

Row(k, v) == [k |-> k, v |-> v]

ByKey == Definition("byKey", "k", TRUE)

ByKeyLoose == Definition("byKey", "k", FALSE)

ByVal == Definition("byVal", "v", FALSE)

Defaults ==
    [rows |-> <<Row(2, 6), Row(6, 2)>>, defs |-> {ByKey}, start |-> "before", caches |-> {"model", "binary"},
     session |-> "server", race |-> FALSE, createVia |-> "cli", chunk |-> 2,
     statements |-> {}, foreign |-> {}, compact |-> {}]

One(st) == <<st>>

SetV(x) == "v" :> Literal(x)

SetK(x) == "k" :> Literal(x)

Points == {One(Delete(Eq("k", 2))), One(Update(SetV(10), Eq("k", 2))), One(Update(SetK(6), Eq("k", 2))),
           One(Insert(<<Row(2, 2)>>)), One(MergeInto(<<Row(6, 6), Row(10, 2)>>, <<>>))}

Sets == {One(Delete(InList("k", {2, 6}))), One(Update("v" :> ColumnRef("k"), Everything)),
         One(Update(SetK(10), Both(2, 6))), One(Insert(<<Row(10, 2), Row(Null, 6)>>)),
         One(Update("k" :> Literal(Null), Eq("v", 2)))}

Serving == [Defaults EXCEPT !.statements = Points \union Sets]

Loose == [Defaults EXCEPT !.chunk = 1, !.defs = {ByKeyLoose, ByVal}, !.start = "after", !.statements = Points \union Sets]

Commanding == [Defaults EXCEPT !.session = "cli", !.statements = Points, !.compact = {<<>>},
                               !.caches = {"binary"}, !.defs = {ByKey, ByVal}]

Batching == [Defaults EXCEPT !.caches = {},
               !.statements = {<<Update(SetV(10), Eq("k", 2)), Delete(Eq("v", 10))>>,
                               <<Update(SetK(10), Eq("k", 6)), Update(SetK(10), Eq("k", 2))>>,
                               <<Delete(Eq("k", 2)), MergeInto(<<Row(2, 2)>>, "v" :> Literal(2))>>}]

Racing == [Defaults EXCEPT !.race = TRUE, !.statements = {One(Update(SetV(10), Eq("k", 2))), One(Delete(Everything))},
              !.foreign = {Insert(<<Row(10, 2)>>), Update(SetV(2), Eq("k", 2)), Delete(Eq("k", 2))},
              !.compact = {<<>>}]

Growing == [Defaults EXCEPT !.race = TRUE, !.statements = Points, !.foreign = {Insert(<<Row(10, 2)>>)}]

Creating == [Defaults EXCEPT !.start = "none", !.statements = Points, !.defs = {ByKey, ByVal}]

Handling == [Defaults EXCEPT !.start = "none", !.createVia = "server", !.statements = Points \union Sets]

Reclustering == [Defaults EXCEPT !.session = "cli", !.statements = {One(Update(SetK(10), Eq("k", 2)))}, !.compact = {<<"k">>},
                                 !.rows = <<Row(6, 6), Row(2, 2)>>]

MCSettings == {Serving, Loose, Commanding, Batching, Racing, Growing, Creating, Handling, Reclustering}
=============================================================================
