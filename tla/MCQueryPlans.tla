---------------------------- MODULE MCQueryPlans ----------------------------
(* Small instances of QueryPlans. *)
EXTENDS QueryPlans

KV == <<Field("k", "int"), Field("v", "int")>>

Table(schema, frags, next) == [schema |-> schema, sort |-> Null, frags |-> frags, next |-> next]

Loaded(rows, stats) == Fragment(rows, [i \in DOMAIN rows |-> i - 1], Null, stats)

CountStar == Agg("count", 0, "n")

-----------------------------------------------------------------------------
(* Group-bys over a table that is inserted into, sorted and deleted from *)

Raw == Scan("t", <<"k", "v">>)

GroupBys ==
    {Aggregate("single", <<1>>, <<Agg("sum", 2, "s"), CountStar>>, Raw),
     Aggregate("single", <<2>>, <<Agg("avg", 1, "a")>>, Raw),
     Aggregate("single", <<1, 2>>, <<Agg("count", 2, "c")>>, Filter(Raw, Cmp(2, ">", 0))),
     Aggregate("finalPartitioned", <<1>>, <<CountStar>>, Aggregate("partial", <<1>>, <<CountStar>>, Raw)),
     Aggregate("finalPartitioned", <<1>>, <<Agg("max", 2, "m")>>,
               Hash(Aggregate("partial", <<1>>, <<Agg("max", 2, "m")>>, Raw), 1)),
     Aggregate("final", <<1>>, <<CountStar>>, Coalesce(Aggregate("partial", <<1>>, <<CountStar>>, Raw)))}

Grouping ==
    [name |-> "grouping", tables |-> [t \in {"t"} |-> Table(KV, <<>>, 0)],
     inserts |-> {<< <<2, 1>>, <<1, Null>> >>, << <<1, 1>>, <<2, 0>>, <<Null, 1>> >>},
     sorts |-> {<<>>, <<"k">>, <<"k", "v">>}, deletes |-> TRUE, lookup |-> FALSE, queries |-> GroupBys]

-----------------------------------------------------------------------------
(* Joins of a small build side *)

Static(name, tables_, lookup, queries) ==
    [name |-> name, tables |-> tables_, inserts |-> {}, sorts |-> {}, deletes |-> TRUE,
     lookup |-> lookup, queries |-> queries]

DimRows == << <<1, 1>>, <<1, 2>>, <<Null, 3>> >>

FactRows == << <<1, 5>>, <<2, 6>>, <<Null, 7>> >>

Star(stats) ==
    [t \in {"dim", "fact"} |->
        IF t = "dim" THEN Table(<<Field("id", "int"), Field("w", "int")>>,
                                <<Loaded(DimRows, stats)>>, 3)
        ELSE Table(<<Field("k", "int"), Field("x", "int")>>,
                   <<Loaded(FactRows, "full"), [Loaded(<< <<1, 8>> >>, "full") EXCEPT !.ids = <<3>>]>>, 4)]

Dim == Scan("dim", <<"id", "w">>)
Fact == Scan("fact", <<"k", "x">>)

PerKey == Aggregate("single", <<1>>, <<Agg("count", 2, "k")>>, Coalesce(Fact))

Joins ==
    {Join(Dim, Fact, 1, 1, "collect"),
     Join(Hash(Dim, 1), Hash(Fact, 1), 1, 1, "partitioned"),
     Join(Filter(Dim, Cmp(2, ">", 1)), Fact, 1, 1, "collect"),
     Join(Coalesce(Dim), Filter(Fact, Cmp(2, "<", 8)), 2, 1, "collect"),
     Join(Dim, PerKey, 1, 1, "collect"),
     Join(Dim, PerKey, 1, 2, "collect"),
     Join(Source("dim", <<"id", "w">>), Fact, 1, 1, "collect"),
     Join(Dim, Source("fact", <<"k", "x">>), 1, 1, "collect"),
     Join(Fact, Dim, 1, 1, "collect"),
     [Join(Dim, Fact, 1, 1, "collect") EXCEPT !.nulls = TRUE],
     [Join(Dim, Fact, 1, 1, "collect") EXCEPT !.type = "right"],
     [Join(Hash(Dim, 1), Hash(Fact, 1), 1, 1, "partitioned") EXCEPT !.type = "right"],
     [Join(Dim, Fact, 1, 1, "collect") EXCEPT !.also = <<2, 1>>],
     [Join(Dim, Fact, 1, 1, "collect") EXCEPT !.extra = <<2, 1>>],
     Aggregate("single", <<1>>, <<CountStar>>, Coalesce(Join(Dim, Fact, 1, 1, "collect")))}

Joining(stats, lookup) == Static("joining", Star(stats), lookup, Joins)

-----------------------------------------------------------------------------
(* Casts, float keys and row ids *)

Numbers ==
    [t \in {"a", "b"} |->
        IF t = "a" THEN Table(<<Field("f", "float"), Field("s", "tiny"), Field("e", "single")>>,
                              <<Loaded(<< <<2, 1, 2>>, <<3, 2, 4>>, <<Null, 3, Null>> >>, "full")>>, 3)
        ELSE Table(<<Field("g", "float"), Field("z", "int"), Field("y", "tiny")>>,
                   <<Loaded(<< <<2, 1, 1>>, <<3, 2, 2>> >>, "full"), [Loaded(<< <<4, 3, 3>> >>, "full") EXCEPT !.ids = <<>>]>>, 2)]

A == Scan("a", <<"f", "s", "e">>)
B == Scan("b", <<"g", "z", "y">>)

Casting ==
    Static("casting", Numbers, TRUE,
           {Filter(A, CastCmp(2, "int", cmp, v)) : cmp \in {"=", "<", ">"}, v \in {2, 5}}
           \union {Filter(A, CastCmp(3, "float", cmp, v)) : cmp \in {"=", "<", ">"}, v \in {2, 3, 4}}
           \union {Filter(A, CastCmp(1, "int", "=", 1)), Filter(A, CastCmp(1, "single", "=", 4)),
                   Filter(A, CastCmp(2, "single", ">", 2)), Filter(B, CastCmp(2, "float", ">", 3)),
                   Join(A, B, 1, 1, "collect"), Join(A, B, 2, 3, "collect")})

RowIds ==
    Static("rowids", [t \in {"dim", "fact", "b"} |-> IF t = "b" THEN Numbers["b"] ELSE Star("full")[t]], FALSE,
           {Filter(Scan("fact", <<"_rowid", "x">>), InList(1, {0, 3})),
            Filter(Coalesce(Scan("fact", <<"_rowid", "k">>)), Cmp(1, "=", 2)),
            Filter(Scan("fact", <<"_rowid", "k">>), Cmp(1, ">", 0)),
            Filter(Scan("b", <<"_rowid", "z">>), Cmp(1, "=", 0)),
            Filter(Hash(Filter(Scan("fact", <<"_rowid", "x">>), InList(1, {1, 2})), 1), InList(1, {2, 3})),
            Join(Scan("dim", <<"_rowid", "id">>), Fact, 1, 1, "collect"),
            Join(Dim, Filter(Scan("fact", <<"_rowid", "k">>), InList(1, {0, 1})), 1, 2, "collect")})

AllSettings ==
    {Grouping, Casting, RowIds} \union {Joining(stats, lookup) : stats \in {"full", "none", "absent"}, lookup \in BOOLEAN}
=============================================================================
