---------------------------- MODULE MCRubyBoundary ----------------------------
(* Five families of sessions: schemas in all their forms; rows of times, dates
   and strings of them; arrays and hashes of those; decimals; and reads with
   every mix of arguments. *)
EXTENDS RubyBoundary

Plain(of) == [is |-> "plain", of |-> of]
Timestamp(of, zone) == [is |-> "timestamp", of |-> of, zone |-> zone]
Decimal(p, s) == [is |-> "decimal", precision |-> p, scale |-> s]
ListOf(T, nullable) == [is |-> "list", item |-> T, nullable |-> nullable]
MapOf(T, U, nullable) == [is |-> "map", key |-> T, value |-> U, nullable |-> nullable]
StructOf(fields) == [is |-> "struct", fields |-> fields]
Col(name, T, nullable) == [name |-> name, type |-> T, nullable |-> nullable]

Session ==
  [form |-> "array", columns |-> <<Col("a", Plain("string"), TRUE)>>, row |-> <<>>,
   times |-> <<>>, zones |-> <<>>, method |-> "each_row", kwargs |-> <<>>,
   block |-> TRUE]
----------------------------------------------------------------------------
Leaves ==
  {Plain("string"), Plain("int32"), [is |-> "uuid"]}
    \cup {Timestamp(of, zone) : of \in {"timestamp", "timestamp_millis"},
                                zone \in {"default", "on", "off", "legacy"}}
    \cup {Decimal(p, s) : p \in {Absent, 0, 2, 3, 5, 7}, s \in {Absent, 0, 1, 3, 8}}

Nested ==
  {ListOf(T, n) : T \in Leaves, n \in BOOLEAN}
    \cup {MapOf(T, U, n) : T \in {Plain("string"), Timestamp("timestamp_nanos", "default"),
                                  Decimal(Absent, Absent)},
                           U \in Leaves, n \in BOOLEAN}
    \cup {StructOf(<<Col("a", T, n), Col(b, Plain("int32"), TRUE)>>) :
            T \in Leaves, n \in BOOLEAN, b \in {"a", "b"}}
    \cup {StructOf(<<>>)}

Deep ==
  {ListOf(T, FALSE) : T \in {ListOf(U, FALSE) : U \in Leaves}}
    \cup {MapOf(Plain("string"), T, TRUE) :
            T \in {ListOf(U, FALSE) : U \in Leaves}
                    \cup {StructOf(<<Col("a", U, FALSE)>>) : U \in Leaves}}
    \cup {ListOf(StructOf(<<Col("a", U, FALSE)>>), TRUE) : U \in Leaves}
    \cup {ListOf(StructOf(<<>>), TRUE)}

\* What can be said in the string of a type, ...
RECURSIVE Stringable(_)
Stringable(T) ==
  CASE T.is = "plain" -> TRUE
    [] T.is = "timestamp" -> T.zone = "default"
    [] T.is = "decimal" -> T.precision # Absent /\ T.scale # Absent
    [] T.is = "list" -> T.nullable /\ Stringable(T.item)
    [] T.is = "map" -> /\ T.nullable
                       /\ {T.key.is, T.value.is} \subseteq {"plain", "timestamp"}
                       /\ Stringable(T.key) /\ Stringable(T.value)
    [] OTHER -> FALSE

\* ... and as an item, a key or a value in the DSL.
RECURSIVE Callable(_)
Item(T) ==
  CASE T.is = "timestamp" -> T.zone = "default"
    [] T.is \in {"uuid", "map"} -> FALSE
    [] T.is \in {"list", "struct"} -> Callable(T)
    [] OTHER -> TRUE

Callable(T) ==
  CASE T.is = "list" -> IF T.item.is = "list" THEN Callable(T.item) ELSE Item(T.item)
    [] T.is = "map" -> Item(T.key) /\ Item(T.value)
    [] T.is = "struct" -> \A i \in DOMAIN T.fields : Callable(T.fields[i].type)
    [] OTHER -> TRUE

Sayable(form, columns) ==
  \A i \in DOMAIN columns :
    CASE form \in {"legacy", "string", "mixed"} ->
           columns[i].nullable /\ Stringable(columns[i].type)
      [] form = "dsl" -> Callable(columns[i].type)
      [] OTHER -> TRUE

ColumnLists ==
  {<<Col("a", T, n)>> : T \in Leaves \cup Nested \cup Deep, n \in BOOLEAN}
    \cup {<<Col("a", T, TRUE), Col(b, Plain("int32"), TRUE)>> :
            T \in Leaves, b \in {"a", "b", "type"}}
    \cup {<<Col("a", Plain("string"), TRUE), Col("b", T, TRUE)>> : T \in Nested}
    \cup {<<Col("type", Plain("string"), TRUE), Col("b", Plain("int32"), TRUE)>>,
          <<Col("a", Plain("string"), TRUE), Col("b", Plain("int32"), TRUE),
            Col("c", Plain("int32"), TRUE)>>}

SchemaSessions(form) ==
  IF form = "none"
  THEN {[Session EXCEPT !.form = form, !.columns = <<>>,
           !.row = [i \in 1 .. n |-> [is |-> "nil"]]] : n \in 1 .. 3}
  ELSE {[Session EXCEPT !.form = form, !.columns = c] :
          c \in {l \in ColumnLists : Sayable(form, l)}}
----------------------------------------------------------------------------
TimeColumns ==
  {Timestamp("timestamp_second", "off"), Timestamp("timestamp_millis", "on"),
   Timestamp("timestamp_micros", "legacy"), Timestamp("timestamp_nanos", "on"),
   Timestamp("timestamp_nanos", "off"), Plain("time_millis"), Plain("time_micros"),
   Plain("time_nanos"), Plain("date"), Plain("date64"), Plain("string")}

MCTimes == {[secs |-> s, nsec |-> n] : s \in {-5, -4, -1, 0, 3, 5, 9}, n \in {0, 1, 5, 7}}

MCZones == {UTC, [utc |-> FALSE, offset |-> 0], [utc |-> FALSE, offset |-> -3],
            [utc |-> FALSE, offset |-> 1]}

Time(object, frozen) == [is |-> "time", object |-> object, frozen |-> frozen]

String(day, t) == [is |-> "string", day |-> day, time |-> t]

Pair(T, U) == <<Col("a", T, TRUE), Col("b", U, TRUE)>>

\* The same Time in both columns, another one in the second, and strings.
TimeSessions(T) ==
  {[Session EXCEPT !.columns = Pair(T, U), !.times = <<t>>, !.zones = <<z>>,
      !.row = <<Time(1, frozen), Time(1, frozen)>>] :
     U \in TimeColumns,
     t \in MCTimes, z \in MCZones, frozen \in BOOLEAN}
    \cup {[Session EXCEPT !.columns = Pair(T, U), !.times = <<t, t>>,
             !.zones = <<z, z>>, !.row = <<Time(1, FALSE), Time(2, FALSE)>>] :
            U \in TimeColumns, z \in MCZones, t \in {[secs |-> -1, nsec |-> 5]}}
    \cup {[Session EXCEPT !.columns = <<Col("a", T, TRUE)>>,
             !.row = <<String(d, t)>>] :
            t \in MCTimes, d \in -2 .. 2}
    \cup {[Session EXCEPT !.columns = <<Col("a", T, TRUE)>>, !.row = <<[is |-> c]>>] :
            c \in {"nil", "other"}}
----------------------------------------------------------------------------
Text(of, symbol) == [is |-> "key", of |-> of, symbol |-> symbol]
Array(items) == [is |-> "array", items |-> items]
Hash(pairs) == [is |-> "hash", pairs |-> pairs]
NilCell == [is |-> "nil"]

Zoned_ == Timestamp("timestamp_second", "on")
Local == Timestamp("timestamp_micros", "off")

NestedColumns ==
  {ListOf(Zoned_, FALSE), ListOf(ListOf(Local, TRUE), TRUE),
   MapOf(Plain("string"), Zoned_, TRUE), MapOf(Local, Plain("string"), FALSE),
   MapOf(Zoned_, Plain("string"), TRUE),
   StructOf(<<Col("a", Zoned_, FALSE), Col("b", ListOf(Local, TRUE), TRUE)>>),
   ListOf(StructOf(<<Col("a", Zoned_, TRUE), Col("b", Plain("string"), TRUE)>>), TRUE)}

\* Hashes have no key twice, as Time objects of one instant would be.
Hashes(keys, cells) ==
  {Hash(<<>>)}
    \cup {Hash(<< <<k, v>> >>) : k \in keys, v \in cells}
    \cup {Hash(<< <<k, v>>, <<l, w>> >>) :
            <<k, l>> \in {p \in keys \X keys : p[1] # p[2]}, v \in cells, w \in cells}

Arrays(cells) == UNION {{Array(s) : s \in [1 .. n -> cells]} : n \in 0 .. 2}

Fields == {Text(n, sym) : n \in {"a", "b"}, sym \in BOOLEAN}

\* Cells of a type, and one that has another.
Cells(T) ==
  LET times == {Time(1, FALSE), Time(2, FALSE)}
      local == times \cup {NilCell}
  IN  {NilCell, Text("x", FALSE)} \cup
      CASE T.is = "list" /\ T.item.is = "timestamp" -> Arrays(local)
        [] T.is = "list" /\ T.item.is = "list" -> Arrays(Arrays(times) \cup {NilCell})
        [] T.is = "list" /\ T.item.is = "struct" ->
             Arrays(Hashes({Text("a", TRUE), Text("b", FALSE)}, {Time(1, FALSE), NilCell}))
        [] T.is = "map" /\ T.key.is = "plain" -> Hashes(Fields \cup {NilCell}, local)
        [] T.is = "map" /\ T.key.is # "plain" ->
             Hashes(times, {Text("x", FALSE), Text("y", TRUE), NilCell})
        [] T.is = "struct" -> Hashes(Fields, local \cup {Array(<<Time(2, FALSE)>>)})

\* With the first of the times also as a time of day.
NestedSessions(T) ==
  {[Session EXCEPT !.columns = Pair(T, Plain("time_micros")),
      !.times = <<t, [secs |-> -4, nsec |-> 0]>>,
      !.zones = <<[utc |-> FALSE, offset |-> -3], UTC>>,
      !.row = <<cell, Time(1, FALSE)>>] :
     cell \in Cells(T), t \in {[secs |-> -4, nsec |-> 5], [secs |-> -1, nsec |-> 7]}}
----------------------------------------------------------------------------
Integers_ == {<<>>, <<0>>, <<1>>, <<9>>, <<1, 0>>, <<9, 9>>, <<1, 2, 7>>, <<1, 2, 8>>, <<1, 2, 9>>}
Fractions == UNION {[1 .. n -> {0, 9}] : n \in 0 .. 4}

DecimalColumns ==
  {Decimal(1, 0), Decimal(2, 0), Decimal(2, 1), Decimal(2, 2), Decimal(3, 1), Decimal(3, 0),
   Decimal(4, 1), Decimal(4, 3)}

DecimalSessions(T) ==
  {[Session EXCEPT !.columns = <<Col("a", T, TRUE)>>,
      !.row = <<[is |-> "number",
                 text |-> [negative |-> neg, int |-> i, frac |-> f,
                           scientific |-> sci]]>>] :
     neg \in BOOLEAN, sci \in BOOLEAN, i \in Integers_, f \in Fractions}
----------------------------------------------------------------------------
Options(key, values) == {<<>>} \cup {key :> v : v \in values}

Storages ==
  {[name |-> m] : m \in {"copy", "intern", "shared", "bogus"}}
    \cup {[hash |-> (<<kind, "mode">> :> m) @@ e @@ b] :
            kind \in {"symbol", "string"}, m \in {Nil, "copy", "shared"},
            e \in Options(<<"symbol", "max_entries">>, {Nil, 0, 1, 2})
                    \cup {<<"string", "max_entries">> :> 1},
            b \in Options(<<"symbol", "max_value_bytes">>, {Nil, 1, 3})}
    \cup {[hash |-> <<"symbol", "mode">> :> "shared" @@ <<"symbol", "bogus">> :> 1]}

Read(method, block, kwargs) ==
  [Session EXCEPT !.method = method, !.block = block, !.kwargs = kwargs]

\* Every storage with few other arguments, and every other argument with few.
ReadSessions(m) ==
  {Read(m, b, ("string_storage" :> g) @@ s) :
     b \in BOOLEAN, g \in Storages, s \in Options("strict", {FALSE})}
    \cup {Read(m, b, t @@ c @@ n @@ s @@ g @@ l) :
            b \in BOOLEAN,
            t \in Options("result_type", {"array", "bogus"}),
            c \in Options("columns", {Nil, <<"a">>}),
            n \in Options("batch_size", {Nil, 0, 2}),
            s \in Options("strict", {TRUE, FALSE}),
            g \in Options("string_storage", {[name |-> "intern"]}),
            l \in Options("logger", {"logger"})}

\* Strings in date columns only.
DateSessions ==
  {[Session EXCEPT !.columns = <<Col("a", Plain("date"), TRUE)>>,
      !.row = <<String(d, [secs |-> 0, nsec |-> 0])>>] : d \in -30 .. 30}

Topic(about, of) == [about |-> about, of |-> of]

MCTopics ==
  {Topic("schemas", Plain(f)) : f \in {"array", "string", "legacy", "mixed", "fields", "struct",
                                "dsl", "none"}}
    \cup {Topic("times", T) : T \in TimeColumns}
    \cup {Topic("nested", T) : T \in NestedColumns}
    \cup {Topic("decimals", T) : T \in DecimalColumns}
    \cup {Topic("reads", Plain(m)) : m \in {"each_row", "each_column"}}

MCSessions(topic) ==
  CASE topic.about = "schemas"  -> SchemaSessions(topic.of.of)
    [] topic.about = "times"    -> TimeSessions(topic.of)
    [] topic.about = "nested"   -> NestedSessions(topic.of)
    [] topic.about = "decimals" -> DecimalSessions(topic.of)
    [] topic.about = "reads"    -> ReadSessions(topic.of.of)
    [] topic.about = "dates"    -> DateSessions

MCDates == {Topic("dates", Plain("date"))}
============================================================================
