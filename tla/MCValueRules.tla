----------------------------- MODULE MCValueRules -----------------------------
(* Each kind of leaf, and lists, maps and structs of leaves and of each other,
   offered fitting and unfitting values. *)
EXTENDS ValueRules

Prim(name, of, nullable) ==
  [node |-> "Primitive", name |-> name, of |-> of, nullable |-> nullable, format |-> ""]
ListOf(item, nullable) ==
  [node |-> "List", name |-> "l", item |-> item, nullable |-> nullable]
MapOf(key, value, nullable) ==
  [node |-> "Map", name |-> "c", key |-> key, value |-> value, nullable |-> nullable]
StructOf(name, fields, nullable) ==
  [node |-> "Struct", name |-> name, fields |-> fields, nullable |-> nullable]

Int64 == [prim |-> "Int64"]
Uuid(name, nullable) == [Prim(name, [prim |-> "FixedLenByteArray", size |-> 16], nullable)
                           EXCEPT !.format = "uuid"]
Micros == [prim |-> "TimeMicros"]
Stamp == [prim |-> "TimestampMillis", tz |-> "+09:00"]

I64(n) == [is |-> "Int64", of |-> n]
Bytes(n) == [is |-> "Bytes", len |-> n, of |-> 0]
Dec(n, s) == [is |-> "Decimal128", of |-> n, scale |-> s]
List(s) == [is |-> "List", items |-> s]
Map(s) == [is |-> "Map", entries |-> s]
Record(r) ==
  [is |-> "Record",
   fields |-> [name \in FieldNames |-> IF name \in DOMAIN r THEN r[name] ELSE Missing]]

MCNames == {"a", "b", "c", "l", "s"}

MCPrimitives ==
  {Int64, [prim |-> "Boolean"], [prim |-> "String"], [prim |-> "Float64"],
   [prim |-> "FixedLenByteArray", size |-> 2], [prim |-> "FixedLenByteArray", size |-> 16],
   [prim |-> "TimeMillis"], Micros, [prim |-> "TimeNanos"], Stamp,
   [prim |-> "TimestampMicros", tz |-> ""],
   [prim |-> "Decimal128", precision |-> 1, scale |-> 1]}

\* Values of every kind a leaf may meet.
MCAtoms ==
  {I64(1), I64(2), I64(3), [is |-> "Int8", of |-> 1], [is |-> "String", of |-> 0],
   [is |-> "Boolean", of |-> 1], [is |-> "Float32", of |-> 1], [is |-> "Uuid", of |-> 0],
   Bytes(2), Bytes(16), Dec(0, 1), Dec(9, 1), Dec(10, 1), Dec(9, 0),
   [is |-> "TimeMillis", of |-> 1], [is |-> "TimeMicros", of |-> 1],
   [is |-> "TimeNanos", of |-> 1]}
  \cup {[is |-> unit, of |-> 1, tz |-> tz] :
          unit \in {"TimestampMillis", "TimestampMicros"}, tz \in {"", "+09:00"}}

LeafValues == {Null, List(<<>>)} \cup (MCAtoms \ {I64(2), I64(3)})

Leafs ==
  {Prim("c", of, TRUE) : of \in {p \in MCPrimitives : p.prim # "FixedLenByteArray" \/ p.size = 2}}
  \cup {Prim("c", Int64, FALSE), Uuid("c", FALSE)}

Ints == {Null, I64(1), I64(2)}
Times2 == {[is |-> "TimeMicros", of |-> 1], [is |-> "TimeNanos", of |-> 1]}
NoFields == [name \in {} |-> Null]

Lists(S) == {Null} \cup {List(s) : s \in SeqOf(S, 2)}
Maps(K, V) == {Null} \cup {Map(s) : s \in SeqOf(K \X V, 2)}
Records(S, T) ==
  {Null} \cup {Record(r) : r \in UNION {
     {NoFields}, {[a |-> v] : v \in S}, {[b |-> w] : w \in T},
     {[a |-> v, b |-> w] : v \in S, w \in T}, {[a |-> v, c |-> I64(3)] : v \in S}}}

IntField(name, nullable) == Prim(name, Int64, nullable)
Pair(nullable) ==
  StructOf("s", <<IntField("a", FALSE), IntField("b", TRUE)>>, nullable)
Small == {Null, Record([a |-> I64(1)]), Record([b |-> I64(2)])}

Nested ==
  {[node |-> ListOf(IntField("a", b), c), values |-> Lists(Ints)] : b, c \in BOOLEAN}
  \cup {[node |-> ListOf(ListOf(Prim("a", Micros, TRUE), TRUE), TRUE),
         values |-> Lists({Null, List(<<>>)} \cup {List(<<t>>) : t \in Times2})],
        [node |-> ListOf(Uuid("a", TRUE), TRUE), values |-> Lists({Bytes(2), Bytes(16)})],
        [node |-> ListOf(Pair(TRUE), TRUE), values |-> Lists(Small)],
        [node |-> MapOf(IntField("a", FALSE), IntField("b", TRUE), TRUE),
         values |-> Maps({Null, I64(1)}, {Null, I64(2)})],
        [node |-> MapOf(IntField("a", FALSE), Pair(TRUE), FALSE),
         values |-> Maps({I64(1)}, Small)],
        [node |-> Pair(TRUE), values |-> Records(Ints, Ints)],
        [node |-> StructOf("c", <<Pair(TRUE), ListOf(IntField("a", FALSE), TRUE)>>, TRUE),
         values |-> {Null, Record(NoFields)}
           \cup {Record([s |-> v]) : v \in Small} \cup {Record([l |-> v]) : v \in Lists({I64(1)})}]}

MCColumns == {[node |-> n, values |-> LeafValues] : n \in Leafs} \cup Nested
============================================================================
