------------------------------ MODULE ValueRules ------------------------------
(***************************************************************************)
(* The rules of parquet-core for values: which ones the writer accepts for *)
(* a field (validate_value_against_field), which ones it can turn into an  *)
(* Arrow array (parquet_value_refs_to_arrow_array) and what reading that   *)
(* array returns (arrow_to_parquet_value).  The three are written one      *)
(* after the other over types and values that nest; a column of the writer *)
(* runs a value through all three.                                         *)
(*                                                                         *)
(* The functions of the code call themselves for the parts of a type.      *)
(* Here each is an operator for one level of nesting, whose first argument *)
(* is the function for what is below, and a function of the number of      *)
(* levels that ties it: a leaf is one level, and no level is nothing.      *)
(*                                                                         *)
(* A value is a record tagged "is"; a field is [name, type, nullable,      *)
(* extension].  An array is [valid, ...]: "data" for a leaf, "offsets" and *)
(* "child" for a list, "offsets", "keys" and "vals" for a map, "columns"   *)
(* for a struct.  An operator that may fail returns a set: its result, or  *)
(* {} for an error.                                                        *)
(***************************************************************************)
EXTENDS Naturals, Sequences, FiniteSets, SequencesExt

CONSTANTS
  Columns,     \* [node, values]: a schema node and the values offered to it
  MaxColumn,   \* bound: values buffered before a flush
  Depth,       \* bound: levels of nesting of types and values
  Names,       \* the names of fields
  Primitives,  \* the PrimitiveTypes of schemas
  Atoms        \* the values that hold no others, Null apart

VARIABLES
  source,   \* the member of Columns this behaviour is about
  column,   \* the column of buffered_columns
  outcome,  \* what the last call returned
  batch     \* the batch written by the last call: buffered values, values read

vars == <<source, column, outcome, batch>>

Null == [is |-> "Null"]

\* What looking up a field that a record does not have returns.
Missing == [is |-> "Missing"]

NoBatch == [values |-> <<>>, read |-> <<>>]
----------------------------------------------------------------------------
(* Schemas: validate_schema_node and schema_node_to_arrow_field. *)

Levels == 0 .. Depth

PrimitiveTypes ==
  {"Boolean", "Int8", "Int16", "Int32", "Int64", "UInt8", "UInt16", "UInt32", "UInt64",
   "Float32", "Float64", "String", "Binary", "Date32", "Date64",
   "TimeMillis", "TimeMicros", "TimeNanos", "TimestampSecond", "TimestampMillis",
   "TimestampMicros", "TimestampNanos", "Decimal128", "Decimal256", "FixedLenByteArray"}

validate_primitive_type(p, format) ==
  /\ p.prim = "Decimal128" => p.precision \in 1 .. 38 /\ p.scale \in 0 .. p.precision
  /\ p.prim = "Decimal256" => p.precision \in 1 .. 76 /\ p.scale \in 0 .. p.precision
  /\ p.prim = "FixedLenByteArray" => p.size > 0
  /\ format = "uuid" => \/ p.prim \in {"Decimal128", "Decimal256"}
                        \/ p.prim = "FixedLenByteArray" /\ p.size = 16

Leaf == [node : {"Primitive"}, name : Names, of : Primitives, nullable : BOOLEAN,
         format : {"", "uuid"}]

UniqueNames(fields) ==
  \A i, j \in DOMAIN fields : fields[i].name = fields[j].name => i = j

\* The nodes that validate_schema_node accepts, given those below.
validate_schema_node(below) ==
  {leaf \in Leaf : validate_primitive_type(leaf.of, leaf.format)}
  \cup [node : {"List"}, name : Names, item : below, nullable : BOOLEAN]
  \cup [node : {"Map"}, name : Names, key : {k \in below : ~k.nullable}, value : below,
        nullable : BOOLEAN]
  \cup [node : {"Struct"}, name : Names, nullable : BOOLEAN,
        fields : {s \in Seq(below) : s # <<>> /\ UniqueNames(s)}]

Nodes[d \in Levels] == IF d = 0 THEN {} ELSE validate_schema_node(Nodes[d - 1])

\* "No timezone" is ""; any other one is stored as UTC.
UTC(tz) == IF tz = "" THEN "" ELSE "UTC"

Timestamps ==
  [TimestampSecond |-> "s", TimestampMillis |-> "ms",
   TimestampMicros |-> "us", TimestampNanos |-> "ns"]

primitive_type_to_arrow(p) ==
  CASE p.prim = "String"            -> [type |-> "Utf8"]
    [] p.prim = "FixedLenByteArray" -> [type |-> "FixedSizeBinary", size |-> p.size]
    [] p.prim = "TimeMillis"        -> [type |-> "Time32", unit |-> "ms"]
    [] p.prim = "TimeMicros"        -> [type |-> "Time64", unit |-> "us"]
    [] p.prim = "TimeNanos"         -> [type |-> "Time64", unit |-> "ns"]
    [] p.prim \in {"Decimal128", "Decimal256"} ->
         [type |-> p.prim, precision |-> p.precision, scale |-> p.scale]
    [] p.prim \in DOMAIN Timestamps ->
         [type |-> "Timestamp", unit |-> Timestamps[p.prim], tz |-> UTC(p.tz)]
    [] OTHER -> [type |-> p.prim]

Field(name, type, nullable, extension) ==
  [name |-> name, type |-> type, nullable |-> nullable, extension |-> extension]

\* A list item and the entries of a map are fields made anew: they keep the
\* type and lose the extension, and a key is never nullable.
schema_node_to_arrow_field(below, node) ==
  CASE node.node = "Primitive" ->
         Field(node.name, primitive_type_to_arrow(node.of), node.nullable,
               IF node.format = "uuid" THEN "uuid" ELSE "none")
    [] node.node = "List" ->
         LET item == below[node.item]
         IN  Field(node.name,
                   [type |-> "List",
                    item |-> Field("item", item.type, item.nullable, "none")],
                   node.nullable, "none")
    [] node.node = "Map" ->
         LET key   == below[node.key]
             value == below[node.value]
         IN  Field(node.name,
                   [type  |-> "Map",
                    key   |-> Field(key.name, key.type, FALSE, "none"),
                    value |-> Field(value.name, value.type, value.nullable, "none")],
                   node.nullable, "none")
    [] node.node = "Struct" ->
         Field(node.name,
               [type   |-> "Struct",
                fields |-> [i \in DOMAIN node.fields |-> below[node.fields[i]]]],
               node.nullable, "none")

FieldOf[d \in Levels] ==
  [node \in Nodes[d] |-> schema_node_to_arrow_field(FieldOf[d - 1], node)]

FieldNames == Names \cup {"item"}

LeafTypes == {primitive_type_to_arrow(p) : p \in Primitives}

\* The types and fields that may come of it.
TypesOver(below) ==
  LeafTypes
  \cup [type : {"List"}, item : below]
  \cup [type : {"Map"}, key : below, value : below]
  \cup [type : {"Struct"}, fields : Seq(below)]

FieldsOver(below) ==
  [name : FieldNames, type : TypesOver(below), nullable : BOOLEAN,
   extension : {"none", "uuid"}]

Fields[d \in Levels] == IF d = 0 THEN {} ELSE FieldsOver(Fields[d - 1])
----------------------------------------------------------------------------
(* What write_row accepts. *)

\* A record has any fields, whatever its schema names.
ValuesOver(below) ==
  {Null} \cup Atoms
  \cup [is : {"List"}, items : Seq(below)]
  \cup [is : {"Map"}, entries : Seq(below \X below)]
  \cup [is : {"Record"}, fields : [FieldNames -> below \cup {Missing}]]

Values[d \in Levels] == IF d = 0 THEN {} ELSE ValuesOver(Values[d - 1])

\* The decimal digits of a magnitude, one for zero.
digit_count(n) == CHOOSE k \in 1 .. 39 : n < 10 ^ k /\ (k = 1 \/ n >= 10 ^ (k - 1))

\* The value that goes by the name of the type, for types without parameters.
ValueOf(type) ==
  CASE type = "Utf8" -> "String" [] type = "Binary" -> "Bytes" [] OTHER -> type

FitsDecimal(v, t) ==
  v.is = t.type /\ v.scale = t.scale /\ digit_count(v.of) <= t.precision

FitsBinary(v, t) == v.is = "Bytes" /\ v.len = t.size

\* The slip the code's own comment warns of: any length is taken for a fixed one.
LeafRule_any_length(v, t) ==
  CASE t.type = "FixedSizeBinary" -> v.is = "Bytes"
    [] t.type \in {"Decimal128", "Decimal256"} -> FitsDecimal(v, t)
    [] t.type = "Time32" -> v.is = "TimeMillis"
    [] t.type = "Time64" -> v.is \in {"TimeMicros", "TimeNanos"}
    [] t.type = "Timestamp" -> v.is \in DOMAIN Timestamps
    [] OTHER -> v.is = ValueOf(t.type)

\* Times and timestamps of any unit are accepted for the types that have one.
LeafRule(v, t) ==
  CASE t.type = "FixedSizeBinary" -> FitsBinary(v, t)
    [] t.type \in {"Decimal128", "Decimal256"} -> FitsDecimal(v, t)
    [] t.type = "Time32" -> v.is = "TimeMillis"
    [] t.type = "Time64" -> v.is \in {"TimeMicros", "TimeNanos"}
    [] t.type = "Timestamp" -> v.is \in DOMAIN Timestamps
    [] OTHER -> v.is = ValueOf(t.type)

\* A slip: what a missing struct field must be is not asked.
Absent_ok(f) == TRUE

\* A field that a record does not have.
Absent(f) == f.nullable

validate_value_against_field(below, v, f) ==
  LET t == f.type
  IN CASE v.is = "Null" -> f.nullable
       [] v.is # "Null" /\ t.type = "List" ->
            /\ v.is = "List"
            /\ \A i \in DOMAIN v.items : below[<<v.items[i], t.item>>]
       [] v.is # "Null" /\ t.type = "Map" ->
            /\ v.is = "Map"
            /\ \A i \in DOMAIN v.entries :
                 below[<<v.entries[i][1], t.key>>] /\ below[<<v.entries[i][2], t.value>>]
       [] v.is # "Null" /\ t.type = "Struct" ->
            /\ v.is = "Record"
            /\ \A i \in DOMAIN t.fields :
                 LET g == t.fields[i]
                 IN  IF v.fields[g.name] # Missing
                     THEN below[<<v.fields[g.name], g>>]
                     ELSE Absent(g)
       [] OTHER -> LeafRule(v, t)

Accepts[d \in Levels] ==
  [p \in Values[d] \X Fields[d] |->
     validate_value_against_field(Accepts[d - 1], p[1], p[2])]
----------------------------------------------------------------------------
(* The arrays a flush builds. *)

\* Narrower integers and floats are widened.
Narrower ==
  [Int16  |-> {"Int8"},  Int32  |-> {"Int8", "Int16"},
   Int64  |-> {"Int8", "Int16", "Int32"},
   UInt16 |-> {"UInt8"}, UInt32 |-> {"UInt8", "UInt16"},
   UInt64 |-> {"UInt8", "UInt16", "UInt32"},
   Float32 |-> {"Float16"}, Float64 |-> {"Float16", "Float32"}]

\* Only these units have a builder.
Times == [Time32 |-> [ms |-> "TimeMillis"],
          Time64 |-> [us |-> "TimeMicros", ns |-> "TimeNanos"]]

Widened(v, t) ==
  IF t.type \in DOMAIN Narrower /\ v.is \in Narrower[t.type]
  THEN [v EXCEPT !.is = t.type]
  ELSE v

Builds(v, t) ==
  CASE t.type = "FixedSizeBinary" -> FitsBinary(v, t)
    [] t.type \in {"Decimal128", "Decimal256"} -> FitsDecimal(v, t)
    [] t.type \in DOMAIN Times ->
         t.unit \in DOMAIN Times[t.type] /\ v.is = Times[t.type][t.unit]
    [] t.type = "Timestamp" -> v.is \in DOMAIN Timestamps /\ Timestamps[v.is] = t.unit
    [] OTHER -> \/ v.is = ValueOf(t.type)
                \/ t.type \in DOMAIN Narrower /\ v.is \in Narrower[t.type]

\* The null mask of an array.
NotNull(values) == [i \in DOMAIN values |-> values[i].is # "Null"]

Are(values, tag) == \A i \in DOMAIN values : values[i].is \in {tag, "Null"}

\* A slip: the builder is chosen by the first value of the column.
build_leaf_array_by_first(values, t) ==
  LET some == SelectSeq(values, LAMBDA v : v.is # "Null")
  IN  IF \A i \in DOMAIN some : LeafRule(some[i], t) /\ some[i].is = some[1].is
      THEN {[valid |-> NotNull(values),
             data  |-> [i \in DOMAIN values |-> Widened(values[i], t)]]}
      ELSE {}

build_leaf_array(values, t) ==
  IF \A i \in DOMAIN values : values[i].is = "Null" \/ Builds(values[i], t)
  THEN {[valid |-> NotNull(values),
         data  |-> [i \in DOMAIN values |-> Widened(values[i], t)]]}
  ELSE {}

\* A slip: the offset is pushed before the items are.
Offsets_early(items) ==
  [i \in 1 .. Len(items) + 1 |-> Len(FlattenSeq(SubSeq(items, 1, i - 2)))]

\* Where the items of each value start in the child array, and where the last
\* one's end: how many were flattened before.
Offsets(items) ==
  [i \in 1 .. Len(items) + 1 |-> Len(FlattenSeq(SubSeq(items, 1, i - 1)))]

\* A null list or map has no items.
ItemsOf(v) == IF v.is = "Null" THEN <<>> ELSE v.items
EntriesOf(v) == IF v.is = "Null" THEN <<>> ELSE v.entries

\* The column of a struct's field: null where the struct is null or lacks it.
ChildColumn(values, name) ==
  [i \in DOMAIN values |->
     IF values[i].is # "Null" /\ values[i].fields[name] # Missing
     THEN values[i].fields[name]
     ELSE Null]

build_list_array(below, values, t) ==
  LET items == [i \in DOMAIN values |-> ItemsOf(values[i])]
  IN  {[valid |-> NotNull(values), offsets |-> Offsets(items), child |-> child] :
         child \in below[<<FlattenSeq(items), t.item>>]}

\* The keys, or the values, of the entries of a column.
Side(pairs, k) == [i \in DOMAIN pairs |-> pairs[i][k]]

build_map_array(below, values, t) ==
  LET entries == [i \in DOMAIN values |-> EntriesOf(values[i])]
      pairs   == FlattenSeq(entries)
  IN  {[valid |-> NotNull(values), offsets |-> Offsets(entries),
        keys |-> keys, vals |-> vals] :
         keys \in below[<<Side(pairs, 1), t.key>>], vals \in below[<<Side(pairs, 2), t.value>>]}

build_struct_array(below, values, t) ==
  LET built == [i \in DOMAIN t.fields |->
                  below[<<ChildColumn(values, t.fields[i].name), t.fields[i]>>]]
  IN  IF \A i \in DOMAIN built : built[i] # {}
      THEN {[valid |-> NotNull(values),
             columns |-> [i \in DOMAIN built |-> CHOOSE a \in built[i] : TRUE]]}
      ELSE {}

parquet_values_to_arrow_array(below, values, f) ==
  LET t == f.type
  IN CASE t.type = "List" ->
            IF Are(values, "List") THEN build_list_array(below, values, t) ELSE {}
       [] t.type = "Map" ->
            IF Are(values, "Map") THEN build_map_array(below, values, t) ELSE {}
       [] t.type = "Struct" ->
            IF Are(values, "Record") THEN build_struct_array(below, values, t) ELSE {}
       [] OTHER -> build_leaf_array(values, t)

Built[d \in Levels] ==
  [p \in Seq(Values[d]) \X Fields[d] |->
     parquet_values_to_arrow_array(Built[d - 1], p[1], p[2])]

\* What the data of a leaf may be: atoms, which may have been widened.
Slots ==
  {Null} \cup Atoms \cup {[a EXCEPT !.is = w] : a \in Atoms, w \in DOMAIN Narrower}

ArraysOver(below) ==
  [valid : Seq(BOOLEAN), data : Seq(Slots)]
  \cup [valid : Seq(BOOLEAN), offsets : Seq(Nat), child : below]
  \cup [valid : Seq(BOOLEAN), offsets : Seq(Nat), keys : below, vals : below]
  \cup [valid : Seq(BOOLEAN), columns : Seq(below)]

Arrays[d \in Levels] == IF d = 0 THEN {} ELSE ArraysOver(Arrays[d - 1])
----------------------------------------------------------------------------
(* Reading: arrow_to_parquet_value. *)

\* A leaf, by the type of the array alone; the extension tells a uuid.
LeafRead(v, f) ==
  CASE f.type.type = "Timestamp" -> [v EXCEPT !.tz = f.type.tz]
    [] f.type.type = "FixedSizeBinary" /\ f.extension = "uuid" -> [v EXCEPT !.is = "Uuid"]
    [] OTHER -> v

\* Whether and which of a struct's fields has a name.
Has(fields, name) == \E i \in DOMAIN fields : fields[i].name = name
At(fields, name) == CHOOSE i \in DOMAIN fields : fields[i].name = name

arrow_to_parquet_value(below, f, array, index) ==
  LET t      == f.type
      Nth(i) == array.offsets[index] + i
      Length == array.offsets[index + 1] - array.offsets[index]
  IN CASE ~array.valid[index] -> Null
       [] array.valid[index] /\ t.type = "List" ->
            [is |-> "List",
             items |-> [i \in 1 .. Length |-> below[<<t.item, array.child, Nth(i)>>]]]
       [] array.valid[index] /\ t.type = "Map" ->
            [is |-> "Map",
             entries |-> [i \in 1 .. Length |->
                            <<below[<<t.key, array.keys, Nth(i)>>],
                              below[<<t.value, array.vals, Nth(i)>>]>>]]
       [] array.valid[index] /\ t.type = "Struct" ->
            [is |-> "Record",
             fields |-> [name \in FieldNames |->
                           LET c == At(t.fields, name)
                           IN  IF Has(t.fields, name)
                               THEN below[<<t.fields[c], array.columns[c], index>>]
                               ELSE Missing]]
       [] OTHER -> LeafRead(array.data[index], f)

ReadBack[d \in Levels] ==
  [p \in Fields[d] \X Arrays[d] \X Nat |->
     arrow_to_parquet_value(ReadBack[d - 1], p[1], p[2], p[3])]
----------------------------------------------------------------------------
\* Schemas and values nest no deeper than Depth; the rest is what the tags and
\* the types of values say.
ASSUME ColumnsAssumption ==
  /\ Depth \in Nat /\ MaxColumn \in Nat
  /\ \A p \in Primitives : p.prim \in PrimitiveTypes
  /\ \A a \in Atoms : /\ a.is \notin {"Null", "List", "Map", "Record"}
                      /\ a.is \in DOMAIN Timestamps => "tz" \in DOMAIN a
  /\ Columns \subseteq [node : Nodes[Depth], values : SUBSET Values[Depth]]

field == FieldOf[Depth][source.node]

Init ==
  /\ source \in Columns
  /\ column = <<>>
  /\ outcome = "ok"
  /\ batch = NoBatch

\* write_row: the value is validated, then buffered or rejected.
Offer(v) ==
  /\ Len(column) < MaxColumn
  /\ batch' = NoBatch
  /\ IF Accepts[Depth][<<v, field>>]
     THEN column' = Append(column, v) /\ outcome' = "ok"
     ELSE outcome' = "schema_error" /\ UNCHANGED column
  /\ UNCHANGED source

\* flush_buffered_rows: the column is built and cleared, or stays as it is; what
\* was written is read back.
Flush ==
  LET built == Built[Depth][<<column, field>>]
  IN  /\ column # <<>>
      /\ \/ \E array \in built :
              /\ batch' = [values |-> column,
                           read   |-> [i \in DOMAIN column |->
                                         ReadBack[Depth][<<field, array, i>>]]]
              /\ column' = <<>>
              /\ outcome' = "ok"
         \/ /\ built = {}
            /\ outcome' = "conversion_error"
            /\ batch' = NoBatch
            /\ UNCHANGED column
      /\ UNCHANGED source

Next == Flush \/ \E v \in source.values : Offer(v)

Spec == Init /\ [][Next]_vars
----------------------------------------------------------------------------
(* References for the properties: the leaves of a value with the fields they
   are for, and the value one expects to read. *)

Leaves(below, v, f) ==
  LET t == f.type
      Present == {i \in DOMAIN t.fields : v.fields[t.fields[i].name] # Missing}
  IN CASE v.is = "List" /\ t.type = "List" ->
            UNION {below[<<v.items[i], t.item>>] : i \in DOMAIN v.items}
       [] v.is = "Map" /\ t.type = "Map" ->
            UNION {below[<<v.entries[i][1], t.key>>] \cup below[<<v.entries[i][2], t.value>>] :
                     i \in DOMAIN v.entries}
       [] v.is = "Record" /\ t.type = "Struct" ->
            UNION {below[<<v.fields[t.fields[i].name], t.fields[i]>>] : i \in Present}
       [] OTHER -> {<<v, f>>}

LeavesOf[d \in Levels] ==
  [p \in Values[d] \X Fields[d] |-> Leaves(LeavesOf[d - 1], p[1], p[2])]

\* A record has the fields of the schema, absent ones null and no others.
Stored(below, v, f) ==
  LET t == f.type
  IN CASE v.is = "List" /\ t.type = "List" ->
            [is |-> "List", items |-> [i \in DOMAIN v.items |-> below[<<v.items[i], t.item>>]]]
       [] v.is = "Map" /\ t.type = "Map" ->
            [is |-> "Map", entries |-> [i \in DOMAIN v.entries |->
               <<below[<<v.entries[i][1], t.key>>], below[<<v.entries[i][2], t.value>>]>>]]
       [] v.is = "Record" /\ t.type = "Struct" ->
            [is |-> "Record",
             fields |-> [name \in FieldNames |->
                           CASE ~Has(t.fields, name) -> Missing
                             [] Has(t.fields, name) /\ v.fields[name] = Missing -> Null
                             [] OTHER -> below[<<v.fields[name], t.fields[At(t.fields, name)]>>]]]
       [] v.is = "Null" -> Null
       [] OTHER -> LeafRead(v, f)

StoredAs[d \in Levels] ==
  [p \in Values[d] \X Fields[d] |-> Stored(StoredAs[d - 1], p[1], p[2])]

\* A time or timestamp whose unit is not the field's.
WrongUnit(v, t) ==
  \/ t.type = "Time64" /\ v.is \in {"TimeMicros", "TimeNanos"}
       /\ v.is # Times.Time64[t.unit]
  \/ t.type = "Timestamp" /\ v.is \in DOMAIN Timestamps /\ Timestamps[v.is] # t.unit

\* The rules of Arrow's constructors, which panic otherwise: no null below a
\* field that is not nullable, except where its struct is null.
NullsAllowed(below, array, f) ==
  LET t == f.type
      NoNulls(a, g) == g.nullable \/ \A i \in DOMAIN a.valid : a.valid[i]
  IN CASE t.type = "List" -> NoNulls(array.child, t.item) /\ below[<<array.child, t.item>>]
       [] t.type = "Map" ->
            /\ NoNulls(array.keys, t.key) /\ below[<<array.keys, t.key>>]
            /\ NoNulls(array.vals, t.value) /\ below[<<array.vals, t.value>>]
       [] t.type = "Struct" ->
            \A c \in DOMAIN array.columns :
              /\ below[<<array.columns[c], t.fields[c]>>]
              /\ \/ t.fields[c].nullable
                 \/ \A i \in DOMAIN array.valid :
                      array.columns[c].valid[i] \/ ~array.valid[i]
       [] OTHER -> TRUE

Sound[d \in Levels] ==
  [p \in Arrays[d] \X Fields[d] |-> NullsAllowed(Sound[d - 1], p[1], p[2])]
----------------------------------------------------------------------------
(* Properties. *)

\* Two recursions written apart agree: a value that validation let into the
\* buffer can be built, unless it is of the wrong unit of time.
OnlyUnitsPoison ==
  outcome = "conversion_error" =>
    \E i \in DOMAIN column : \E leaf \in LeavesOf[Depth][<<column[i], field>>] :
      WrongUnit(leaf[1], leaf[2].type)

\* Whether a column can be built depends on each value alone, whatever else was
\* buffered with it: CoreWriter relies on it.
BuiltValueByValue ==
  Built[Depth][<<column, field>>] # {} <=>
    \A i \in DOMAIN column : Built[Depth][<<<<column[i]>>, field>>] # {}

\* Validation leaves Arrow no null to panic about, at any depth.
NullsAreMasked ==
  \A array \in Built[Depth][<<column, field>>] :
    /\ field.nullable \/ \A i \in DOMAIN array.valid : array.valid[i]
    /\ Sound[Depth][<<array, field>>]

\* What was accepted is what is read, value by value: the flattening of lists,
\* maps and structs into child arrays and offsets is undone.  A timestamp comes
\* back in UTC or without a zone, whatever zone its schema named.
RoundTrip ==
  /\ batch.read = [i \in DOMAIN batch.values |-> StoredAs[Depth][<<batch.values[i], field>>]]
  /\ \A i \in DOMAIN batch.values : \A leaf \in LeavesOf[Depth][<<batch.values[i], field>>] :
       leaf[1].is \in DOMAIN Timestamps => LeafRead(leaf[1], leaf[2]).tz \in {"", "UTC"}

\* What the comment in validate_value_against_field and the test
\* write_row_rejects_wrong_length_fixed_size_binary_without_poisoning promise of
\* fixed binaries, for every type: an accepted value never poisons a flush.
AcceptedValuesNeverPoison == outcome # "conversion_error"
============================================================================
