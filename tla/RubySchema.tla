------------------------------ MODULE RubySchema ------------------------------
(***************************************************************************)
(* The forms in which a schema can be written, and what they are parsed    *)
(* to: ext/parquet-ruby-adapter/src/schema.rs, the DSL of                  *)
(* lib/parquet/schema.rb, and the checks of ext/parquet-core/src/schema.rs. *)
(*                                                                         *)
(* A type name is a record tagged "is": a "name", the string of a "list"   *)
(* or a "map" of types, or of a "decimal" with its parameters; symbol      *)
(* tells a Symbol from a String.  A Ruby hash with symbol keys is a record *)
(* of those it has; one with string keys, the legacy form of a field, is   *)
(* [pairs |-> sequence of <<key, type>>].  An operator that may fail       *)
(* returns a set: its result, or {} for an error.                          *)
(***************************************************************************)
EXTENDS Integers, FiniteSets, SequencesExt

CONSTANTS
  Absent,                     \* a precision or scale that is not given
  DECIMAL128_MAX_PRECISION,   \* 38 in the code, also its default precision
  DECIMAL256_MAX_PRECISION,   \* 76
  U8_MAX, I8_MAX              \* 255 and 127

ASSUME SchemaAssumption ==
  /\ {DECIMAL128_MAX_PRECISION, DECIMAL256_MAX_PRECISION, U8_MAX, I8_MAX}
       \subseteq Nat \ {0}
  /\ DECIMAL128_MAX_PRECISION < DECIMAL256_MAX_PRECISION
  /\ DECIMAL256_MAX_PRECISION < U8_MAX

Key(hash, key, default) == IF key \in DOMAIN hash THEN hash[key] ELSE default

\* All results, or an error if one fails.
All(results) ==
  IF \E i \in DOMAIN results : results[i] = {} THEN {}
  ELSE {[i \in DOMAIN results |-> CHOOSE r \in results[i] : TRUE]}
----------------------------------------------------------------------------
(* Types: parse_primitive_type. *)

PlainTypes ==
  [bool |-> "Boolean", int32 |-> "Int32", uint64 |-> "UInt64", float |-> "Float32",
   double |-> "Float64", string |-> "String", binary |-> "Binary",
   date |-> "Date32", date32 |-> "Date32", date64 |-> "Date64",
   time_millis |-> "TimeMillis", time_micros |-> "TimeMicros",
   time_nanos |-> "TimeNanos"]

TimestampTypes ==
  [timestamp |-> "TimestampMillis", timestamp_second |-> "TimestampSecond",
   timestamp_millis |-> "TimestampMillis", timestamp_micros |-> "TimestampMicros",
   timestamp_nanos |-> "TimestampNanos"]

DecimalType(p, s) ==
  [prim |-> IF p <= DECIMAL128_MAX_PRECISION THEN "Decimal128" ELSE "Decimal256",
   precision |-> p, scale |-> s]

Or(number, default) == IF number = Absent THEN default ELSE number

\* What is no u8 or no i8 counts as not given in a hash; in the string
\* "decimal(p,s)" it is refused.
U8(n) == IF n = Absent \/ n \notin 0 .. U8_MAX THEN Absent ELSE n
I8(n) == IF n = Absent \/ n \notin -I8_MAX - 1 .. I8_MAX THEN Absent ELSE n

\* "" is no timezone.
parse_primitive_type(t, precision, scale, timezone) ==
  LET Default == Or(precision, DECIMAL128_MAX_PRECISION)
  IN CASE t.is = "decimal" ->
            {DecimalType(p, s) : p \in {t.precision} \cap 0 .. U8_MAX,
                                 s \in {t.scale} \cap -I8_MAX - 1 .. I8_MAX}
       [] t.is = "name" /\ t.of \in DOMAIN PlainTypes -> {[prim |-> PlainTypes[t.of]]}
       [] t.is = "name" /\ t.of \in DOMAIN TimestampTypes ->
            {[prim |-> TimestampTypes[t.of], tz |-> timezone]}
       [] t.is = "name" /\ t.of = "decimal" -> {DecimalType(Default, Or(scale, 0))}
       [] t.is = "name" /\ t.of = "decimal128" ->
            {[prim |-> "Decimal128", precision |-> Default, scale |-> Or(scale, 0)]}
       [] t.is = "name" /\ t.of = "decimal256" ->
            {[prim |-> "Decimal256", scale |-> Or(scale, 0),
              precision |-> Or(precision, DECIMAL256_MAX_PRECISION)]}
       [] OTHER -> {}

Primitive(name, prim, nullable, format) ==
  [node |-> "Primitive", name |-> name, of |-> prim, nullable |-> nullable,
   format |-> format]

ItemName(name) == name \o "_item"

\* "list<...>" and "map<...>", of types without parameters.
RECURSIVE parse_complex_type_string(_, _, _)
parse_complex_type_string(name, t, nullable) ==
  LET Leaf(n, of, null) ==
        {Primitive(n, p, null, "none") :
           p \in parse_primitive_type(of, Absent, Absent, "")}
  IN IF t.is = "list"
     THEN {[node |-> "List", name |-> name, nullable |-> nullable, item |-> item] :
             item \in IF t.item.is \in {"list", "map"}
                      THEN parse_complex_type_string(ItemName(name), t.item, TRUE)
                      ELSE Leaf(ItemName(name), t.item, TRUE)}
     ELSE IF {t.key.is, t.value.is} # {"name"} THEN {}
     ELSE {[node |-> "Map", name |-> name, nullable |-> nullable,
            key |-> key, value |-> value] :
             key \in Leaf("key", t.key, FALSE), value \in Leaf("value", t.value, TRUE)}
----------------------------------------------------------------------------
(* Hashes: parse_hash_schema_node. *)

\* has_timezone decides if it is there, otherwise that timezone is.
Timezone(hash) ==
  IF "has_timezone" \in DOMAIN hash
  THEN IF hash.has_timezone THEN "UTC" ELSE ""
  ELSE IF "timezone" \in DOMAIN hash THEN "UTC" ELSE ""

\* A slip: the key of a map stays as it was parsed.
into_required_as_given(node) == node

into_required(node) == [node EXCEPT !.nullable = FALSE]

RECURSIVE parse_schema_node(_, _)
parse_schema_node(name, def) ==
  LET nullable == Key(def, "nullable", TRUE)
      format   == Key(def, "format", "none")
      Named(f) == IF "name" \in DOMAIN f /\ "type" \in DOMAIN f
                  THEN parse_schema_node(f.name, f) ELSE {}
      Missing(key) == key \notin DOMAIN def
      Is(type) == def.type.is = "name" /\ def.type.of = type
  IN CASE "is" \in DOMAIN def /\ def.is \in {"list", "map"} ->
            parse_complex_type_string(name, def, TRUE)
       [] "is" \in DOMAIN def /\ def.is \notin {"list", "map"} ->
            {Primitive(name, p, TRUE, "none") :
               p \in parse_primitive_type(def, Absent, Absent, "")}
       [] "is" \notin DOMAIN def /\ Missing("type") -> {}
       [] "type" \in DOMAIN def /\ Is("struct") ->
            {[node |-> "Struct", name |-> name, nullable |-> nullable, fields |-> fs] :
               fs \in IF Missing("fields") THEN {}
                      ELSE All([i \in DOMAIN def.fields |-> Named(def.fields[i])])}
       [] "type" \in DOMAIN def /\ Is("list") ->
            {[node |-> "List", name |-> name, nullable |-> nullable, item |-> item] :
               item \in IF Missing("item") THEN {}
                        ELSE parse_schema_node(ItemName(name), def.item)}
       [] "type" \in DOMAIN def /\ Is("map") ->
            {[node |-> "Map", name |-> name, nullable |-> nullable,
              key |-> into_required(key), value |-> value] :
               key \in IF Missing("key") THEN {} ELSE parse_schema_node("key", def.key),
               value \in IF Missing("value") THEN {}
                         ELSE parse_schema_node("value", def.value)}
       [] "type" \in DOMAIN def /\ def.type.is \in {"list", "map"} ->
            parse_complex_type_string(name, def.type, nullable)
       [] OTHER ->
            IF format = "uuid"
            THEN {Primitive(name, [prim |-> "FixedLenByteArray", size |-> 16],
                            nullable, format)}
            ELSE {Primitive(name, p, nullable, format) :
                    p \in parse_primitive_type(def.type, U8(Key(def, "precision", Absent)),
                                               I8(Key(def, "scale", Absent)),
                                               Timezone(def))}
----------------------------------------------------------------------------
(* The checks of the core: validate_root. *)

UniqueNames(fields) ==
  \A i, j \in DOMAIN fields : fields[i].name = fields[j].name => i = j

ValidPrimitive(p, format) ==
  CASE p.prim \in {"Decimal128", "Decimal256"} ->
         /\ p.precision >= 1 /\ p.scale \in 0 .. p.precision
         /\ p.precision <= IF p.prim = "Decimal128" THEN DECIMAL128_MAX_PRECISION
                                                    ELSE DECIMAL256_MAX_PRECISION
    [] p.prim = "FixedLenByteArray" ->
         p.size > 0 /\ (format = "uuid" => p.size = 16)
    [] OTHER -> format # "uuid"

RECURSIVE validate_schema_node(_)
validate_schema_node(node) ==
  CASE node.node = "Primitive" -> ValidPrimitive(node.of, node.format)
    [] node.node = "List" -> validate_schema_node(node.item)
    [] node.node = "Map" ->
         /\ ~node.key.nullable
         /\ validate_schema_node(node.key) /\ validate_schema_node(node.value)
    [] node.node = "Struct" ->
         /\ node.fields # <<>> /\ UniqueNames(node.fields)
         /\ \A i \in DOMAIN node.fields : validate_schema_node(node.fields[i])

validate_root(root) == root.node = "Struct" /\ validate_schema_node(root)
----------------------------------------------------------------------------
(* The whole schema value: nil, an array of fields or a hash. *)

Symbol(name) == [is |-> "name", of |-> name, symbol |-> TRUE]

RECURSIVE MentionsTimestamp(_)
MentionsTimestamp(t) ==
  CASE t.is = "name" -> t.of \in DOMAIN TimestampTypes
    [] t.is = "list" -> MentionsTimestamp(t.item)
    [] t.is = "map"  -> MentionsTimestamp(t.key) \/ MentionsTimestamp(t.value)
    [] t.is = "decimal" -> FALSE

\* The pairs of a hash.  One of the new form passes for a legacy one if its type
\* is a String and it says nothing else: it has a pair <<"name", ...>>.
Pairs(item) ==
  IF "pairs" \in DOMAIN item THEN {item.pairs}
  ELSE IF DOMAIN item = {"name", "type"} /\ ~Key(item.type, "symbol", FALSE)
  THEN {<< <<"name", [is |-> "name", of |-> item.name]>>, <<"type", item.type>> >>}
  ELSE {}

\* The last pair of a hash gives the name and the type.
LegacyField(pairs) ==
  IF pairs = <<>> THEN [has_timezone |-> FALSE]
  ELSE LET field == [name |-> Last(pairs)[1], type |-> Last(pairs)[2]]
       IN  IF \E i \in DOMAIN pairs : MentionsTimestamp(pairs[i][2])
           THEN [name |-> field.name, type |-> field.type, has_timezone |-> TRUE]
           ELSE field

convert_legacy_schema(items) ==
  All([i \in DOMAIN items |-> {LegacyField(p) : p \in Pairs(items[i])}])

\* The first item tells the form of all.
NewForm(items) ==
  IF items = <<>> \/ {"name", "type"} \subseteq DOMAIN items[1] THEN {items}
  ELSE convert_legacy_schema(items)

\* Without fields they are strings f0, f1, ... as many as the first row has.
Inferred(data) ==
  IF data = <<>> THEN {}
  ELSE {[i \in 1 .. Len(data[1]) |->
           [name |-> "f" \o ToString(i - 1), type |-> Symbol("string")]]}

is_dsl_schema(value) ==
  "type" \in DOMAIN value /\ value.type.is = "name" /\ value.type.of = "struct"

process_schema_value(value, data) ==
  IF value.is = "hash" /\ is_dsl_schema(value.of) THEN {value.of}
  ELSE LET arrays == CASE value.is = "nil"   -> {<<>>}
                       [] value.is = "array" -> NewForm(value.of)
                       [] value.is = "hash"  -> IF "fields" \in DOMAIN value.of
                                                THEN {value.of.fields} ELSE {}
       IN  {[fields |-> f] :
              f \in UNION {IF a = <<>> THEN Inferred(data) ELSE {a} : a \in arrays}}

\* What is not of type struct has its fields taken for those of a root.
ruby_schema_to_parquet(hash) ==
  LET root == IF "type" \in DOMAIN hash THEN hash
              ELSE [type |-> Symbol("struct"), nullable |-> FALSE, fields |-> hash.fields]
  IN  {r \in parse_schema_node("root", root) : validate_root(r)}

parse_schema(value, data) ==
  UNION {ruby_schema_to_parquet(h) : h \in process_schema_value(value, data)}
----------------------------------------------------------------------------
(* The DSL.  A call of field is [name, type, kwargs], where kwargs.block is   *)
(* the sequence of calls in its block; {} stands for an ArgumentError.        *)

WithDecimal(hash, kwargs) ==
  [precision |-> Key(kwargs, "precision", DECIMAL128_MAX_PRECISION),
   scale |-> Key(kwargs, "scale", 0)] @@ hash

\* Any timezone, and none at all, mean UTC; has_timezone: false does not.
WithTimezone(hash, kwargs) ==
  IF /\ hash.type.is = "name" /\ hash.type.symbol
     /\ hash.type.of \in DOMAIN TimestampTypes \ {"timestamp"}
     /\ Key(kwargs, "has_timezone", TRUE)
  THEN [timezone |-> "UTC"] @@ hash ELSE hash

NameOf(type) == Key(type, "of", "")

RECURSIVE field(_)
wrap_subtype(type, nullable, kwargs) ==
  LET hash  == [type |-> type, nullable |-> nullable, name |-> "item"]
      block == Key(kwargs, "block", <<>>)
  IN CASE NameOf(type) = "struct" ->
            {[fields |-> fs] @@ hash :
               fs \in IF block = <<>> THEN {}
                      ELSE All([i \in DOMAIN block |-> field(block[i])])}
       [] NameOf(type) = "list" /\ "block" \in DOMAIN kwargs ->
            {[item |-> item] @@ hash :
               item \in IF Len(block) = 1 /\ block[1].name = "item"
                        THEN field(block[1]) ELSE {}}
       [] NameOf(type) = "decimal" -> {WithDecimal(hash, kwargs)}
       [] OTHER -> {hash}

field(call) ==
  LET kwargs == call.kwargs
      plain  == [name |-> call.name, type |-> call.type,
                 nullable |-> Key(kwargs, "nullable", TRUE)]
      hash   == WithTimezone(IF "format" \in DOMAIN kwargs
                             THEN [format |-> kwargs.format] @@ plain ELSE plain, kwargs)
      block  == Key(kwargs, "block", <<>>)
      Nullable(key) == Key(kwargs, key, TRUE)
  IN CASE NameOf(call.type) = "struct" ->
            {[fields |-> fs] @@ hash : fs \in All([i \in DOMAIN block |-> field(block[i])])}
       [] NameOf(call.type) = "list" ->
            {[item |-> item] @@ hash :
               item \in IF "item" \notin DOMAIN kwargs THEN {}
                        ELSE wrap_subtype(kwargs.item, Nullable("item_nullable"), kwargs)}
       [] NameOf(call.type) = "map" ->
            {[key |-> key, value |-> value] @@ hash :
               key \in IF \/ "key" \notin DOMAIN kwargs
                          \/ Key(kwargs, "key_nullable", FALSE) THEN {}
                       ELSE wrap_subtype(kwargs.key, FALSE, <<>>),
               value \in IF "value" \notin DOMAIN kwargs THEN {}
                         ELSE wrap_subtype(kwargs.value, Nullable("value_nullable"), kwargs)}
       [] NameOf(call.type) = "decimal" -> {WithDecimal(hash, kwargs)}
       [] OTHER -> {hash}

define(calls) ==
  {[type |-> Symbol("struct"), fields |-> fs] :
     fs \in All([i \in DOMAIN calls |-> field(calls[i])])}
============================================================================
