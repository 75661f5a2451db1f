----------------------------- MODULE RubyBoundary -----------------------------
(***************************************************************************)
(* The session of RubySession with the schemas of RubySchema and the       *)
(* values of RubyValues, and what a Ruby program can expect of it: the     *)
(* schema says how a cell is converted, a cell may change the Time object  *)
(* that a later one converts, and all of it comes back through the file.   *)
(* A configuration gives Schemas, Convert, Takes and FromParquet the       *)
(* operators schemas_of, convert_with_schema_hint, Acceptable and          *)
(* parquet_to_ruby.                                                        *)
(*                                                                         *)
(* A column is described by [name, nullable, type] whatever the form its   *)
(* schema is written in; AsValue writes it in one.                         *)
(***************************************************************************)
EXTENDS RubyValues, RubySchema, RubySession

Column(i) == session.columns[i]
----------------------------------------------------------------------------
(* Descriptions: a type is [is |-> "plain", of], "timestamp" with [of, zone], *)
(* "decimal" with [precision, scale], "uuid", "list" with [item, nullable],   *)
(* "map" with [key, value, nullable] or "struct" with [fields].  zone is "on", *)
(* "off" or "default".                                                        *)

Name(of, symbol) == [is |-> "name", of |-> of, symbol |-> symbol]

\* The string of a type, for legacy fields and for types within strings.
RECURSIVE AsString(_)
AsString(T) ==
  CASE T.is \in {"plain", "timestamp"} -> Name(T.of, FALSE)
    [] T.is = "decimal" -> T
    [] T.is = "list"    -> [is |-> "list", item |-> AsString(T.item)]
    [] T.is = "map"     -> [is |-> "map", key |-> AsString(T.key),
                            value |-> AsString(T.value)]

Numbers(T) ==
  (IF T.precision = Absent THEN <<>> ELSE [precision |-> T.precision])
    @@ (IF T.scale = Absent THEN <<>> ELSE [scale |-> T.scale])

RECURSIVE AsHash(_, _)
AsHash(T, nullable) ==
  LET Of(type) == [type |-> Name(type, TRUE), nullable |-> nullable]
  IN CASE T.is = "plain" -> Of(T.of)
       [] T.is = "timestamp" ->
            Of(T.of) @@ (CASE T.zone = "on"      -> [has_timezone |-> TRUE]
                           [] T.zone = "off"     -> [has_timezone |-> FALSE]
                           [] T.zone = "legacy"  -> [timezone |-> "+09:00"]
                           [] T.zone = "default" -> <<>>)
       [] T.is = "decimal" -> Of("decimal") @@ Numbers(T)
       [] T.is = "uuid" -> Of("string") @@ [format |-> "uuid"]
       [] T.is = "list" -> Of("list") @@ [item |-> AsHash(T.item, T.nullable)]
       [] T.is = "map" -> Of("map") @@ [key |-> AsHash(T.key, TRUE),
                                        value |-> AsHash(T.value, T.nullable)]
       [] T.is = "struct" ->
            Of("struct") @@
              [fields |-> [i \in DOMAIN T.fields |->
                 [name |-> T.fields[i].name]
                   @@ AsHash(T.fields[i].type, T.fields[i].nullable)]]

\* Arguments of field in the DSL.  What a nested list holds is a block with one
\* field, named item; the fields of a struct are a block of their own.
RECURSIVE AsCall(_, _, _)
Block(T) ==
  CASE T.is = "list"   -> [block |-> <<AsCall("item", T.item, T.nullable)>>]
    [] T.is = "struct" -> [block |-> [i \in DOMAIN T.fields |->
                             AsCall(T.fields[i].name, T.fields[i].type,
                                    T.fields[i].nullable)]]
    [] T.is = "decimal" -> Numbers(T)
    [] OTHER -> <<>>

Symbolic(T) ==
  Name(IF T.is \in {"plain", "timestamp"} THEN T.of
       ELSE IF T.is = "uuid" THEN "string" ELSE T.is, TRUE)

AsCall(name, T, nullable) ==
  LET more ==
        CASE T.is = "timestamp" ->
               (CASE T.zone = "on"      -> [has_timezone |-> TRUE]
                  [] T.zone = "off"     -> [has_timezone |-> FALSE]
                  [] T.zone = "legacy"  -> [timezone |-> "+09:00"]
                  [] T.zone = "default" -> <<>>)
          [] T.is = "uuid" -> [format |-> "uuid"]
          [] T.is = "list" -> [item |-> Symbolic(T.item),
                               item_nullable |-> T.nullable] @@ Block(T.item)
          [] T.is = "map"  -> [key |-> Symbolic(T.key), value |-> Symbolic(T.value),
                               value_nullable |-> T.nullable] @@ Block(T.value)
          [] OTHER -> Block(T)
  IN  [name |-> name, type |-> Symbolic(T), kwargs |-> [nullable |-> nullable] @@ more]

\* The schema values a form gives; the DSL may raise an ArgumentError.
AsValue(form, columns) ==
  LET Hash(c)   == [name |-> c.name] @@ AsHash(c.type, c.nullable)
      Short(c)  == [name |-> c.name, type |-> AsString(c.type)]
      Legacy(c) == [pairs |-> << <<c.name, AsString(c.type)>> >>]
      Of(F(_))  == [i \in DOMAIN columns |-> F(columns[i])]
      Array(a)  == {[is |-> "array", of |-> a]}
      A_hash(h) == {[is |-> "hash", of |-> h]}
  IN CASE form = "array"  -> Array(Of(Hash))
       [] form = "string" -> Array(Of(Short))
       [] form = "legacy" -> Array(Of(Legacy))
       [] form = "mixed"  -> Array(<<Legacy(Head(columns))>> \o Tail(Of(Short)))
       [] form = "fields" -> A_hash([fields |-> Of(Hash)])
       [] form = "struct" -> A_hash([type |-> Symbol("struct"), fields |-> Of(Hash)])
       [] form = "dsl"    -> UNION {A_hash(h) : h \in define(Of(LAMBDA c :
                                      AsCall(c.name, c.type, c.nullable)))}
       [] form = "none"   -> {[is |-> "nil"]}
----------------------------------------------------------------------------
\* What a schema in its form is parsed to; without one the row is looked at.
schemas_of(s) ==
  LET data == IF s.row = <<>> THEN <<>> ELSE <<s.row>>
  IN  UNION {parse_schema(v, data) : v \in AsValue(s.form, s.columns)}

\* What the core writer asks of a value that has been converted by its node: no
\* nulls where there may be none, no decimals with too many digits.
RECURSIVE Acceptable(_, _)
Acceptable(v, node) ==
  CASE v.is = "Null" -> node.nullable
    [] v.is \in {"Decimal128", "Decimal256"} -> FitsPrecision(v.of, node.of.precision)
    [] v.is = "List" -> \A i \in DOMAIN v.of : Acceptable(v.of[i], node.item)
    [] v.is = "Map"  -> \A i \in DOMAIN v.of : /\ Acceptable(v.of[i][1], node.key)
                                             /\ Acceptable(v.of[i][2], node.value)
    [] v.is = "Record" -> \A i \in DOMAIN v.of : Acceptable(v.of[i], node.fields[i])
    [] OTHER -> TRUE
----------------------------------------------------------------------------
(* What a description means. *)

\* Timestamps are in UTC if their form says so: in a hash only if has_timezone is
\* true or a timezone is given; in the legacy form if they are columns; for a call
\* of field unless has_timezone is false or the type is just :timestamp.
Zoned(form, position, T) ==
  CASE form \in {"array", "fields", "struct"} -> T.zone \in {"on", "legacy"}
    [] form \in {"legacy", "mixed"} -> position = "column"
    [] form = "string" -> FALSE
    [] form = "dsl" -> position # "item" /\ T.of # "timestamp" /\ T.zone # "off"

\* In a hash, a precision or scale out of the range of its integer is not seen.
InString(form) == form \in {"string", "legacy", "mixed"}

Precision(form, T) ==
  IF T.precision = Absent \/ (~InString(form) /\ T.precision > U8_MAX)
  THEN DECIMAL128_MAX_PRECISION ELSE T.precision

Scale(form, T) ==
  IF T.scale = Absent \/ (~InString(form) /\ T.scale > I8_MAX) THEN 0 ELSE T.scale

\* The description as a node of the schema.  An item of a list in a list is a
\* column of its own to the DSL.
RECURSIVE Meaning(_, _, _, _, _)
Meaning(form, name, T, nullable, position) ==
  LET Leaf(p) == Primitive(name, p, nullable, IF T.is = "uuid" THEN "uuid" ELSE "none")
      inner   == IF position = "item" /\ T.is = "list" THEN "column" ELSE "item"
  IN CASE T.is = "plain"   -> Leaf([prim |-> PlainTypes[T.of]])
       [] T.is = "uuid"    -> Leaf([prim |-> "FixedLenByteArray", size |-> 16])
       [] T.is = "decimal" -> Leaf(DecimalType(Precision(form, T), Scale(form, T)))
       [] T.is = "timestamp" ->
            Leaf([prim |-> TimestampTypes[T.of],
                  tz |-> IF Zoned(form, position, T) THEN "UTC" ELSE ""])
       [] T.is = "list" ->
            [node |-> "List", name |-> name, nullable |-> nullable,
             item |-> Meaning(form, name \o "_item", T.item, T.nullable, inner)]
       [] T.is = "map" ->
            [node |-> "Map", name |-> name, nullable |-> nullable,
             key   |-> Meaning(form, "key", T.key, FALSE, "item"),
             value |-> Meaning(form, "value", T.value, T.nullable, "item")]
       [] T.is = "struct" ->
            [node |-> "Struct", name |-> name, nullable |-> nullable,
             fields |-> [i \in DOMAIN T.fields |->
                Meaning(form, T.fields[i].name, T.fields[i].type,
                        T.fields[i].nullable, "column")]]

RECURSIVE Sensible(_, _)
Sensible(form, T) ==
  CASE T.is = "decimal" ->
         /\ Precision(form, T) \in 1 .. DECIMAL256_MAX_PRECISION
         /\ Scale(form, T) \in 0 .. Precision(form, T)
    [] T.is = "list"   -> Sensible(form, T.item)
    [] T.is = "map"    -> Sensible(form, T.key) /\ Sensible(form, T.value)
    [] T.is = "struct" ->
         /\ T.fields # <<>>
         /\ Cardinality({T.fields[i].name : i \in DOMAIN T.fields}) = Len(T.fields)
         /\ \A i \in DOMAIN T.fields : Sensible(form, T.fields[i].type)
    [] OTHER -> TRUE

\* An array whose first item is legacy has no other columns than legacy ones: any
\* other item describes a column named "type".  Without columns there is one
\* string for each cell.
Intended ==
  [is |-> "struct",
   fields |->
     CASE session.form = "mixed" ->
            [i \in DOMAIN session.columns |->
               IF i = 1 THEN Column(1) ELSE [Column(i) EXCEPT !.name = "type"]]
       [] session.form = "none" ->
            [i \in DOMAIN session.row |->
               [name |-> "f" \o ToString(i - 1), nullable |-> TRUE,
                type |-> [is |-> "plain", of |-> "string"]]]
       [] OTHER -> session.columns]

\* Whatever form a schema is written in, it becomes the schema that its columns
\* describe, names, nesting, nullability and zones included, and it is refused
\* only if those make no sense.
SchemaFormsAgree ==
  /\ stage = "schema refused" => ~Sensible(session.form, Intended)
  /\ stage \notin {"schema", "schema refused"} =>
       /\ Sensible(session.form, Intended)
       /\ root.fields =
            Meaning(session.form, "root", Intended, FALSE, "column").fields
----------------------------------------------------------------------------
(* What comes back. *)

\* What a hash has for a field: what is under its symbol, or else its string.
Under(hash, name) ==
  LET named   == {p \in Range(hash.pairs) : p[1].is = "key" /\ p[1].of = name}
      symbols == {p \in named : p[1].symbol}
      found   == {p[2] : p \in IF symbols = {} THEN named ELSE symbols}
  IN  IF found = {} THEN [is |-> "nil"] ELSE CHOOSE cell \in found : TRUE

\* The Time objects in a cell that are stored as timestamps with a zone.
RECURSIVE ZonedObjects(_, _)
ZonedObjects(cell, node) ==
  CASE cell.is = "time" ->
         IF node.of.prim \in DOMAIN TimestampUnit /\ node.of.tz # ""
         THEN {cell.object} ELSE {}
    [] cell.is = "array" ->
         UNION {ZonedObjects(item, node.item) : item \in Range(cell.items)}
    [] cell.is = "hash" /\ node.node = "Map" ->
         UNION {ZonedObjects(p[1], node.key) \cup ZonedObjects(p[2], node.value) :
                  p \in Range(cell.pairs)}
    [] cell.is = "hash" /\ node.node = "Struct" ->
         UNION {ZonedObjects(Under(cell, f.name), f) : f \in Range(node.fields)}
    [] OTHER -> {}

\* The offset in which a Time is asked for its hour: its own, or that of UTC if a
\* column to the left stored the same object as a timestamp with a zone.
OffsetAt(i, object) ==
  IF \E j \in 1 .. i - 1 : object \in ZonedObjects(session.row[j], root.fields[j])
  THEN 0 ELSE session.zones[object].offset

TimeOf(cell) == IF cell.is = "time" THEN session.times[cell.object] ELSE cell.time

\* back is what a Time or a string, in column i, may come back as.
LeafComesBack(i, cell, prim, back) ==
  LET t   == TimeOf(cell)
      now == t.secs * Nanos + t.nsec
  IN CASE prim \in DOMAIN TimestampUnit ->
            LET step == Tick(TimestampUnit[prim])
            IN  Representable(now \div step, TimeHalf) =>
                  back = [is |-> "instant", of |-> Floor(now, step)]
       [] prim \in DOMAIN TimeUnit ->
            back = [is |-> "time_of_day",
                    of |-> Floor((now + OffsetAt(i, cell.object) * Nanos) % (Day * Nanos),
                                 Tick(TimeUnit[prim]))]
       [] prim = "Date32" /\ cell.is = "time" ->
            t.secs >= 0 /\ Representable(t.secs \div Day, DayHalf) =>
              back = [is |-> "day", of |-> t.secs \div Day]
       [] prim = "Date64" /\ cell.is = "time" ->
            Representable(t.secs * K, TimeHalf) =>
              back = [is |-> "instant", of |-> t.secs * Nanos]
       [] OTHER -> TRUE

\* A map has a key for each key of the hash; of the keys that have become one,
\* the last one's value is there.  A struct has its fields and no others.
RECURSIVE CellComesBack(_, _, _, _)
CellComesBack(i, cell, node, back) ==
  CASE cell.is = "nil"   -> back = Null /\ node.nullable
    [] cell.is = "key"   -> back = [is |-> "text", of |-> cell.of]
    [] cell.is \in {"time", "string"} -> LeafComesBack(i, cell, node.of.prim, back)
    [] cell.is = "array" ->
         /\ back.is = "array" /\ Len(back.of) = Len(cell.items)
         /\ \A n \in DOMAIN cell.items :
              CellComesBack(i, cell.items[n], node.item, back.of[n])
    [] cell.is = "hash" /\ node.node = "Map" ->
         LET Entry(n, key) == CellComesBack(i, cell.pairs[n][1], node.key, key)
         IN  /\ back.is = "hash"
             /\ \A n \in DOMAIN cell.pairs : \E key \in DOMAIN back.of : Entry(n, key)
             /\ \A key \in DOMAIN back.of :
                  \E n \in DOMAIN cell.pairs :
                    /\ Entry(n, key)
                    /\ \A m \in n + 1 .. Len(cell.pairs) : ~Entry(m, key)
                    /\ CellComesBack(i, cell.pairs[n][2], node.value, back.of[key])
    [] cell.is = "hash" /\ node.node = "Struct" ->
         /\ back.is = "hash" /\ DOMAIN back.of = {f.name : f \in Range(node.fields)}
         /\ \A f \in Range(node.fields) :
              CellComesBack(i, Under(cell, f.name), f, back.of[f.name])
    [] OTHER -> TRUE

\* A Time, or a string of one, comes back from a timestamp column as the same
\* instant up to the unit of the column, before 1970 too and whatever the zones,
\* as long as it can be counted in that unit; from a time column as the time of
\* day it had; from a date column, if not before 1970 and if the day can be
\* counted, as its day in UTC, and from a date64 column as its second.  Arrays
\* and hashes come back with what they hold, each by the type at its place in
\* the schema, and nil only where the schema lets it be.
CellsComeBack ==
  \A i \in DOMAIN read : CellComesBack(i, session.row[i], root.fields[i], read[i])

\* The digits of a text that a scale keeps, as one number.
Kept(text, scale) ==
  LET zeros == [i \in 1 .. scale |-> 0]
  IN  Value(text.int \o SubSeq(text.frac \o zeros, 1, scale))

Comfortable(text, p) ==
  /\ Representable(Kept(text, p.scale), DecimalHalf)
  /\ Len(text.frac) > p.scale => Representable(10 ^ (Len(text.frac) - p.scale), DecimalHalf)

\* A number whose digits survive an f64 and SciPlaces decimals: an integer that
\* its mantissa holds, or few decimals and half an ulp below half of the last one.
ExactAsFloat(text) ==
  \/ Value(text.frac) = 0 /\ Value(text.int) < 2 ^ FloatBits
  \/ /\ Len(text.frac) <= SciPlaces
     /\ 2 * Kept(text, SciPlaces) < 2 ^ FloatBits

\* A decimal that was accepted comes back with its sign and with the digits of
\* its text up to the scale of the column, neither more nor fewer than its
\* precision allows: in a decimal256 column always, in a decimal128 one if the
\* products fit an i128, but in scientific notation only if an f64 and its
\* SciPlaces decimals tell the number from all others.
DecimalsKeepTheirDigits ==
  \A i \in {n \in DOMAIN read : session.row[n].is = "number"} :
    LET p    == root.fields[i].of
        text == session.row[i].text
        back == read[i].of
        kept == Kept(text, p.scale)
    IN  /\ p.prim = "Decimal256" \/ (p.prim = "Decimal128" /\ Comfortable(text, p))
        /\ text.scientific => ExactAsFloat(text)
        => /\ kept < 10 ^ p.precision
           /\ Len(back.frac) = p.scale
           /\ Value(back.int \o back.frac) = kept
           /\ kept # 0 => back.negative = text.negative

\* A string that is written as a date is read as the same date.
DateStringsKeepTheirDay ==
  \A i \in DOMAIN read :
    session.row[i].is = "string" /\ root.fields[i].of.prim = "Date32" =>
      read[i] = [is |-> "day", of |-> session.row[i].day]
============================================================================
