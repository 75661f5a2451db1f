------------------------------ MODULE RubyValues ------------------------------
(***************************************************************************)
(* Ruby values to Parquet values and back,                                 *)
(* ext/parquet-ruby-adapter/src/converter.rs: times, by the arithmetic of  *)
(* RubyTimes, and decimals, whose own can go wrong too.                    *)
(*                                                                         *)
(* The integers of the code keep their wrap-around, with fewer bits;       *)
(* release builds do not check for it.  An operator that may fail returns  *)
(* a set: its result, or {} for an error.                                  *)
(***************************************************************************)
EXTENDS RubyTimes, SequencesExt

CONSTANTS
  DecimalHalf,  \* 2^127, how many of the i128 are negative
  CountHalf,    \* 128: the digits after the point are counted in an i8
  SciPlaces,    \* 15, the decimals that scientific notation is printed with
  FloatBits     \* 53, the bits of the mantissa of an f64

ASSUME ValuesAssumption ==
  {DecimalHalf, CountHalf, SciPlaces, FloatBits} \subseteq Nat \ {0}
----------------------------------------------------------------------------
(* Decimals.  What to_s gives is [negative, int, frac, scientific] with     *)
(* sequences of digits before and after the point.                          *)

Value(digits) == FoldLeft(LAMBDA n, d : 10 * n + d, 0, digits)

Digits(n) ==
  LET width == CHOOSE w \in 1 .. 10 : n < 10 ^ w /\ (w = 1 \/ n >= 10 ^ (w - 1))
  IN  [i \in 1 .. width |-> (n \div (10 ^ (width - i))) % 10]

Padded(digits, width) ==
  IF Len(digits) >= width THEN digits
  ELSE [i \in 1 .. width - Len(digits) |-> 0] \o digits

\* n / d to the nearest integer, of two the even one.
Nearest(n, d) ==
  LET q == n \div d
      r == 2 * (n % d)
  IN  IF r < d \/ (r = d /\ q % 2 = 0) THEN q ELSE q + 1

\* The p for which 2^p is the leading bit of n / d.
Magnitude(n, d) ==
  IF n >= d THEN CHOOSE p \in 0 .. 30 : 2 ^ p * d <= n /\ n < 2 ^ (p + 1) * d
  ELSE -(CHOOSE p \in 1 .. 30 : 2 ^ p * n >= d /\ 2 ^ (p - 1) * n < d)

\* The f64 next to n / d, as <<numerator, denominator>>.
AsFloat(n, d) ==
  LET e  == Magnitude(n, d) - (FloatBits - 1)
      up == IF e > 0 THEN 2 ^ e ELSE 1
      dn == IF e < 0 THEN 2 ^ (-e) ELSE 1
  IN  IF n = 0 THEN <<0, 1>> ELSE <<Nearest(n * dn, d * up) * up, dn>>

\* trim_end_matches('0')
Trimmed(digits) ==
  SubSeq(digits, 1, Cardinality({i \in DOMAIN digits :
                                   \E j \in i .. Len(digits) : digits[j] # 0}))

\* A number in scientific notation, given here by all its digits, becomes an f64
\* and is printed with SciPlaces digits after the point, less the zeros at the
\* end.
normalized(text) ==
  IF ~text.scientific THEN text
  ELSE LET f     == AsFloat(Value(text.int \o text.frac), 10 ^ Len(text.frac))
           all   == Padded(Digits(Nearest(f[1] * 10 ^ SciPlaces, f[2])), SciPlaces + 1)
           point == Len(all) - SciPlaces
       IN  [text EXCEPT !.int = SubSeq(all, 1, point),
                        !.frac = Trimmed(SubSeq(all, point + 1, Len(all)))]

current_scale(text) == Signed(Len(normalized(text).frac), CountHalf)

\* The fraction in units of 10^-scale: padded, or cut.  unit and power are 10^scale
\* and 10^count, excess is 10^(count - scale).
Scaled(fraction, padded, unit, power, excess) ==
  IF padded THEN fraction * (unit \div power) ELSE Quotient(fraction, excess)

Sign(text) == IF text.negative THEN -1 ELSE 1

\* Both parts must be an i128.  A count that is negative, of 128 digits or more,
\* makes 10^count, as an i128, a zero to divide by.
parse_decimal128(text, scale) ==
  LET n       == normalized(text)
      count   == current_scale(text)
      Wrap(x) == Signed(x, DecimalHalf)
      Fits(x) == x < DecimalHalf
  IN  IF Fits(Value(n.int)) /\ Fits(Value(n.frac)) /\ count >= 0
      THEN {Wrap(Sign(n) * Wrap(Value(n.int) * Wrap(10 ^ scale)
                  + Scaled(Value(n.frac), count <= scale, Wrap(10 ^ scale),
                           Wrap(10 ^ count), Wrap(10 ^ Abs(count - scale)))))}
      ELSE {}

\* A BigInt has no width.  A negative count is a power that no memory holds.
parse_decimal256(text, scale) ==
  LET n       == normalized(text)
      count   == current_scale(text)
  IN  IF count >= 0
      THEN {Sign(n) * (Value(n.int) * 10 ^ scale
              + Scaled(Value(n.frac), count <= scale, 10 ^ scale, 10 ^ count,
                       10 ^ Abs(count - scale)))}
      ELSE {}

\* A slip: the digits after the point are not padded on the left.
format_decimal_unpadded(v, scale) ==
  [negative |-> v < 0, scientific |-> FALSE,
   int  |-> Digits(Abs(v) \div (10 ^ scale)),
   frac |-> IF scale = 0 THEN <<>> ELSE Digits(Abs(v) % (10 ^ scale))]

format_decimal(v, scale) ==
  [negative |-> v < 0, scientific |-> FALSE,
   int  |-> Digits(Abs(v) \div (10 ^ scale)),
   frac |-> IF scale = 0 THEN <<>> ELSE Padded(Digits(Abs(v) % (10 ^ scale)), scale)]

\* The check of the core writer.
FitsPrecision(v, precision) == Len(Digits(Abs(v))) <= precision
----------------------------------------------------------------------------
(* A cell for a column.  zones are those the Time objects have now.  The      *)
(* result holds the value and the zones after it: Time#utc changes its        *)
(* receiver, and raises if that is frozen and not yet in UTC.                 *)

UTC == [utc |-> TRUE, offset |-> 0]

Null == [is |-> "Null"]

Converted(v, zones) == {[value |-> v, zones |-> zones]}

normalize_timestamp_for_parquet(cell, has_timezone, zones) ==
  IF ~has_timezone THEN {zones}
  ELSE IF cell.frozen /\ zones[cell.object] # UTC THEN {}
  ELSE {[zones EXCEPT ![cell.object] = UTC]}

convert_time(cell, times, p, zones) ==
  LET t == times[cell.object]
  IN CASE p.prim = "Date32" ->
            Converted([is |-> "Date32", of |-> date32_of(t.secs)], zones)
       [] p.prim = "Date64" ->
            Converted([is |-> "Date64", of |-> date64_of(t.secs)], zones)
       [] p.prim \in DOMAIN TimeUnit ->
            Converted([is |-> p.prim,
                       of |-> time_of_day(t, zones[cell.object].offset,
                                          TimeUnit[p.prim])], zones)
       [] p.prim \in DOMAIN TimestampUnit ->
            {[value |-> [is |-> p.prim,
                         of |-> timestamp_of(t, TimestampUnit[p.prim])],
              zones |-> z] :
                z \in normalize_timestamp_for_parquet(cell, p.tz # "", zones)}
       [] OTHER -> {}

\* A string, as the Date and the Time that Ruby parses it to.
convert_string(cell, p, zones) ==
  CASE p.prim = "Date32" ->
         Converted([is |-> "Date32", of |-> date32_of(Midnight(cell.day))], zones)
    [] p.prim = "Date64" ->
         Converted([is |-> "Date64", of |-> date64_of(Midnight(cell.day))], zones)
    [] p.prim \in DOMAIN TimestampUnit ->
         Converted([is |-> p.prim,
                    of |-> timestamp_of(cell.time, TimestampUnit[p.prim])], zones)
    [] OTHER -> {}

convert_number(cell, p, zones) ==
  CASE p.prim = "Decimal128" ->
         UNION {Converted([is |-> p.prim, of |-> v, scale |-> p.scale], zones) :
                  v \in parse_decimal128(cell.text, p.scale)}
    [] p.prim = "Decimal256" ->
         UNION {Converted([is |-> p.prim, of |-> v, scale |-> p.scale], zones) :
                  v \in parse_decimal256(cell.text, p.scale)}
    [] OTHER -> {}

\* The to_s of a key is its name; that of any other value is not looked into.
to_s(cell) == IF cell.is = "key" THEN cell.of ELSE cell

\* Any value has a to_s; columns of other types are left out here.
convert_with_type_hint(cell, times, p, zones) ==
  CASE p.prim = "String"    -> Converted([is |-> "String", of |-> to_s(cell)], zones)
    [] p.prim # "String" /\ cell.is = "time" -> convert_time(cell, times, p, zones)
    [] p.prim # "String" /\ cell.is = "string" -> convert_string(cell, p, zones)
    [] p.prim # "String" /\ cell.is = "number" -> convert_number(cell, p, zones)
    [] OTHER -> {}
----------------------------------------------------------------------------
(* Arrays and hashes, [is |-> "array", items] and [is |-> "hash", pairs] with *)
(* pairs <<key, value>> in their order, by a node of the schema.  A name as a *)
(* key is [is |-> "key", of, symbol].                                         *)

HasKey(hash, name, symbol) ==
  \E i \in DOMAIN hash.pairs :
    hash.pairs[i][1] = [is |-> "key", of |-> name, symbol |-> symbol]

At(hash, name, symbol) ==
  LET i == CHOOSE i \in DOMAIN hash.pairs :
             hash.pairs[i][1] = [is |-> "key", of |-> name, symbol |-> symbol]
  IN  hash.pairs[i][2]

\* A field is looked up by its symbol first; other keys are not looked at.
field_value(hash, name) ==
  IF HasKey(hash, name, TRUE) THEN At(hash, name, TRUE)
  ELSE IF HasKey(hash, name, FALSE) THEN At(hash, name, FALSE) ELSE [is |-> "nil"]

RECURSIVE convert_with_schema_hint(_, _, _, _)

\* Cell after cell, each with the zones that the one before has left.
convert_each(cells, times, nodes, zones) ==
  FoldLeft(LAMBDA results, i :
             UNION {{[values |-> Append(r.values, c.value), zones |-> c.zones] :
                       c \in convert_with_schema_hint(cells[i], times, nodes[i], r.zones)} :
                     r \in results},
           {[values |-> <<>>, zones |-> zones]},
           [i \in DOMAIN cells |-> i])

convert_to_list(cell, times, node, zones) ==
  {[value |-> [is |-> "List", of |-> r.values], zones |-> r.zones] :
     r \in IF cell.is # "array" THEN {}
           ELSE convert_each(cell.items, times,
                             [i \in DOMAIN cell.items |-> node.item], zones)}

\* The entries of a map are those of the hash, equal keys included.
convert_to_map(cell, times, node, zones) ==
  {[value |-> [is |-> "Map",
               of |-> [i \in DOMAIN cell.pairs |->
                         <<r.values[2 * i - 1], r.values[2 * i]>>]],
    zones |-> r.zones] :
     r \in IF cell.is # "hash" THEN {}
           ELSE convert_each(FlattenSeq(cell.pairs), times,
                             [i \in 1 .. 2 * Len(cell.pairs) |->
                                IF i % 2 = 1 THEN node.key ELSE node.value],
                             zones)}

convert_to_struct(cell, times, node, zones) ==
  {[value |-> [is |-> "Record", names |-> [i \in DOMAIN node.fields |-> node.fields[i].name],
               of |-> r.values],
    zones |-> r.zones] :
     r \in IF cell.is # "hash" THEN {}
           ELSE convert_each([i \in DOMAIN node.fields |->
                                field_value(cell, node.fields[i].name)],
                             times, node.fields, zones)}

convert_with_schema_hint(cell, times, node, zones) ==
  CASE cell.is = "nil" -> Converted(Null, zones)
    [] cell.is # "nil" /\ node.node = "Primitive" ->
         convert_with_type_hint(cell, times, node.of, zones)
    [] cell.is # "nil" /\ node.node = "List" -> convert_to_list(cell, times, node, zones)
    [] cell.is # "nil" /\ node.node = "Map" -> convert_to_map(cell, times, node, zones)
    [] cell.is # "nil" /\ node.node = "Struct" ->
         convert_to_struct(cell, times, node, zones)
----------------------------------------------------------------------------
(* What comes back: a nanosecond, a time of day, a day, a text for BigDecimal, *)
(* an array or a hash, which is a function from its keys.                      *)

\* Hash#[]= one entry after another.
HashOf(entries) ==
  FoldLeft(LAMBDA hash, e : (e[1] :> e[2]) @@ hash, <<>>, entries)

RECURSIVE parquet_to_ruby(_)
parquet_to_ruby(v) ==
  CASE v.is = "Null"   -> Null
    [] v.is = "String" -> [is |-> "text", of |-> v.of]
    [] v.is = "Date32" -> [is |-> "day", of |-> v.of]
    [] v.is = "Date64" -> [is |-> "instant", of |-> read_date64(v.of)]
    [] v.is \in DOMAIN TimeUnit ->
         [is |-> "time_of_day", of |-> read_time(v.of, TimeUnit[v.is])]
    [] v.is \in DOMAIN TimestampUnit ->
         [is |-> "instant", of |-> read_timestamp(v.of, TimestampUnit[v.is])]
    [] v.is \in {"Decimal128", "Decimal256"} ->
         [is |-> "decimal", of |-> format_decimal(v.of, v.scale)]
    [] v.is = "List" ->
         [is |-> "array", of |-> [i \in DOMAIN v.of |-> parquet_to_ruby(v.of[i])]]
    [] v.is = "Map" ->
         [is |-> "hash",
          of |-> HashOf([i \in DOMAIN v.of |-> <<parquet_to_ruby(v.of[i][1]),
                                                parquet_to_ruby(v.of[i][2])>>])]
    [] v.is = "Record" ->
         [is |-> "hash",
          of |-> HashOf([i \in DOMAIN v.of |->
                           <<v.names[i], parquet_to_ruby(v.of[i])>>])]
============================================================================
