-------------------------- MODULE ValueRulesProofs --------------------------
(***************************************************************************)
(* What validation accepts, the array builders build and reading returns,  *)
(* proved for schemas and values that nest to any depth, by induction over *)
(* their levels.                                                           *)
(***************************************************************************)
EXTENDS ValueRules, DataFacts

----------------------------------------------------------------------------
(* The functions of levels exist, so that each is given at a level by what  *)
(* it is below.  They are defined by recursion over numbers: an             *)
(* approximation g is right as far as n, and can be continued by a value.   *)

Continues(h, g, n, x) == (\A k \in -1 .. n : h[k] = g[k]) /\ h[n + 1] = x

LEMMA OneMoreLevel ==
  ASSUME NEW n \in Nat, NEW g, NEW x
  PROVE  \E h : Continues(h, g, n, x)
  <1>. DEFINE h == [k \in -1 .. n + 1 |-> IF k <= n THEN g[k] ELSE x]
  <1>1. Continues(h, g, n, x)
    BY DEF Continues
  <1>. HIDE DEF h
  <1>. QED BY <1>1

NodesLevel(k, below) ==
  IF k = 0 THEN {} ELSE validate_schema_node(below)

LEMMA NodesTie ==
  ASSUME NEW d \in Levels
  PROVE  Nodes[d] = NodesLevel(d, Nodes[d - 1])
  <1>. DEFINE Is(n, g) == \A k \in 0 .. n : g[k] = NodesLevel(k, g[k - 1])
              T == {n \in Nat : \E g : Is(n, g)}
              Ties(g) ==
                g = [k \in Levels |-> IF k = 0 THEN {} ELSE validate_schema_node(g[k - 1])]
  <1>1. 0 \in T
    <2>. DEFINE g == [k \in -1 .. 0 |-> IF k = 0 THEN NodesLevel(0, {}) ELSE {}]
    <2>1. Is(0, g)
      OBVIOUS
    <2>. HIDE DEF g, Is
    <2>. QED BY <2>1
  <1>2. ASSUME NEW n \in Nat, n \in T
        PROVE  n + 1 \in T
    <2>1. PICK g : Is(n, g)
      BY <1>2
    <2>2. PICK h : Continues(h, g, n, NodesLevel(n + 1, g[n]))
      BY OneMoreLevel
    <2>3. ASSUME NEW k \in 0 .. n
          PROVE  h[k] = NodesLevel(k, h[k - 1])
      <3>1. h[k] = g[k] /\ h[k - 1] = g[k - 1]
        BY <2>2 DEF Continues
      <3>. QED BY <2>1, <3>1
    <2>4. h[n] = g[n] /\ (n + 1) - 1 = n
      BY <2>2 DEF Continues
    <2>5. Is(n + 1, h)
      BY <2>2, <2>3, <2>4 DEF Continues
    <2>. HIDE DEF Is
    <2>. QED BY <2>5
  <1>3. PICK g : Is(Depth, g)
    <2>. HIDE DEF Is
    <2>. QED BY <1>1, <1>2, NatSetInduction, ColumnsAssumption
  <1>. DEFINE h == [k \in Levels |-> g[k]]
  <1>4. \A b, c : NodesLevel(0, b) = NodesLevel(0, c)
    BY DEF NodesLevel
  <1>5. ASSUME NEW k \in Levels
        PROVE  h[k] = NodesLevel(k, h[k - 1])
    BY <1>3, <1>4, ColumnsAssumption DEF Levels
  <1>6. Ties(h)
    BY <1>5 DEF NodesLevel
  <1>7. Ties(CHOOSE f : Ties(f))
    <2>. HIDE DEF Ties
    <2>. QED BY <1>6
  <1>8. Ties(Nodes)
    BY <1>7 DEF Nodes
  <1>. QED
    BY <1>8 DEF NodesLevel

FieldsLevel(k, below) ==
  IF k = 0 THEN {} ELSE FieldsOver(below)

LEMMA FieldsTie ==
  ASSUME NEW d \in Levels
  PROVE  Fields[d] = FieldsLevel(d, Fields[d - 1])
  <1>. DEFINE Is(n, g) == \A k \in 0 .. n : g[k] = FieldsLevel(k, g[k - 1])
              T == {n \in Nat : \E g : Is(n, g)}
              Ties(g) ==
                g = [k \in Levels |-> IF k = 0 THEN {} ELSE FieldsOver(g[k - 1])]
  <1>1. 0 \in T
    <2>. DEFINE g == [k \in -1 .. 0 |-> IF k = 0 THEN FieldsLevel(0, {}) ELSE {}]
    <2>1. Is(0, g)
      OBVIOUS
    <2>. HIDE DEF g, Is
    <2>. QED BY <2>1
  <1>2. ASSUME NEW n \in Nat, n \in T
        PROVE  n + 1 \in T
    <2>1. PICK g : Is(n, g)
      BY <1>2
    <2>2. PICK h : Continues(h, g, n, FieldsLevel(n + 1, g[n]))
      BY OneMoreLevel
    <2>3. ASSUME NEW k \in 0 .. n
          PROVE  h[k] = FieldsLevel(k, h[k - 1])
      <3>1. h[k] = g[k] /\ h[k - 1] = g[k - 1]
        BY <2>2 DEF Continues
      <3>. QED BY <2>1, <3>1
    <2>4. h[n] = g[n] /\ (n + 1) - 1 = n
      BY <2>2 DEF Continues
    <2>5. Is(n + 1, h)
      BY <2>2, <2>3, <2>4 DEF Continues
    <2>. HIDE DEF Is
    <2>. QED BY <2>5
  <1>3. PICK g : Is(Depth, g)
    <2>. HIDE DEF Is
    <2>. QED BY <1>1, <1>2, NatSetInduction, ColumnsAssumption
  <1>. DEFINE h == [k \in Levels |-> g[k]]
  <1>4. \A b, c : FieldsLevel(0, b) = FieldsLevel(0, c)
    BY DEF FieldsLevel
  <1>5. ASSUME NEW k \in Levels
        PROVE  h[k] = FieldsLevel(k, h[k - 1])
    BY <1>3, <1>4, ColumnsAssumption DEF Levels
  <1>6. Ties(h)
    BY <1>5 DEF FieldsLevel
  <1>7. Ties(CHOOSE f : Ties(f))
    <2>. HIDE DEF Ties
    <2>. QED BY <1>6
  <1>8. Ties(Fields)
    BY <1>7 DEF Fields
  <1>. QED
    BY <1>8 DEF FieldsLevel

ValuesLevel(k, below) ==
  IF k = 0 THEN {} ELSE ValuesOver(below)

LEMMA ValuesTie ==
  ASSUME NEW d \in Levels
  PROVE  Values[d] = ValuesLevel(d, Values[d - 1])
  <1>. DEFINE Is(n, g) == \A k \in 0 .. n : g[k] = ValuesLevel(k, g[k - 1])
              T == {n \in Nat : \E g : Is(n, g)}
              Ties(g) ==
                g = [k \in Levels |-> IF k = 0 THEN {} ELSE ValuesOver(g[k - 1])]
  <1>1. 0 \in T
    <2>. DEFINE g == [k \in -1 .. 0 |-> IF k = 0 THEN ValuesLevel(0, {}) ELSE {}]
    <2>1. Is(0, g)
      OBVIOUS
    <2>. HIDE DEF g, Is
    <2>. QED BY <2>1
  <1>2. ASSUME NEW n \in Nat, n \in T
        PROVE  n + 1 \in T
    <2>1. PICK g : Is(n, g)
      BY <1>2
    <2>2. PICK h : Continues(h, g, n, ValuesLevel(n + 1, g[n]))
      BY OneMoreLevel
    <2>3. ASSUME NEW k \in 0 .. n
          PROVE  h[k] = ValuesLevel(k, h[k - 1])
      <3>1. h[k] = g[k] /\ h[k - 1] = g[k - 1]
        BY <2>2 DEF Continues
      <3>. QED BY <2>1, <3>1
    <2>4. h[n] = g[n] /\ (n + 1) - 1 = n
      BY <2>2 DEF Continues
    <2>5. Is(n + 1, h)
      BY <2>2, <2>3, <2>4 DEF Continues
    <2>. HIDE DEF Is
    <2>. QED BY <2>5
  <1>3. PICK g : Is(Depth, g)
    <2>. HIDE DEF Is
    <2>. QED BY <1>1, <1>2, NatSetInduction, ColumnsAssumption
  <1>. DEFINE h == [k \in Levels |-> g[k]]
  <1>4. \A b, c : ValuesLevel(0, b) = ValuesLevel(0, c)
    BY DEF ValuesLevel
  <1>5. ASSUME NEW k \in Levels
        PROVE  h[k] = ValuesLevel(k, h[k - 1])
    BY <1>3, <1>4, ColumnsAssumption DEF Levels
  <1>6. Ties(h)
    BY <1>5 DEF ValuesLevel
  <1>7. Ties(CHOOSE f : Ties(f))
    <2>. HIDE DEF Ties
    <2>. QED BY <1>6
  <1>8. Ties(Values)
    BY <1>7 DEF Values
  <1>. QED
    BY <1>8 DEF ValuesLevel

ArraysLevel(k, below) ==
  IF k = 0 THEN {} ELSE ArraysOver(below)

LEMMA ArraysTie ==
  ASSUME NEW d \in Levels
  PROVE  Arrays[d] = ArraysLevel(d, Arrays[d - 1])
  <1>. DEFINE Is(n, g) == \A k \in 0 .. n : g[k] = ArraysLevel(k, g[k - 1])
              T == {n \in Nat : \E g : Is(n, g)}
              Ties(g) ==
                g = [k \in Levels |-> IF k = 0 THEN {} ELSE ArraysOver(g[k - 1])]
  <1>1. 0 \in T
    <2>. DEFINE g == [k \in -1 .. 0 |-> IF k = 0 THEN ArraysLevel(0, {}) ELSE {}]
    <2>1. Is(0, g)
      OBVIOUS
    <2>. HIDE DEF g, Is
    <2>. QED BY <2>1
  <1>2. ASSUME NEW n \in Nat, n \in T
        PROVE  n + 1 \in T
    <2>1. PICK g : Is(n, g)
      BY <1>2
    <2>2. PICK h : Continues(h, g, n, ArraysLevel(n + 1, g[n]))
      BY OneMoreLevel
    <2>3. ASSUME NEW k \in 0 .. n
          PROVE  h[k] = ArraysLevel(k, h[k - 1])
      <3>1. h[k] = g[k] /\ h[k - 1] = g[k - 1]
        BY <2>2 DEF Continues
      <3>. QED BY <2>1, <3>1
    <2>4. h[n] = g[n] /\ (n + 1) - 1 = n
      BY <2>2 DEF Continues
    <2>5. Is(n + 1, h)
      BY <2>2, <2>3, <2>4 DEF Continues
    <2>. HIDE DEF Is
    <2>. QED BY <2>5
  <1>3. PICK g : Is(Depth, g)
    <2>. HIDE DEF Is
    <2>. QED BY <1>1, <1>2, NatSetInduction, ColumnsAssumption
  <1>. DEFINE h == [k \in Levels |-> g[k]]
  <1>4. \A b, c : ArraysLevel(0, b) = ArraysLevel(0, c)
    BY DEF ArraysLevel
  <1>5. ASSUME NEW k \in Levels
        PROVE  h[k] = ArraysLevel(k, h[k - 1])
    BY <1>3, <1>4, ColumnsAssumption DEF Levels
  <1>6. Ties(h)
    BY <1>5 DEF ArraysLevel
  <1>7. Ties(CHOOSE f : Ties(f))
    <2>. HIDE DEF Ties
    <2>. QED BY <1>6
  <1>8. Ties(Arrays)
    BY <1>7 DEF Arrays
  <1>. QED
    BY <1>8 DEF ArraysLevel

\* No level is nothing.
LEMMA NothingBelow == Nodes[0] = {} /\ Fields[0] = {} /\ Values[0] = {} /\ Arrays[0] = {}
  BY NodesTie, FieldsTie, ValuesTie, ArraysTie, ColumnsAssumption
     DEF Levels, NodesLevel, FieldsLevel, ValuesLevel, ArraysLevel

FieldOfLevel(k, below) ==
  [node \in Nodes[k] |-> schema_node_to_arrow_field(below, node)]

LEMMA FieldOfTie ==
  ASSUME NEW d \in Levels
  PROVE  FieldOf[d] = FieldOfLevel(d, FieldOf[d - 1])
  <1>. DEFINE Is(n, g) == \A k \in 0 .. n : g[k] = FieldOfLevel(k, g[k - 1])
              T == {n \in Nat : \E g : Is(n, g)}
              Ties(g) ==
                g = [k \in Levels |-> [node \in Nodes[k] |->
                       schema_node_to_arrow_field(g[k - 1], node)]]
  <1>1. 0 \in T
    <2>. DEFINE g == [k \in -1 .. 0 |-> IF k = 0 THEN FieldOfLevel(0, {}) ELSE {}]
    <2>1. Is(0, g)
      OBVIOUS
    <2>. HIDE DEF g, Is
    <2>. QED BY <2>1
  <1>2. ASSUME NEW n \in Nat, n \in T
        PROVE  n + 1 \in T
    <2>1. PICK g : Is(n, g)
      BY <1>2
    <2>2. PICK h : Continues(h, g, n, FieldOfLevel(n + 1, g[n]))
      BY OneMoreLevel
    <2>3. ASSUME NEW k \in 0 .. n
          PROVE  h[k] = FieldOfLevel(k, h[k - 1])
      <3>1. h[k] = g[k] /\ h[k - 1] = g[k - 1]
        BY <2>2 DEF Continues
      <3>. QED BY <2>1, <3>1
    <2>4. h[n] = g[n] /\ (n + 1) - 1 = n
      BY <2>2 DEF Continues
    <2>5. Is(n + 1, h)
      BY <2>2, <2>3, <2>4 DEF Continues
    <2>. HIDE DEF Is
    <2>. QED BY <2>5
  <1>3. PICK g : Is(Depth, g)
    <2>. HIDE DEF Is
    <2>. QED BY <1>1, <1>2, NatSetInduction, ColumnsAssumption
  <1>. DEFINE h == [k \in Levels |-> g[k]]
  <1>4. \A b, c : FieldOfLevel(0, b) = FieldOfLevel(0, c)
    BY NothingBelow DEF FieldOfLevel
  <1>5. ASSUME NEW k \in Levels
        PROVE  h[k] = FieldOfLevel(k, h[k - 1])
    BY <1>3, <1>4, ColumnsAssumption DEF Levels
  <1>6. Ties(h)
    BY <1>5 DEF FieldOfLevel
  <1>7. Ties(CHOOSE f : Ties(f))
    <2>. HIDE DEF Ties
    <2>. QED BY <1>6
  <1>8. Ties(FieldOf)
    BY <1>7 DEF FieldOf
  <1>. QED
    BY <1>8 DEF FieldOfLevel

AcceptsLevel(k, below) ==
  [p \in Values[k] \X Fields[k] |-> validate_value_against_field(below, p[1], p[2])]

LEMMA AcceptsTie ==
  ASSUME NEW d \in Levels
  PROVE  Accepts[d] = AcceptsLevel(d, Accepts[d - 1])
  <1>. DEFINE Is(n, g) == \A k \in 0 .. n : g[k] = AcceptsLevel(k, g[k - 1])
              T == {n \in Nat : \E g : Is(n, g)}
              Ties(g) ==
                g = [k \in Levels |-> [p \in Values[k] \X Fields[k] |->
                       validate_value_against_field(g[k - 1], p[1], p[2])]]
  <1>1. 0 \in T
    <2>. DEFINE g == [k \in -1 .. 0 |-> IF k = 0 THEN AcceptsLevel(0, {}) ELSE {}]
    <2>1. Is(0, g)
      OBVIOUS
    <2>. HIDE DEF g, Is
    <2>. QED BY <2>1
  <1>2. ASSUME NEW n \in Nat, n \in T
        PROVE  n + 1 \in T
    <2>1. PICK g : Is(n, g)
      BY <1>2
    <2>2. PICK h : Continues(h, g, n, AcceptsLevel(n + 1, g[n]))
      BY OneMoreLevel
    <2>3. ASSUME NEW k \in 0 .. n
          PROVE  h[k] = AcceptsLevel(k, h[k - 1])
      <3>1. h[k] = g[k] /\ h[k - 1] = g[k - 1]
        BY <2>2 DEF Continues
      <3>. QED BY <2>1, <3>1
    <2>4. h[n] = g[n] /\ (n + 1) - 1 = n
      BY <2>2 DEF Continues
    <2>5. Is(n + 1, h)
      BY <2>2, <2>3, <2>4 DEF Continues
    <2>. HIDE DEF Is
    <2>. QED BY <2>5
  <1>3. PICK g : Is(Depth, g)
    <2>. HIDE DEF Is
    <2>. QED BY <1>1, <1>2, NatSetInduction, ColumnsAssumption
  <1>. DEFINE h == [k \in Levels |-> g[k]]
  <1>4. \A b, c : AcceptsLevel(0, b) = AcceptsLevel(0, c)
    BY NothingBelow DEF AcceptsLevel
  <1>5. ASSUME NEW k \in Levels
        PROVE  h[k] = AcceptsLevel(k, h[k - 1])
    BY <1>3, <1>4, ColumnsAssumption DEF Levels
  <1>6. Ties(h)
    BY <1>5 DEF AcceptsLevel
  <1>7. Ties(CHOOSE f : Ties(f))
    <2>. HIDE DEF Ties
    <2>. QED BY <1>6
  <1>8. Ties(Accepts)
    BY <1>7 DEF Accepts
  <1>. QED
    BY <1>8 DEF AcceptsLevel

BuiltLevel(k, below) ==
  [p \in Seq(Values[k]) \X Fields[k] |-> parquet_values_to_arrow_array(below, p[1], p[2])]

LEMMA BuiltTie ==
  ASSUME NEW d \in Levels
  PROVE  Built[d] = BuiltLevel(d, Built[d - 1])
  <1>. DEFINE Is(n, g) == \A k \in 0 .. n : g[k] = BuiltLevel(k, g[k - 1])
              T == {n \in Nat : \E g : Is(n, g)}
              Ties(g) ==
                g = [k \in Levels |-> [p \in Seq(Values[k]) \X Fields[k] |->
                       parquet_values_to_arrow_array(g[k - 1], p[1], p[2])]]
  <1>1. 0 \in T
    <2>. DEFINE g == [k \in -1 .. 0 |-> IF k = 0 THEN BuiltLevel(0, {}) ELSE {}]
    <2>1. Is(0, g)
      OBVIOUS
    <2>. HIDE DEF g, Is
    <2>. QED BY <2>1
  <1>2. ASSUME NEW n \in Nat, n \in T
        PROVE  n + 1 \in T
    <2>1. PICK g : Is(n, g)
      BY <1>2
    <2>2. PICK h : Continues(h, g, n, BuiltLevel(n + 1, g[n]))
      BY OneMoreLevel
    <2>3. ASSUME NEW k \in 0 .. n
          PROVE  h[k] = BuiltLevel(k, h[k - 1])
      <3>1. h[k] = g[k] /\ h[k - 1] = g[k - 1]
        BY <2>2 DEF Continues
      <3>. QED BY <2>1, <3>1
    <2>4. h[n] = g[n] /\ (n + 1) - 1 = n
      BY <2>2 DEF Continues
    <2>5. Is(n + 1, h)
      BY <2>2, <2>3, <2>4 DEF Continues
    <2>. HIDE DEF Is
    <2>. QED BY <2>5
  <1>3. PICK g : Is(Depth, g)
    <2>. HIDE DEF Is
    <2>. QED BY <1>1, <1>2, NatSetInduction, ColumnsAssumption
  <1>. DEFINE h == [k \in Levels |-> g[k]]
  <1>4. \A b, c : BuiltLevel(0, b) = BuiltLevel(0, c)
    BY NothingBelow DEF BuiltLevel
  <1>5. ASSUME NEW k \in Levels
        PROVE  h[k] = BuiltLevel(k, h[k - 1])
    BY <1>3, <1>4, ColumnsAssumption DEF Levels
  <1>6. Ties(h)
    BY <1>5 DEF BuiltLevel
  <1>7. Ties(CHOOSE f : Ties(f))
    <2>. HIDE DEF Ties
    <2>. QED BY <1>6
  <1>8. Ties(Built)
    BY <1>7 DEF Built
  <1>. QED
    BY <1>8 DEF BuiltLevel

ReadBackLevel(k, below) ==
  [p \in Fields[k] \X Arrays[k] \X Nat |-> arrow_to_parquet_value(below, p[1], p[2], p[3])]

LEMMA ReadBackTie ==
  ASSUME NEW d \in Levels
  PROVE  ReadBack[d] = ReadBackLevel(d, ReadBack[d - 1])
  <1>. DEFINE Is(n, g) == \A k \in 0 .. n : g[k] = ReadBackLevel(k, g[k - 1])
              T == {n \in Nat : \E g : Is(n, g)}
              Ties(g) ==
                g = [k \in Levels |-> [p \in Fields[k] \X Arrays[k] \X Nat |->
                       arrow_to_parquet_value(g[k - 1], p[1], p[2], p[3])]]
  <1>1. 0 \in T
    <2>. DEFINE g == [k \in -1 .. 0 |-> IF k = 0 THEN ReadBackLevel(0, {}) ELSE {}]
    <2>1. Is(0, g)
      OBVIOUS
    <2>. HIDE DEF g, Is
    <2>. QED BY <2>1
  <1>2. ASSUME NEW n \in Nat, n \in T
        PROVE  n + 1 \in T
    <2>1. PICK g : Is(n, g)
      BY <1>2
    <2>2. PICK h : Continues(h, g, n, ReadBackLevel(n + 1, g[n]))
      BY OneMoreLevel
    <2>3. ASSUME NEW k \in 0 .. n
          PROVE  h[k] = ReadBackLevel(k, h[k - 1])
      <3>1. h[k] = g[k] /\ h[k - 1] = g[k - 1]
        BY <2>2 DEF Continues
      <3>. QED BY <2>1, <3>1
    <2>4. h[n] = g[n] /\ (n + 1) - 1 = n
      BY <2>2 DEF Continues
    <2>5. Is(n + 1, h)
      BY <2>2, <2>3, <2>4 DEF Continues
    <2>. HIDE DEF Is
    <2>. QED BY <2>5
  <1>3. PICK g : Is(Depth, g)
    <2>. HIDE DEF Is
    <2>. QED BY <1>1, <1>2, NatSetInduction, ColumnsAssumption
  <1>. DEFINE h == [k \in Levels |-> g[k]]
  <1>4. \A b, c : ReadBackLevel(0, b) = ReadBackLevel(0, c)
    BY NothingBelow DEF ReadBackLevel
  <1>5. ASSUME NEW k \in Levels
        PROVE  h[k] = ReadBackLevel(k, h[k - 1])
    BY <1>3, <1>4, ColumnsAssumption DEF Levels
  <1>6. Ties(h)
    BY <1>5 DEF ReadBackLevel
  <1>7. Ties(CHOOSE f : Ties(f))
    <2>. HIDE DEF Ties
    <2>. QED BY <1>6
  <1>8. Ties(ReadBack)
    BY <1>7 DEF ReadBack
  <1>. QED
    BY <1>8 DEF ReadBackLevel

LeavesOfLevel(k, below) ==
  [p \in Values[k] \X Fields[k] |-> Leaves(below, p[1], p[2])]

LEMMA LeavesOfTie ==
  ASSUME NEW d \in Levels
  PROVE  LeavesOf[d] = LeavesOfLevel(d, LeavesOf[d - 1])
  <1>. DEFINE Is(n, g) == \A k \in 0 .. n : g[k] = LeavesOfLevel(k, g[k - 1])
              T == {n \in Nat : \E g : Is(n, g)}
              Ties(g) ==
                g = [k \in Levels |-> [p \in Values[k] \X Fields[k] |->
                       Leaves(g[k - 1], p[1], p[2])]]
  <1>1. 0 \in T
    <2>. DEFINE g == [k \in -1 .. 0 |-> IF k = 0 THEN LeavesOfLevel(0, {}) ELSE {}]
    <2>1. Is(0, g)
      OBVIOUS
    <2>. HIDE DEF g, Is
    <2>. QED BY <2>1
  <1>2. ASSUME NEW n \in Nat, n \in T
        PROVE  n + 1 \in T
    <2>1. PICK g : Is(n, g)
      BY <1>2
    <2>2. PICK h : Continues(h, g, n, LeavesOfLevel(n + 1, g[n]))
      BY OneMoreLevel
    <2>3. ASSUME NEW k \in 0 .. n
          PROVE  h[k] = LeavesOfLevel(k, h[k - 1])
      <3>1. h[k] = g[k] /\ h[k - 1] = g[k - 1]
        BY <2>2 DEF Continues
      <3>. QED BY <2>1, <3>1
    <2>4. h[n] = g[n] /\ (n + 1) - 1 = n
      BY <2>2 DEF Continues
    <2>5. Is(n + 1, h)
      BY <2>2, <2>3, <2>4 DEF Continues
    <2>. HIDE DEF Is
    <2>. QED BY <2>5
  <1>3. PICK g : Is(Depth, g)
    <2>. HIDE DEF Is
    <2>. QED BY <1>1, <1>2, NatSetInduction, ColumnsAssumption
  <1>. DEFINE h == [k \in Levels |-> g[k]]
  <1>4. \A b, c : LeavesOfLevel(0, b) = LeavesOfLevel(0, c)
    BY NothingBelow DEF LeavesOfLevel
  <1>5. ASSUME NEW k \in Levels
        PROVE  h[k] = LeavesOfLevel(k, h[k - 1])
    BY <1>3, <1>4, ColumnsAssumption DEF Levels
  <1>6. Ties(h)
    BY <1>5 DEF LeavesOfLevel
  <1>7. Ties(CHOOSE f : Ties(f))
    <2>. HIDE DEF Ties
    <2>. QED BY <1>6
  <1>8. Ties(LeavesOf)
    BY <1>7 DEF LeavesOf
  <1>. QED
    BY <1>8 DEF LeavesOfLevel

StoredAsLevel(k, below) ==
  [p \in Values[k] \X Fields[k] |-> Stored(below, p[1], p[2])]

LEMMA StoredAsTie ==
  ASSUME NEW d \in Levels
  PROVE  StoredAs[d] = StoredAsLevel(d, StoredAs[d - 1])
  <1>. DEFINE Is(n, g) == \A k \in 0 .. n : g[k] = StoredAsLevel(k, g[k - 1])
              T == {n \in Nat : \E g : Is(n, g)}
              Ties(g) ==
                g = [k \in Levels |-> [p \in Values[k] \X Fields[k] |->
                       Stored(g[k - 1], p[1], p[2])]]
  <1>1. 0 \in T
    <2>. DEFINE g == [k \in -1 .. 0 |-> IF k = 0 THEN StoredAsLevel(0, {}) ELSE {}]
    <2>1. Is(0, g)
      OBVIOUS
    <2>. HIDE DEF g, Is
    <2>. QED BY <2>1
  <1>2. ASSUME NEW n \in Nat, n \in T
        PROVE  n + 1 \in T
    <2>1. PICK g : Is(n, g)
      BY <1>2
    <2>2. PICK h : Continues(h, g, n, StoredAsLevel(n + 1, g[n]))
      BY OneMoreLevel
    <2>3. ASSUME NEW k \in 0 .. n
          PROVE  h[k] = StoredAsLevel(k, h[k - 1])
      <3>1. h[k] = g[k] /\ h[k - 1] = g[k - 1]
        BY <2>2 DEF Continues
      <3>. QED BY <2>1, <3>1
    <2>4. h[n] = g[n] /\ (n + 1) - 1 = n
      BY <2>2 DEF Continues
    <2>5. Is(n + 1, h)
      BY <2>2, <2>3, <2>4 DEF Continues
    <2>. HIDE DEF Is
    <2>. QED BY <2>5
  <1>3. PICK g : Is(Depth, g)
    <2>. HIDE DEF Is
    <2>. QED BY <1>1, <1>2, NatSetInduction, ColumnsAssumption
  <1>. DEFINE h == [k \in Levels |-> g[k]]
  <1>4. \A b, c : StoredAsLevel(0, b) = StoredAsLevel(0, c)
    BY NothingBelow DEF StoredAsLevel
  <1>5. ASSUME NEW k \in Levels
        PROVE  h[k] = StoredAsLevel(k, h[k - 1])
    BY <1>3, <1>4, ColumnsAssumption DEF Levels
  <1>6. Ties(h)
    BY <1>5 DEF StoredAsLevel
  <1>7. Ties(CHOOSE f : Ties(f))
    <2>. HIDE DEF Ties
    <2>. QED BY <1>6
  <1>8. Ties(StoredAs)
    BY <1>7 DEF StoredAs
  <1>. QED
    BY <1>8 DEF StoredAsLevel

SoundLevel(k, below) ==
  [p \in Arrays[k] \X Fields[k] |-> NullsAllowed(below, p[1], p[2])]

LEMMA SoundTie ==
  ASSUME NEW d \in Levels
  PROVE  Sound[d] = SoundLevel(d, Sound[d - 1])
  <1>. DEFINE Is(n, g) == \A k \in 0 .. n : g[k] = SoundLevel(k, g[k - 1])
              T == {n \in Nat : \E g : Is(n, g)}
              Ties(g) ==
                g = [k \in Levels |-> [p \in Arrays[k] \X Fields[k] |->
                       NullsAllowed(g[k - 1], p[1], p[2])]]
  <1>1. 0 \in T
    <2>. DEFINE g == [k \in -1 .. 0 |-> IF k = 0 THEN SoundLevel(0, {}) ELSE {}]
    <2>1. Is(0, g)
      OBVIOUS
    <2>. HIDE DEF g, Is
    <2>. QED BY <2>1
  <1>2. ASSUME NEW n \in Nat, n \in T
        PROVE  n + 1 \in T
    <2>1. PICK g : Is(n, g)
      BY <1>2
    <2>2. PICK h : Continues(h, g, n, SoundLevel(n + 1, g[n]))
      BY OneMoreLevel
    <2>3. ASSUME NEW k \in 0 .. n
          PROVE  h[k] = SoundLevel(k, h[k - 1])
      <3>1. h[k] = g[k] /\ h[k - 1] = g[k - 1]
        BY <2>2 DEF Continues
      <3>. QED BY <2>1, <3>1
    <2>4. h[n] = g[n] /\ (n + 1) - 1 = n
      BY <2>2 DEF Continues
    <2>5. Is(n + 1, h)
      BY <2>2, <2>3, <2>4 DEF Continues
    <2>. HIDE DEF Is
    <2>. QED BY <2>5
  <1>3. PICK g : Is(Depth, g)
    <2>. HIDE DEF Is
    <2>. QED BY <1>1, <1>2, NatSetInduction, ColumnsAssumption
  <1>. DEFINE h == [k \in Levels |-> g[k]]
  <1>4. \A b, c : SoundLevel(0, b) = SoundLevel(0, c)
    BY NothingBelow DEF SoundLevel
  <1>5. ASSUME NEW k \in Levels
        PROVE  h[k] = SoundLevel(k, h[k - 1])
    BY <1>3, <1>4, ColumnsAssumption DEF Levels
  <1>6. Ties(h)
    BY <1>5 DEF SoundLevel
  <1>7. Ties(CHOOSE f : Ties(f))
    <2>. HIDE DEF Ties
    <2>. QED BY <1>6
  <1>8. Ties(Sound)
    BY <1>7 DEF Sound
  <1>. QED
    BY <1>8 DEF SoundLevel

----------------------------------------------------------------------------
(* What fields, values and arrays are at a level.                           *)

\* A level with anything in it is over another.
LEMMA LevelBelow ==
  ASSUME NEW d \in Levels, Fields[d] # {}
  PROVE  /\ d \in Nat \ {0} /\ d - 1 \in Levels
         /\ Fields[d] = FieldsOver(Fields[d - 1])
         /\ Values[d] = ValuesOver(Values[d - 1])
         /\ Arrays[d] = ArraysOver(Arrays[d - 1])
  <1>1. d # 0
    BY NothingBelow
  <1>2. d \in Nat \ {0} /\ d - 1 \in Levels
    BY <1>1, ColumnsAssumption DEF Levels
  <1>. QED
    BY <1>1, <1>2, FieldsTie, ValuesTie, ArraysTie
       DEF FieldsLevel, ValuesLevel, ArraysLevel

Nesting == {"List", "Map", "Struct"}

\* The type of a leaf is none that nests, and has a unit that it may have.
LEMMA LeafTypeFacts ==
  ASSUME NEW t \in LeafTypes
  PROVE  /\ t.type \notin Nesting
         /\ ValueOf(t.type) \notin {"Null", "List", "Map", "Record"} \cup DOMAIN Timestamps
         /\ t.type = "Time32" => t.unit = "ms"
         /\ t.type = "Time64" => t.unit \in {"us", "ns"}
         /\ t.type = "Timestamp" => t.tz \in {"", "UTC"}
  <1>1. PICK p \in Primitives : t = primitive_type_to_arrow(p)
    BY DEF LeafTypes
  <1>2. p.prim \in PrimitiveTypes
    BY ColumnsAssumption
  <1>3. t.type = "Timestamp" => t.tz \in {"", "UTC"}
    <2>1. CASE p.prim \in DOMAIN Timestamps
      <3>1. t = [type |-> "Timestamp", unit |-> Timestamps[p.prim], tz |-> UTC(p.tz)]
        BY <1>1, <2>1 DEF primitive_type_to_arrow, Timestamps
      <3>. QED BY <3>1 DEF UTC
    <2>2. CASE p.prim \notin DOMAIN Timestamps
      <3>1. t.type # "Timestamp"
        BY <1>1, <1>2, <2>2 DEF primitive_type_to_arrow, PrimitiveTypes
      <3>. QED BY <3>1
    <2>. QED BY <2>1, <2>2
  <1>4. /\ t.type = "Time32" => t.unit = "ms"
        /\ t.type = "Time64" => t.unit \in {"us", "ns"}
    BY <1>1, <1>2 DEF primitive_type_to_arrow, PrimitiveTypes
  <1>5. t.type \in (PrimitiveTypes \ (DOMAIN Timestamps \cup {"String", "FixedLenByteArray",
                                          "TimeMillis", "TimeMicros", "TimeNanos"}))
                     \cup {"Utf8", "FixedSizeBinary", "Time32", "Time64", "Timestamp"}
    BY <1>1, <1>2 DEF primitive_type_to_arrow, Timestamps
  <1>6. /\ t.type \notin Nesting
        /\ ValueOf(t.type) \notin {"Null", "List", "Map", "Record"} \cup DOMAIN Timestamps
    BY <1>5 DEF PrimitiveTypes, Nesting, ValueOf, Timestamps
  <1>. QED BY <1>3, <1>4, <1>6

LEMMA FieldCases ==
  ASSUME NEW below, NEW f \in FieldsOver(below)
  PROVE  /\ f.name \in FieldNames /\ f.nullable \in BOOLEAN
         /\ f.type.type \notin Nesting => f.type \in LeafTypes
         /\ f.type.type = "List" => f.type.item \in below
         /\ f.type.type = "Map" => f.type.key \in below /\ f.type.value \in below
         /\ f.type.type = "Struct" => f.type.fields \in Seq(below)
  <1>1. /\ f.name \in FieldNames /\ f.nullable \in BOOLEAN
        /\ \/ f.type \in LeafTypes
           \/ f.type \in [type : {"List"}, item : below]
           \/ f.type \in [type : {"Map"}, key : below, value : below]
           \/ f.type \in [type : {"Struct"}, fields : Seq(below)]
    BY DEF FieldsOver, TypesOver
  <1>. QED
    BY <1>1, LeafTypeFacts DEF Nesting

LEMMA ValueCases ==
  ASSUME NEW below, NEW v \in ValuesOver(below)
  PROVE  /\ v.is = "Null" <=> v = Null
         /\ v.is \notin {"Null", "List", "Map", "Record"} => v \in Atoms
         /\ v.is = "List" => v.items \in Seq(below)
         /\ v.is = "Map" => v.entries \in Seq(below \X below)
         /\ v.is = "Record" => v.fields \in [FieldNames -> below \cup {Missing}]
  <1>1. \/ v = Null
        \/ v \in Atoms
        \/ v \in [is : {"List"}, items : Seq(below)]
        \/ v \in [is : {"Map"}, entries : Seq(below \X below)]
        \/ v \in [is : {"Record"}, fields : [FieldNames -> below \cup {Missing}]]
    BY DEF ValuesOver
  <1>. QED
    BY <1>1, ColumnsAssumption DEF Null

\* Induction over levels: a set with each level for which it has the one below
\* has all of them.
LEMMA LevelInduction ==
  ASSUME NEW T, \A d \in Levels : (d # 0 => d - 1 \in Levels /\ d - 1 \in T) => d \in T
  PROVE  \A d \in Levels : d \in T
  <1>. DEFINE R == {n \in Nat : n \in Levels => n \in T}
  <1>1. 0 \in R
    OBVIOUS
  <1>2. ASSUME NEW n \in Nat, n \in R
        PROVE  n + 1 \in R
    <2>. SUFFICES ASSUME n + 1 \in Levels
                  PROVE  n + 1 \in T
      OBVIOUS
    <2>1. n \in Levels /\ (n + 1) - 1 = n
      BY ColumnsAssumption DEF Levels
    <2>2. n \in T
      BY <1>2, <2>1
    <2>. QED BY <2>1, <2>2
  <1>3. \A n \in Nat : n \in R
    <2>. HIDE DEF R
    <2>. QED BY <1>1, <1>2, NatSetInduction
  <1>. QED BY <1>3, ColumnsAssumption DEF Levels

\* What the functions of levels are at a level.
LEMMA FieldOfAt ==
  ASSUME NEW d \in Levels, NEW node \in Nodes[d]
  PROVE  FieldOf[d][node] = schema_node_to_arrow_field(FieldOf[d - 1], node)
  BY FieldOfTie DEF FieldOfLevel

LEMMA AcceptsAt ==
  ASSUME NEW d \in Levels, NEW v \in Values[d], NEW f \in Fields[d]
  PROVE  Accepts[d][<<v, f>>] = validate_value_against_field(Accepts[d - 1], v, f)
  BY AcceptsTie DEF AcceptsLevel

LEMMA BuiltAt ==
  ASSUME NEW d \in Levels, NEW values \in Seq(Values[d]), NEW f \in Fields[d]
  PROVE  Built[d][<<values, f>>] = parquet_values_to_arrow_array(Built[d - 1], values, f)
  BY BuiltTie DEF BuiltLevel

LEMMA ReadBackAt ==
  ASSUME NEW d \in Levels, NEW f \in Fields[d], NEW array \in Arrays[d], NEW i \in Nat
  PROVE  ReadBack[d][<<f, array, i>>] = arrow_to_parquet_value(ReadBack[d - 1], f, array, i)
  BY ReadBackTie DEF ReadBackLevel

LEMMA LeavesOfAt ==
  ASSUME NEW d \in Levels, NEW v \in Values[d], NEW f \in Fields[d]
  PROVE  LeavesOf[d][<<v, f>>] = Leaves(LeavesOf[d - 1], v, f)
  BY LeavesOfTie DEF LeavesOfLevel

LEMMA StoredAsAt ==
  ASSUME NEW d \in Levels, NEW v \in Values[d], NEW f \in Fields[d]
  PROVE  StoredAs[d][<<v, f>>] = Stored(StoredAs[d - 1], v, f)
  BY StoredAsTie DEF StoredAsLevel

LEMMA SoundAt ==
  ASSUME NEW d \in Levels, NEW array \in Arrays[d], NEW f \in Fields[d]
  PROVE  Sound[d][<<array, f>>] = NullsAllowed(Sound[d - 1], array, f)
  BY SoundTie DEF SoundLevel

----------------------------------------------------------------------------
(* Schemas become fields.                                                   *)

LEMMA NodeCases ==
  ASSUME NEW below, NEW node \in validate_schema_node(below)
  PROVE  /\ node.name \in FieldNames /\ node.nullable \in BOOLEAN
         /\ \/ node.node = "Primitive" /\ node.of \in Primitives
            \/ node.node = "List" /\ node.item \in below
            \/ node.node = "Map" /\ node.key \in below /\ node.value \in below
            \/ node.node = "Struct" /\ node.fields \in Seq(below)
  BY DEF validate_schema_node, Leaf, FieldNames

LEMMA FieldOver ==
  ASSUME NEW below, NEW name \in FieldNames, NEW type \in TypesOver(below),
         NEW nullable \in BOOLEAN, NEW extension \in {"uuid", "none"}
  PROVE  Field(name, type, nullable, extension) \in FieldsOver(below)
  BY DEF Field, FieldsOver

\* A field made anew of the type of another one.
LEMMA FieldAnew ==
  ASSUME NEW d \in Levels, NEW g \in Fields[d], NEW name \in FieldNames, NEW nullable \in BOOLEAN
  PROVE  Field(name, g.type, nullable, "none") \in Fields[d]
  <1>1. Fields[d] = FieldsOver(Fields[d - 1])
    BY LevelBelow
  <1>2. g.type \in TypesOver(Fields[d - 1])
    BY <1>1 DEF FieldsOver
  <1>. QED
    BY <1>1, <1>2, FieldOver

LEMMA FieldOfType ==
  ASSUME NEW d \in Levels, NEW node \in Nodes[d]
  PROVE  FieldOf[d][node] \in Fields[d]
  <1>. DEFINE T == {n \in Nat : n \in Levels => \A k \in Nodes[n] : FieldOf[n][k] \in Fields[n]}
  <1>1. 0 \in T
    BY NothingBelow
  <1>2. ASSUME NEW n \in Nat, n \in T
        PROVE  n + 1 \in T
    <2>. SUFFICES ASSUME n + 1 \in Levels, NEW k \in Nodes[n + 1]
                  PROVE  FieldOf[n + 1][k] \in Fields[n + 1]
      OBVIOUS
    <2>. DEFINE below == FieldOf[n]
    <2>1. n \in Levels /\ (n + 1) - 1 = n /\ n + 1 # 0
      BY ColumnsAssumption DEF Levels
    <2>2. \A m \in Nodes[n] : below[m] \in Fields[n]
      BY <1>2, <2>1
    <2>3. k \in validate_schema_node(Nodes[n])
      BY <2>1, NodesTie DEF NodesLevel
    <2>4. Fields[n + 1] = FieldsOver(Fields[n])
      BY <2>1, FieldsTie DEF FieldsLevel
    <2>5. FieldOf[n + 1][k] = schema_node_to_arrow_field(below, k)
      BY <2>1, FieldOfAt
    <2>. HIDE DEF below
    <2>6. k.name \in FieldNames /\ k.nullable \in BOOLEAN
      BY <2>3, NodeCases
    <2>a. \A m \in Nodes[n] : below[m].nullable \in BOOLEAN /\ below[m].name \in FieldNames
      BY <2>1, <2>2, LevelBelow, FieldCases
    <2>7. CASE k.node = "Primitive"
      <3>1. primitive_type_to_arrow(k.of) \in TypesOver(Fields[n])
        BY <2>3, <2>7, NodeCases DEF LeafTypes, TypesOver
      <3>2. schema_node_to_arrow_field(below, k) =
              Field(k.name, primitive_type_to_arrow(k.of), k.nullable,
                    IF k.format = "uuid" THEN "uuid" ELSE "none")
        BY <2>7 DEF schema_node_to_arrow_field
      <3>. QED BY <2>4, <2>5, <2>6, <3>1, <3>2, FieldOver
    <2>8. CASE k.node = "List"
      <3>1. k.item \in Nodes[n]
        BY <2>3, <2>8, NodeCases
      <3>2. Field("item", below[k.item].type, below[k.item].nullable, "none") \in Fields[n]
        BY <2>1, <2>2, <2>a, <3>1, FieldAnew DEF FieldNames
      <3>3. schema_node_to_arrow_field(below, k) =
              Field(k.name, [type |-> "List", item |->
                Field("item", below[k.item].type, below[k.item].nullable, "none")],
                k.nullable, "none")
        BY <2>8 DEF schema_node_to_arrow_field
      <3>. DEFINE item == Field("item", below[k.item].type, below[k.item].nullable, "none")
      <3>4. [type |-> "List", item |-> item] \in TypesOver(Fields[n])
        BY <3>2 DEF TypesOver
      <3>. HIDE DEF item
      <3>. QED BY <2>4, <2>5, <2>6, <3>3, <3>4, FieldOver DEF item
    <2>9. CASE k.node = "Map"
      <3>. DEFINE key == below[k.key]
                  value == below[k.value]
      <3>1. k.key \in Nodes[n] /\ k.value \in Nodes[n]
        BY <2>3, <2>9, NodeCases
      <3>2. /\ Field(key.name, key.type, FALSE, "none") \in Fields[n]
            /\ Field(value.name, value.type, value.nullable, "none") \in Fields[n]
        BY <2>1, <2>2, <2>a, <3>1, FieldAnew
      <3>3. schema_node_to_arrow_field(below, k) =
              Field(k.name, [type |-> "Map",
                key |-> Field(key.name, key.type, FALSE, "none"),
                value |-> Field(value.name, value.type, value.nullable, "none")],
                k.nullable, "none")
        BY <2>9 DEF schema_node_to_arrow_field
      <3>. HIDE DEF key, value
      <3>4. [type |-> "Map", key |-> Field(key.name, key.type, FALSE, "none"),
             value |-> Field(value.name, value.type, value.nullable, "none")]
              \in TypesOver(Fields[n])
        BY <3>2 DEF TypesOver
      <3>. QED BY <2>4, <2>5, <2>6, <3>3, <3>4, FieldOver
    <2>10. CASE k.node = "Struct"
      <3>. DEFINE fields == [i \in DOMAIN k.fields |-> below[k.fields[i]]]
      <3>1. k.fields \in Seq(Nodes[n])
        BY <2>3, <2>10, NodeCases
      <3>2. fields \in Seq(Fields[n])
        BY <2>2, <3>1
      <3>3. schema_node_to_arrow_field(below, k) =
              Field(k.name, [type |-> "Struct", fields |-> fields], k.nullable, "none")
        BY <2>10 DEF schema_node_to_arrow_field
      <3>. HIDE DEF fields
      <3>4. [type |-> "Struct", fields |-> fields] \in TypesOver(Fields[n])
        BY <3>2 DEF TypesOver
      <3>. QED BY <2>4, <2>5, <2>6, <3>3, <3>4, FieldOver
    <2>. QED
      BY <2>3, <2>7, <2>8, <2>9, <2>10, NodeCases
  <1>3. d \in T
    <2>. HIDE DEF T
    <2>. QED BY <1>1, <1>2, NatSetInduction, ColumnsAssumption DEF Levels
  <1>. QED BY <1>3

----------------------------------------------------------------------------
(* Leaves.                                                                  *)

\* What validation accepts for a leaf the builder refuses only for its unit.
LEMMA LeafOfAnotherUnit ==
  ASSUME NEW t \in LeafTypes, NEW v, LeafRule(v, t), ~Builds(v, t)
  PROVE  WrongUnit(v, t)
  <1>. DEFINE kind == t.type
  <1>1. CASE kind \in {"FixedSizeBinary", "Decimal128", "Decimal256"}
    BY <1>1 DEF LeafRule, Builds, Times
  <1>2. CASE kind = "Time32"
    <2>1. v.is = "TimeMillis" /\ t.unit = "ms"
      BY <1>2, LeafTypeFacts DEF LeafRule
    <2>. QED BY <1>2, <2>1 DEF Builds, Times
  <1>3. CASE kind = "Time64"
    <2>1. v.is \in {"TimeMicros", "TimeNanos"} /\ t.unit \in {"us", "ns"}
      BY <1>3, LeafTypeFacts DEF LeafRule
    <2>2. v.is # Times.Time64[t.unit]
      BY <1>3, <2>1 DEF Builds, Times
    <2>. QED BY <1>3, <2>1, <2>2 DEF WrongUnit
  <1>4. CASE kind = "Timestamp"
    BY <1>4 DEF LeafRule, Builds, WrongUnit, Times
  <1>5. CASE kind \notin {"FixedSizeBinary", "Decimal128", "Decimal256", "Time32", "Time64",
                         "Timestamp"}
    BY <1>5 DEF LeafRule, Builds, Times
  <1>. QED
    BY <1>1, <1>2, <1>3, <1>4, <1>5

\* What is built for a leaf is an atom.
LEMMA BuiltAtom ==
  ASSUME NEW t \in LeafTypes, NEW v, Builds(v, t)
  PROVE  v.is \notin {"Null", "List", "Map", "Record"}
  <1>. DEFINE kind == t.type
  <1>1. CASE kind \in {"FixedSizeBinary", "Decimal128", "Decimal256"}
    BY <1>1 DEF Builds, FitsBinary, FitsDecimal, Times
  <1>2. CASE kind \in {"Time32", "Time64"}
    <2>1. t.unit \in {"ms", "us", "ns"} /\ v.is = Times[kind][t.unit]
      BY <1>2, LeafTypeFacts DEF Builds, Times
    <2>2. t.unit \in DOMAIN Times[kind]
      BY <1>2 DEF Builds, Times
    <2>. QED BY <1>2, <2>1, <2>2 DEF Times
  <1>3. CASE kind = "Timestamp"
    BY <1>3 DEF Builds, Times, Timestamps
  <1>4. CASE kind \notin {"FixedSizeBinary", "Decimal128", "Decimal256", "Time32", "Time64",
                         "Timestamp"}
    <2>1. v.is = ValueOf(kind) \/ (kind \in DOMAIN Narrower /\ v.is \in Narrower[kind])
      BY <1>4 DEF Builds, Times
    <2>2. kind \in DOMAIN Narrower /\ v.is \in Narrower[kind]
            => v.is \notin {"Null", "List", "Map", "Record"}
      BY DEF Narrower
    <2>. QED BY <2>1, <2>2, LeafTypeFacts
  <1>. QED
    BY <1>1, <1>2, <1>3, <1>4

\* A value that validation accepts for a leaf is stored as it is.
LEMMA AcceptedUnchanged ==
  ASSUME NEW t \in LeafTypes, NEW v, LeafRule(v, t) \/ v.is = "Null"
  PROVE  Widened(v, t) = v
  BY DEF LeafRule, Widened, Narrower, ValueOf

LEMMA WidenedSlot ==
  ASSUME NEW below, NEW v \in ValuesOver(below), NEW t \in LeafTypes,
         v.is = "Null" \/ Builds(v, t)
  PROVE  Widened(v, t) \in Slots
  <1>1. v \in {Null} \cup Atoms
    BY BuiltAtom, ValueCases
  <1>2. CASE t.type \in DOMAIN Narrower /\ v.is \in Narrower[t.type]
    <2>1. v.is # "Null"
      BY <1>2 DEF Narrower
    <2>2. v \in Atoms
      BY <1>1, <2>1 DEF Null
    <2>. QED BY <1>2, <2>2 DEF Widened, Slots
  <1>3. CASE ~(t.type \in DOMAIN Narrower /\ v.is \in Narrower[t.type])
    BY <1>1, <1>3 DEF Widened, Slots
  <1>. QED BY <1>2, <1>3

----------------------------------------------------------------------------
(* Offsets: where the items of each value of a column are among those       *)
(* flattened.                                                               *)

LEMMA OffsetsAre ==
  ASSUME NEW S, NEW ss \in Seq(Seq(S))
  PROVE  /\ Offsets(ss) \in Seq(Nat) /\ Len(Offsets(ss)) = Len(ss) + 1
         /\ Offsets(ss)[1] = 0 /\ Offsets(ss)[Len(ss) + 1] = Len(FlattenSeq(ss))
         /\ \A k \in 1 .. Len(ss) : Offsets(ss)[k + 1] = Offsets(ss)[k] + Len(ss[k])
  <1>. DEFINE U(n) == [i \in 1 .. n |-> ss[i]]
              F(n) == FlattenSeq(U(n))
  <1>1. Len(ss) \in Nat /\ \A k \in 1 .. Len(ss) : ss[k] \in Seq(S) /\ Len(ss[k]) \in Nat
    BY LenProperties, ElementOfSeq
  <1>2. ASSUME NEW n \in 0 .. Len(ss)
        PROVE  SubSeq(ss, 1, n) = U(n)
    BY <1>1
  <1>3. ASSUME NEW n \in 0 .. Len(ss)
        PROVE  Len(F(n)) \in Nat
    <2>1. F(n) \in Seq(S)
      BY FlattenUpto
    <2>. QED BY <2>1, LenProperties
  <1>4. F(0) = <<>> /\ F(Len(ss)) = FlattenSeq(ss)
    <2>1. U(0) = <<>> /\ U(Len(ss)) = ss
      BY <1>1
    <2>. QED BY <2>1, FlattenEmpty
  <1>5. ASSUME NEW k \in 1 .. Len(ss)
        PROVE  Len(F(k)) = Len(F(k - 1)) + Len(ss[k])
    <2>1. k - 1 \in 0 .. Len(ss) /\ k - 1 < Len(ss) /\ (k - 1) + 1 = k
      BY <1>1
    <2>2. F(k - 1) \in Seq(S) /\ F((k - 1) + 1) = F(k - 1) \o ss[(k - 1) + 1]
      BY <2>1, FlattenUpto
    <2>. HIDE DEF F
    <2>3. F(k) = F(k - 1) \o ss[k]
      BY <2>1, <2>2
    <2>. QED BY <1>1, <2>2, <2>3, ConcatProperties
  <1>6. \A i \in 1 .. Len(ss) + 1 :
          i - 1 \in 0 .. Len(ss) /\ SubSeq(ss, 1, i - 1) = U(i - 1)
    BY <1>1, <1>2
  <1>. HIDE DEF U
  <1>7. Offsets(ss) = [i \in 1 .. Len(ss) + 1 |-> Len(F(i - 1))]
    BY <1>6 DEF Offsets
  <1>. HIDE DEF F
  <1>8. /\ Offsets(ss) \in Seq(Nat) /\ Len(Offsets(ss)) = Len(ss) + 1
        /\ \A i \in 1 .. Len(ss) + 1 : Offsets(ss)[i] = Len(F(i - 1))
    BY <1>1, <1>3, <1>6, <1>7
  <1>9. \A k \in 1 .. Len(ss) : Offsets(ss)[k + 1] = Offsets(ss)[k] + Len(ss[k])
    <2>1. \A k \in 1 .. Len(ss) : k \in 1 .. Len(ss) + 1 /\ k + 1 \in 1 .. Len(ss) + 1
                                  /\ (k + 1) - 1 = k
      BY <1>1
    <2>. QED BY <1>5, <1>8, <2>1
  <1>10. Offsets(ss)[1] = 0 /\ Offsets(ss)[Len(ss) + 1] = Len(FlattenSeq(ss))
    <2>1. /\ 1 \in 1 .. Len(ss) + 1 /\ Len(ss) + 1 \in 1 .. Len(ss) + 1
          /\ 1 - 1 = 0 /\ (Len(ss) + 1) - 1 = Len(ss)
      BY <1>1
    <2>2. Offsets(ss)[1] = Len(F(0)) /\ Offsets(ss)[Len(ss) + 1] = Len(F(Len(ss)))
      BY <1>8, <2>1
    <2>. QED BY <1>4, <2>2, EmptySeq
  <1>. QED BY <1>8, <1>9, <1>10

\* One offset after another.
LEMMA NextOffset ==
  ASSUME NEW S, NEW ss \in Seq(Seq(S)), NEW k \in 1 .. Len(ss)
  PROVE  Offsets(ss)[k] \in Nat /\ Offsets(ss)[k + 1] - Offsets(ss)[k] = Len(ss[k])
  <1>1. /\ Offsets(ss) \in Seq(Nat) /\ Len(Offsets(ss)) = Len(ss) + 1
        /\ Offsets(ss)[k + 1] = Offsets(ss)[k] + Len(ss[k])
    BY OffsetsAre
  <1>2. k \in 1 .. Len(ss) + 1 /\ k + 1 \in 1 .. Len(ss) + 1
    BY LenProperties
  <1>3. Offsets(ss)[k] \in Nat /\ Len(ss[k]) \in Nat
    BY <1>1, <1>2, ElementOfSeq, LenProperties
  <1>4. \A x, n \in Nat : (x + n) - x = n
    OBVIOUS
  <1>. QED BY <1>1, <1>3, <1>4, Zenon

\* The items of a value are found at its offset.
LEMMA ItemsAtOffsets ==
  ASSUME NEW S, NEW ss \in Seq(Seq(S)), NEW k \in 1 .. Len(ss), NEW j \in 1 .. Len(ss[k])
  PROVE  /\ Offsets(ss)[k] \in Nat
         /\ Offsets(ss)[k] + j \in 1 .. Len(FlattenSeq(ss))
         /\ FlattenSeq(ss)[Offsets(ss)[k] + j] = ss[k][j]
  <1>. DEFINE F(n) == FlattenSeq([i \in 1 .. n |-> ss[i]])
  <1>1. Len(ss) \in Nat /\ ss[k] \in Seq(S) /\ Len(ss[k]) \in Nat
    BY LenProperties, ElementOfSeq
  <1>2. /\ k \in 0 .. Len(ss) /\ k - 1 \in 0 .. Len(ss) /\ k - 1 < Len(ss) /\ (k - 1) + 1 = k
    BY <1>1
  <1>3. F(k - 1) \in Seq(S) /\ F((k - 1) + 1) = F(k - 1) \o ss[(k - 1) + 1]
    BY <1>2, FlattenUpto
  <1>4. F(k) \in Seq(S) /\ IsPrefix(F(k), F(Len(ss)))
    BY <1>2, FlattenUpto
  <1>5. F(Len(ss)) = FlattenSeq(ss)
    <2>1. [i \in 1 .. Len(ss) |-> ss[i]] = ss
      BY <1>1
    <2>. QED BY <2>1
  <1>6. Offsets(ss)[k] = Len(F(k - 1))
    <2>1. SubSeq(ss, 1, k - 1) = [i \in 1 .. k - 1 |-> ss[i]]
      BY <1>1, <1>2
    <2>2. k \in 1 .. Len(ss) + 1
      BY <1>1
    <2>. QED BY <2>1, <2>2 DEF Offsets
  <1>. HIDE DEF F
  <1>7. FlattenSeq(ss) \in Seq(S)
    BY FlattenType
  <1>8. PICK t \in Seq(S) : FlattenSeq(ss) = F(k) \o t
    BY <1>4, <1>5, <1>7, PrefixExtends, ZenonT(40)
  <1>9. Len(F(k - 1)) \in Nat /\ Len(F(k)) = Len(F(k - 1)) + Len(ss[k])
        /\ F(k)[Len(F(k - 1)) + j] = ss[k][j]
    <2>1. F(k) = F(k - 1) \o ss[k]
      BY <1>2, <1>3
    <2>2. Len(F(k - 1)) \in Nat
      BY <1>3, LenProperties
    <2>. QED BY <1>1, <1>3, <2>1, <2>2, ConcatElements
  <1>10. /\ Len(F(k - 1)) + j \in 1 .. Len(F(k)) /\ Len(t) \in Nat
         /\ Len(F(k - 1)) + j \in 1 .. Len(F(k)) + Len(t)
    <2>1. Len(t) \in Nat /\ j \in Nat /\ 1 <= j /\ j <= Len(ss[k])
      BY <1>1, LenProperties
    <2>2. ASSUME NEW a \in Nat, NEW b \in Nat, NEW c \in Nat, j <= b
          PROVE  a + j \in 1 .. a + b /\ a + j \in 1 .. (a + b) + c
      BY <2>1, <2>2
    <2>. QED BY <1>1, <1>9, <2>1, <2>2
  <1>11. /\ FlattenSeq(ss)[Len(F(k - 1)) + j] = F(k)[Len(F(k - 1)) + j]
         /\ Len(FlattenSeq(ss)) = Len(F(k)) + Len(t)
    BY <1>4, <1>8, <1>10, ConcatElements
  <1>. QED BY <1>6, <1>9, <1>10, <1>11

\* What was flattened is an item of some value.
LEMMA FlattenedFrom ==
  ASSUME NEW S, NEW ss \in Seq(Seq(S)), NEW n \in 1 .. Len(FlattenSeq(ss))
  PROVE  \E k \in 1 .. Len(ss) : \E j \in 1 .. Len(ss[k]) :
           n = Offsets(ss)[k] + j /\ FlattenSeq(ss)[n] = ss[k][j]
  <1>. DEFINE T == {k \in 1 .. Len(ss) : n <= Offsets(ss)[k + 1]}
  <1>1. Len(ss) \in Nat /\ \A k \in 1 .. Len(ss) : Len(ss[k]) \in Nat
    BY LenProperties, ElementOfSeq
  <1>2. \A k \in 1 .. Len(ss) + 1 : Offsets(ss)[k] \in Nat
    <2>1. Len(Offsets(ss)) = Len(ss) + 1 /\ Offsets(ss) \in Seq(Nat)
      BY OffsetsAre
    <2>. QED BY <2>1, ElementOfSeq
  <1>3. Offsets(ss)[1] = 0 /\ Offsets(ss)[Len(ss) + 1] = Len(FlattenSeq(ss))
    BY OffsetsAre
  <1>4. Len(ss) \in T
    <2>1. Len(ss) # 0
      BY <1>3
    <2>. QED BY <1>1, <1>3, <2>1
  <1>5. PICK k \in T : \A l \in T : k <= l
    <2>0. \A l \in T : l \in Nat
      BY <1>1
    <2>1. T \subseteq Nat /\ T # {}
      <3>. HIDE DEF T
      <3>. QED BY <1>4, <2>0
    <2>. HIDE DEF T
    <2>. QED BY <2>1, LeastElement
  <1>6. k \in 1 .. Len(ss) /\ n <= Offsets(ss)[k + 1] /\ k + 1 \in 1 .. Len(ss) + 1
        /\ k \in 1 .. Len(ss) + 1
    BY <1>1
  <1>7. Offsets(ss)[k] < n
    <2>1. CASE k = 1
      BY <1>3, <2>1
    <2>2. CASE k # 1
      <3>1. k - 1 \in 1 .. Len(ss) /\ k - 1 < k /\ (k - 1) + 1 = k
        BY <1>6, <2>2
      <3>2. k - 1 \notin T
        <4>. HIDE DEF T
        <4>. QED BY <1>5, <1>6, <3>1
      <3>3. ~(n <= Offsets(ss)[k])
        BY <3>1, <3>2
      <3>. QED BY <1>2, <1>6, <3>3
    <2>. QED BY <2>1, <2>2
  <1>8. Offsets(ss)[k + 1] = Offsets(ss)[k] + Len(ss[k])
    BY <1>6, OffsetsAre
  <1>. DEFINE j == n - Offsets(ss)[k]
  <1>9. j \in 1 .. Len(ss[k]) /\ n = Offsets(ss)[k] + j
    <2>1. Offsets(ss)[k] \in Nat /\ Len(ss[k]) \in Nat /\ n \in Nat
          /\ Offsets(ss)[k] < n /\ n <= Offsets(ss)[k] + Len(ss[k])
      BY <1>1, <1>2, <1>6, <1>7, <1>8
    <2>2. ASSUME NEW a \in Nat, NEW b \in Nat, NEW c \in Nat, a < c, c <= a + b
          PROVE  c - a \in 1 .. b /\ c = a + (c - a)
      BY <2>2
    <2>. QED BY <2>1, <2>2
  <1>10. FlattenSeq(ss)[n] = ss[k][j]
    <2>. HIDE DEF j
    <2>. QED BY <1>6, <1>9, ItemsAtOffsets
  <1>. QED BY <1>6, <1>9, <1>10

\* The same, without where it starts.
LEMMA FlattenedItem ==
  ASSUME NEW S, NEW ss \in Seq(Seq(S)), NEW n \in 1 .. Len(FlattenSeq(ss))
  PROVE  \E k \in 1 .. Len(ss) : \E j \in 1 .. Len(ss[k]) : FlattenSeq(ss)[n] = ss[k][j]
  <1>1. PICK k \in 1 .. Len(ss) : \E j \in 1 .. Len(ss[k]) :
          n = Offsets(ss)[k] + j /\ FlattenSeq(ss)[n] = ss[k][j]
    BY FlattenedFrom
  <1>. QED BY <1>1

----------------------------------------------------------------------------
(* Columns: the child columns of one are over the level below.              *)

Items(vs) == [i \in DOMAIN vs |-> ItemsOf(vs[i])]
Entries(vs) == [i \in DOMAIN vs |-> EntriesOf(vs[i])]

LEMMA NullIsAValue ==
  ASSUME NEW d \in Levels, Fields[d] # {}
  PROVE  Null \in Values[d]
  BY LevelBelow DEF ValuesOver

LEMMA ItemsOfColumn ==
  ASSUME NEW below, NEW vs \in Seq(ValuesOver(below)), Are(vs, "List")
  PROVE  /\ Items(vs) \in Seq(Seq(below)) /\ Len(Items(vs)) = Len(vs)
         /\ \A i \in 1 .. Len(vs) : Items(vs)[i] = ItemsOf(vs[i])
         /\ FlattenSeq(Items(vs)) \in Seq(below)
  <1>1. DOMAIN vs = 1 .. Len(vs) /\ Len(vs) \in Nat
    BY LenProperties
  <1>2. ASSUME NEW i \in 1 .. Len(vs)
        PROVE  ItemsOf(vs[i]) \in Seq(below)
    <2>1. vs[i] \in ValuesOver(below) /\ vs[i].is \in {"List", "Null"}
      BY <1>1, ElementOfSeq DEF Are
    <2>. QED BY <2>1, ValueCases, EmptySeq DEF ItemsOf
  <1>3. /\ Items(vs) \in Seq(Seq(below)) /\ Len(Items(vs)) = Len(vs)
        /\ \A i \in 1 .. Len(vs) : Items(vs)[i] = ItemsOf(vs[i])
    BY <1>1, <1>2 DEF Items
  <1>. QED BY <1>3, FlattenType

LEMMA EntriesOfColumn ==
  ASSUME NEW below, NEW vs \in Seq(ValuesOver(below)), Are(vs, "Map")
  PROVE  /\ Entries(vs) \in Seq(Seq(below \X below)) /\ Len(Entries(vs)) = Len(vs)
         /\ \A i \in 1 .. Len(vs) : Entries(vs)[i] = EntriesOf(vs[i])
         /\ FlattenSeq(Entries(vs)) \in Seq(below \X below)
  <1>1. DOMAIN vs = 1 .. Len(vs) /\ Len(vs) \in Nat
    BY LenProperties
  <1>2. ASSUME NEW i \in 1 .. Len(vs)
        PROVE  EntriesOf(vs[i]) \in Seq(below \X below)
    <2>1. vs[i] \in ValuesOver(below) /\ vs[i].is \in {"Map", "Null"}
      BY <1>1, ElementOfSeq DEF Are
    <2>. QED BY <2>1, ValueCases, EmptySeq DEF EntriesOf
  <1>3. /\ Entries(vs) \in Seq(Seq(below \X below)) /\ Len(Entries(vs)) = Len(vs)
        /\ \A i \in 1 .. Len(vs) : Entries(vs)[i] = EntriesOf(vs[i])
    BY <1>1, <1>2 DEF Entries
  <1>. QED BY <1>3, FlattenType

LEMMA SideOfPairs ==
  ASSUME NEW below, NEW pairs \in Seq(below \X below), NEW k \in {1, 2}
  PROVE  /\ Side(pairs, k) \in Seq(below) /\ Len(Side(pairs, k)) = Len(pairs)
         /\ \A i \in 1 .. Len(pairs) : Side(pairs, k)[i] = pairs[i][k]
  <1>1. DOMAIN pairs = 1 .. Len(pairs) /\ Len(pairs) \in Nat
        /\ \A i \in 1 .. Len(pairs) : pairs[i] \in below \X below
    BY LenProperties, ElementOfSeq
  <1>2. \A i \in 1 .. Len(pairs) : pairs[i][k] \in below
    BY <1>1
  <1>. QED BY <1>1, <1>2 DEF Side

LEMMA ChildOfColumn ==
  ASSUME NEW below, NEW vs \in Seq(ValuesOver(below)), Are(vs, "Record"),
         NEW name \in FieldNames, Null \in below
  PROVE  /\ ChildColumn(vs, name) \in Seq(below) /\ Len(ChildColumn(vs, name)) = Len(vs)
         /\ \A i \in 1 .. Len(vs) :
              ChildColumn(vs, name)[i] =
                IF vs[i].is # "Null" /\ vs[i].fields[name] # Missing
                THEN vs[i].fields[name] ELSE Null
  <1>1. DOMAIN vs = 1 .. Len(vs) /\ Len(vs) \in Nat
    BY LenProperties
  <1>2. ASSUME NEW i \in 1 .. Len(vs), vs[i].is # "Null", vs[i].fields[name] # Missing
        PROVE  vs[i].fields[name] \in below
    <2>1. vs[i] \in ValuesOver(below) /\ vs[i].is = "Record"
      BY <1>1, <1>2, ElementOfSeq DEF Are
    <2>2. vs[i].fields \in [FieldNames -> below \cup {Missing}]
      BY <2>1, ValueCases
    <2>. QED BY <1>2, <2>2
  <1>. QED BY <1>1, <1>2 DEF ChildColumn

LEMMA MaskOfColumn ==
  ASSUME NEW S, NEW vs \in Seq(S)
  PROVE  /\ NotNull(vs) \in Seq(BOOLEAN) /\ Len(NotNull(vs)) = Len(vs)
         /\ DOMAIN NotNull(vs) = 1 .. Len(vs)
         /\ \A i \in 1 .. Len(vs) : NotNull(vs)[i] = (vs[i].is # "Null")
  <1>1. DOMAIN vs = 1 .. Len(vs) /\ Len(vs) \in Nat
    BY LenProperties
  <1>. QED BY <1>1 DEF NotNull

----------------------------------------------------------------------------
(* What is built, by the kind of the type.                                  *)

\* The children of a column that are built for it, at the level below.
ListChild(d, vs, f) == Built[d - 1][<<FlattenSeq(Items(vs)), f.type.item>>]
MapKeys(d, vs, f) == Built[d - 1][<<Side(FlattenSeq(Entries(vs)), 1), f.type.key>>]
MapVals(d, vs, f) == Built[d - 1][<<Side(FlattenSeq(Entries(vs)), 2), f.type.value>>]
StructChild(d, vs, f, c) ==
  Built[d - 1][<<ChildColumn(vs, f.type.fields[c].name), f.type.fields[c]>>]

LEMMA BuiltList ==
  ASSUME NEW d \in Levels, NEW f \in Fields[d], NEW vs \in Seq(Values[d]),
         f.type.type = "List"
  PROVE  /\ Built[d][<<vs, f>>] # {} <=> Are(vs, "List") /\ ListChild(d, vs, f) # {}
         /\ \A a \in Built[d][<<vs, f>>] :
              /\ Are(vs, "List") /\ a.child \in ListChild(d, vs, f)
              /\ a = [valid |-> NotNull(vs), offsets |-> Offsets(Items(vs)), child |-> a.child]
  <1>1. Built[d][<<vs, f>>] =
          IF Are(vs, "List") THEN build_list_array(Built[d - 1], vs, f.type) ELSE {}
    BY BuiltAt DEF parquet_values_to_arrow_array
  <1>2. build_list_array(Built[d - 1], vs, f.type) =
          {[valid |-> NotNull(vs), offsets |-> Offsets(Items(vs)), child |-> child] :
             child \in ListChild(d, vs, f)}
    BY DEF build_list_array, ListChild, Items
  <1>3. Built[d][<<vs, f>>] # {} <=> Are(vs, "List") /\ ListChild(d, vs, f) # {}
    BY <1>1, <1>2, ZenonT(40)
  <1>4. ASSUME NEW a \in Built[d][<<vs, f>>]
        PROVE  /\ Are(vs, "List") /\ a.child \in ListChild(d, vs, f)
               /\ a = [valid |-> NotNull(vs), offsets |-> Offsets(Items(vs)), child |-> a.child]
    <2>1. Are(vs, "List")
      BY <1>1
    <2>2. PICK child \in ListChild(d, vs, f) :
            a = [valid |-> NotNull(vs), offsets |-> Offsets(Items(vs)), child |-> child]
      BY <1>1, <1>2, <2>1
    <2>. QED BY <2>1, <2>2
  <1>. QED BY <1>3, <1>4

MapArray(vs, keys, vals) ==
  [valid |-> NotNull(vs), offsets |-> Offsets(Entries(vs)), keys |-> keys, vals |-> vals]

LEMMA BuiltMap ==
  ASSUME NEW d \in Levels, NEW f \in Fields[d], NEW vs \in Seq(Values[d]),
         f.type.type = "Map"
  PROVE  /\ Built[d][<<vs, f>>] # {} <=>
              Are(vs, "Map") /\ MapKeys(d, vs, f) # {} /\ MapVals(d, vs, f) # {}
         /\ \A a \in Built[d][<<vs, f>>] :
              /\ Are(vs, "Map")
              /\ a.keys \in MapKeys(d, vs, f) /\ a.vals \in MapVals(d, vs, f)
              /\ a = MapArray(vs, a.keys, a.vals)
  <1>1. Built[d][<<vs, f>>] =
          IF Are(vs, "Map") THEN build_map_array(Built[d - 1], vs, f.type) ELSE {}
    BY BuiltAt DEF parquet_values_to_arrow_array
  <1>2. build_map_array(Built[d - 1], vs, f.type) =
          {MapArray(vs, keys, vals) : keys \in MapKeys(d, vs, f), vals \in MapVals(d, vs, f)}
    BY DEF build_map_array, MapKeys, MapVals, MapArray, Entries
  <1>3. Built[d][<<vs, f>>] # {} <=>
          Are(vs, "Map") /\ MapKeys(d, vs, f) # {} /\ MapVals(d, vs, f) # {}
    <2>1. ASSUME NEW keys \in MapKeys(d, vs, f), NEW vals \in MapVals(d, vs, f)
          PROVE  build_map_array(Built[d - 1], vs, f.type) # {}
      <3>1. MapArray(vs, keys, vals) \in build_map_array(Built[d - 1], vs, f.type)
        BY <1>2
      <3>. QED BY <3>1
    <2>2. ASSUME build_map_array(Built[d - 1], vs, f.type) # {}
          PROVE  MapKeys(d, vs, f) # {} /\ MapVals(d, vs, f) # {}
      BY <1>2, <2>2
    <2>. QED BY <1>1, <2>1, <2>2
  <1>4. ASSUME NEW a \in Built[d][<<vs, f>>]
        PROVE  /\ Are(vs, "Map")
               /\ a.keys \in MapKeys(d, vs, f) /\ a.vals \in MapVals(d, vs, f)
               /\ a = MapArray(vs, a.keys, a.vals)
    <2>1. Are(vs, "Map")
      BY <1>1
    <2>2. PICK keys \in MapKeys(d, vs, f), vals \in MapVals(d, vs, f) :
            a = MapArray(vs, keys, vals)
      BY <1>1, <1>2, <2>1
    <2>3. a.keys = keys /\ a.vals = vals
      BY <2>2 DEF MapArray
    <2>. QED BY <2>1, <2>2, <2>3
  <1>. QED BY <1>3, <1>4

\* The columns of a struct, if all are built.
ChildArrays(d, vs, f) ==
  LET built == [c \in DOMAIN f.type.fields |-> StructChild(d, vs, f, c)]
  IN  [c \in DOMAIN built |-> CHOOSE a \in built[c] : TRUE]

LEMMA BuiltStruct ==
  ASSUME NEW d \in Levels, NEW f \in Fields[d], NEW vs \in Seq(Values[d]),
         f.type.type = "Struct"
  PROVE  /\ Built[d][<<vs, f>>] # {} <=>
              /\ Are(vs, "Record")
              /\ \A c \in DOMAIN f.type.fields : StructChild(d, vs, f, c) # {}
         /\ \A a \in Built[d][<<vs, f>>] :
              /\ Are(vs, "Record")
              /\ \A c \in DOMAIN f.type.fields : a.columns[c] \in StructChild(d, vs, f, c)
              /\ a = [valid |-> NotNull(vs), columns |-> ChildArrays(d, vs, f)]
  <1>. DEFINE built == [i \in DOMAIN f.type.fields |-> StructChild(d, vs, f, i)]
              columns == ChildArrays(d, vs, f)
  <1>1. Built[d][<<vs, f>>] =
          IF Are(vs, "Record") THEN build_struct_array(Built[d - 1], vs, f.type) ELSE {}
    BY BuiltAt DEF parquet_values_to_arrow_array
  <1>2. build_struct_array(Built[d - 1], vs, f.type) =
          IF \A i \in DOMAIN f.type.fields : built[i] # {}
          THEN {[valid |-> NotNull(vs), columns |-> columns]}
          ELSE {}
    BY DEF build_struct_array, StructChild, ChildArrays
  <1>3. (\A i \in DOMAIN f.type.fields : built[i] # {})
          => \A c \in DOMAIN f.type.fields : columns[c] \in StructChild(d, vs, f, c)
    BY DEF ChildArrays
  <1>4. \A i \in DOMAIN f.type.fields : built[i] = StructChild(d, vs, f, i)
    OBVIOUS
  <1>. HIDE DEF built, columns
  <1>5. Built[d][<<vs, f>>] # {} <=>
          Are(vs, "Record") /\ \A c \in DOMAIN f.type.fields : StructChild(d, vs, f, c) # {}
    BY <1>1, <1>2, <1>4
  <1>6. ASSUME NEW a \in Built[d][<<vs, f>>]
        PROVE  /\ Are(vs, "Record")
               /\ \A c \in DOMAIN f.type.fields : a.columns[c] \in StructChild(d, vs, f, c)
               /\ a = [valid |-> NotNull(vs), columns |-> columns]
    <2>1. Are(vs, "Record") /\ \A i \in DOMAIN f.type.fields : built[i] # {}
      BY <1>1, <1>2
    <2>2. a = [valid |-> NotNull(vs), columns |-> columns]
      BY <1>1, <1>2, <2>1
    <2>. QED BY <1>3, <2>1, <2>2
  <1>. QED BY <1>5, <1>6 DEF columns

LEMMA BuiltLeaf ==
  ASSUME NEW d \in Levels, NEW f \in Fields[d], NEW vs \in Seq(Values[d]),
         f.type.type \notin Nesting
  PROVE  /\ Built[d][<<vs, f>>] # {} <=>
              \A i \in DOMAIN vs : vs[i].is = "Null" \/ Builds(vs[i], f.type)
         /\ \A a \in Built[d][<<vs, f>>] :
              a = [valid |-> NotNull(vs), data |-> [i \in DOMAIN vs |-> Widened(vs[i], f.type)]]
  <1>1. Built[d][<<vs, f>>] = build_leaf_array(vs, f.type)
    BY BuiltAt DEF parquet_values_to_arrow_array, Nesting
  <1>. QED BY <1>1 DEF build_leaf_array

----------------------------------------------------------------------------
(* The parts of a field and of its columns, at the level below.             *)

LEMMA ListParts ==
  ASSUME NEW d \in Levels, NEW f \in Fields[d], f.type.type = "List",
         NEW vs \in Seq(Values[d]), Are(vs, "List")
  PROVE  /\ d - 1 \in Levels /\ f.type.item \in Fields[d - 1]
         /\ FlattenSeq(Items(vs)) \in Seq(Values[d - 1])
         /\ Items(vs) \in Seq(Seq(Values[d - 1])) /\ Len(Items(vs)) = Len(vs)
         /\ \A i \in 1 .. Len(vs) : Items(vs)[i] = ItemsOf(vs[i])
  <1>1. /\ d - 1 \in Levels /\ Fields[d] = FieldsOver(Fields[d - 1])
        /\ Values[d] = ValuesOver(Values[d - 1])
    BY LevelBelow
  <1>. QED BY <1>1, FieldCases, ItemsOfColumn

LEMMA MapParts ==
  ASSUME NEW d \in Levels, NEW f \in Fields[d], f.type.type = "Map",
         NEW vs \in Seq(Values[d]), Are(vs, "Map")
  PROVE  LET pairs == FlattenSeq(Entries(vs))
             below == Values[d - 1]
         IN  /\ d - 1 \in Levels
             /\ f.type.key \in Fields[d - 1] /\ f.type.value \in Fields[d - 1]
             /\ pairs \in Seq(below \X below)
             /\ Side(pairs, 1) \in Seq(below) /\ Len(Side(pairs, 1)) = Len(pairs)
             /\ Side(pairs, 2) \in Seq(below) /\ Len(Side(pairs, 2)) = Len(pairs)
             /\ \A n \in 1 .. Len(pairs) :
                  Side(pairs, 1)[n] = pairs[n][1] /\ Side(pairs, 2)[n] = pairs[n][2]
             /\ Entries(vs) \in Seq(Seq(below \X below)) /\ Len(Entries(vs)) = Len(vs)
             /\ \A i \in 1 .. Len(vs) : Entries(vs)[i] = EntriesOf(vs[i])
  <1>1. /\ d - 1 \in Levels /\ Fields[d] = FieldsOver(Fields[d - 1])
        /\ Values[d] = ValuesOver(Values[d - 1])
    BY LevelBelow
  <1>2. f.type.key \in Fields[d - 1] /\ f.type.value \in Fields[d - 1]
    BY <1>1, FieldCases
  <1>. DEFINE pairs == FlattenSeq(Entries(vs))
              below == Values[d - 1]
  <1>3. /\ pairs \in Seq(below \X below)
        /\ Entries(vs) \in Seq(Seq(below \X below)) /\ Len(Entries(vs)) = Len(vs)
        /\ \A i \in 1 .. Len(vs) : Entries(vs)[i] = EntriesOf(vs[i])
    BY <1>1, EntriesOfColumn
  <1>. HIDE DEF pairs, below
  <1>4. ASSUME NEW k \in {1, 2}
        PROVE  /\ Side(pairs, k) \in Seq(below) /\ Len(Side(pairs, k)) = Len(pairs)
               /\ \A n \in 1 .. Len(pairs) : Side(pairs, k)[n] = pairs[n][k]
    <2>1. pairs \in Seq(below \X below)
      BY <1>3
    <2>2. Side(pairs, k) \in Seq(below)
      BY <2>1, SideOfPairs
    <2>3. Len(Side(pairs, k)) = Len(pairs)
      BY <2>1, SideOfPairs
    <2>4. ASSUME NEW n \in 1 .. Len(pairs)
          PROVE  Side(pairs, k)[n] = pairs[n][k]
      BY <2>1, SideOfPairs
    <2>. QED BY <2>2, <2>3, <2>4
  <1>. QED BY <1>1, <1>2, <1>3, <1>4 DEF pairs, below

LEMMA StructParts ==
  ASSUME NEW d \in Levels, NEW f \in Fields[d], f.type.type = "Struct",
         NEW vs \in Seq(Values[d]), Are(vs, "Record"), NEW c \in DOMAIN f.type.fields
  PROVE  LET g == f.type.fields[c]
         IN  /\ d - 1 \in Levels /\ g \in Fields[d - 1]
             /\ g.name \in FieldNames /\ Null \in Values[d - 1]
             /\ ChildColumn(vs, g.name) \in Seq(Values[d - 1])
             /\ Len(ChildColumn(vs, g.name)) = Len(vs)
             /\ \A i \in 1 .. Len(vs) :
                  ChildColumn(vs, g.name)[i] =
                    IF vs[i].is # "Null" /\ vs[i].fields[g.name] # Missing
                    THEN vs[i].fields[g.name] ELSE Null
  <1>. DEFINE g == f.type.fields[c]
  <1>1. /\ d - 1 \in Levels /\ Fields[d] = FieldsOver(Fields[d - 1])
        /\ Values[d] = ValuesOver(Values[d - 1])
    BY LevelBelow
  <1>2. g \in Fields[d - 1]
    <2>1. f.type.fields \in Seq(Fields[d - 1])
      BY <1>1, FieldCases
    <2>. QED BY <2>1, ElementOfSeq
  <1>. HIDE DEF g
  <1>3. g.name \in FieldNames /\ Null \in Values[d - 1]
    BY <1>1, <1>2, LevelBelow, FieldCases, NullIsAValue, SMTT(40)
  <1>4. /\ ChildColumn(vs, g.name) \in Seq(Values[d - 1])
        /\ Len(ChildColumn(vs, g.name)) = Len(vs)
        /\ \A i \in 1 .. Len(vs) :
             ChildColumn(vs, g.name)[i] =
               IF vs[i].is # "Null" /\ vs[i].fields[g.name] # Missing
               THEN vs[i].fields[g.name] ELSE Null
    BY <1>1, <1>3, ChildOfColumn
  <1>. QED BY <1>1, <1>2, <1>3, <1>4 DEF g

\* What is built is an array, whose mask is that of the column.
LEMMA BuiltTyped ==
  \A d \in Levels : \A f \in Fields[d] : \A vs \in Seq(Values[d]) :
    \A a \in Built[d][<<vs, f>>] : a \in Arrays[d] /\ a.valid = NotNull(vs)
  <1>. DEFINE Typed(n) == \A f \in Fields[n] : \A vs \in Seq(Values[n]) :
                \A a \in Built[n][<<vs, f>>] : a \in Arrays[n] /\ a.valid = NotNull(vs)
              T == {n \in Levels : Typed(n)}
  <1>1. ASSUME NEW d \in Levels, d # 0 => d - 1 \in Levels /\ d - 1 \in T
        PROVE  d \in T
    <2>. SUFFICES ASSUME NEW f \in Fields[d], NEW vs \in Seq(Values[d]),
                         NEW a \in Built[d][<<vs, f>>]
                  PROVE  a \in Arrays[d] /\ a.valid = NotNull(vs)
      OBVIOUS
    <2>1. /\ d # 0 /\ d - 1 \in Levels /\ Fields[d] = FieldsOver(Fields[d - 1])
          /\ Arrays[d] = ArraysOver(Arrays[d - 1]) /\ Values[d] = ValuesOver(Values[d - 1])
      BY LevelBelow
    <2>2. Typed(d - 1)
      BY <1>1, <2>1
    <2>3. NotNull(vs) \in Seq(BOOLEAN)
      BY MaskOfColumn
    <2>4. CASE f.type.type = "List"
      <3>1. /\ Are(vs, "List") /\ a.child \in ListChild(d, vs, f)
            /\ a = [valid |-> NotNull(vs), offsets |-> Offsets(Items(vs)), child |-> a.child]
        BY <2>4, BuiltList
      <3>2. /\ f.type.item \in Fields[d - 1] /\ FlattenSeq(Items(vs)) \in Seq(Values[d - 1])
            /\ Items(vs) \in Seq(Seq(Values[d - 1]))
        BY <2>4, <3>1, ListParts
      <3>3. a.child \in Arrays[d - 1]
        BY <2>2, <3>1, <3>2 DEF ListChild
      <3>4. Offsets(Items(vs)) \in Seq(Nat)
        BY <3>2, OffsetsAre
      <3>. QED BY <2>1, <2>3, <3>1, <3>3, <3>4 DEF ArraysOver
    <2>5. CASE f.type.type = "Map"
      <3>1. /\ Are(vs, "Map")
            /\ a.keys \in MapKeys(d, vs, f) /\ a.vals \in MapVals(d, vs, f)
            /\ a = MapArray(vs, a.keys, a.vals)
        BY <2>5, BuiltMap
      <3>2. /\ f.type.key \in Fields[d - 1] /\ f.type.value \in Fields[d - 1]
            /\ Side(FlattenSeq(Entries(vs)), 1) \in Seq(Values[d - 1])
            /\ Side(FlattenSeq(Entries(vs)), 2) \in Seq(Values[d - 1])
            /\ Entries(vs) \in Seq(Seq(Values[d - 1] \X Values[d - 1]))
        BY <2>5, <3>1, MapParts
      <3>3. a.keys \in Arrays[d - 1] /\ a.vals \in Arrays[d - 1]
        BY <2>2, <3>1, <3>2 DEF MapKeys, MapVals
      <3>4. Offsets(Entries(vs)) \in Seq(Nat)
        BY <3>2, OffsetsAre
      <3>. QED BY <2>1, <2>3, <3>1, <3>3, <3>4 DEF ArraysOver, MapArray
    <2>6. CASE f.type.type = "Struct"
      <3>1. /\ Are(vs, "Record")
            /\ \A c \in DOMAIN f.type.fields : a.columns[c] \in StructChild(d, vs, f, c)
            /\ a = [valid |-> NotNull(vs), columns |-> ChildArrays(d, vs, f)]
        BY <2>6, BuiltStruct
      <3>2. ASSUME NEW c \in DOMAIN f.type.fields
            PROVE  a.columns[c] \in Arrays[d - 1]
        <4>1. /\ f.type.fields[c] \in Fields[d - 1]
              /\ ChildColumn(vs, f.type.fields[c].name) \in Seq(Values[d - 1])
          BY <2>6, <3>1, StructParts
        <4>. QED BY <2>2, <3>1, <4>1 DEF StructChild
      <3>3. ChildArrays(d, vs, f) \in Seq(Arrays[d - 1])
        <4>1. f.type.fields \in Seq(Fields[d - 1])
          BY <2>1, <2>6, FieldCases
        <4>2. DOMAIN f.type.fields = 1 .. Len(f.type.fields) /\ Len(f.type.fields) \in Nat
          BY <4>1, LenProperties
        <4>3. \A c \in DOMAIN f.type.fields : ChildArrays(d, vs, f)[c] \in Arrays[d - 1]
          BY <3>1, <3>2
        <4>4. ChildArrays(d, vs, f) \in [1 .. Len(f.type.fields) -> Arrays[d - 1]]
          BY <4>2, <4>3 DEF ChildArrays
        <4>. QED BY <4>2, <4>4
      <3>. QED BY <2>1, <2>3, <3>1, <3>3 DEF ArraysOver
    <2>7. CASE f.type.type \notin Nesting
      <3>1. /\ \A i \in DOMAIN vs : vs[i].is = "Null" \/ Builds(vs[i], f.type)
            /\ a = [valid |-> NotNull(vs), data |-> [i \in DOMAIN vs |-> Widened(vs[i], f.type)]]
        BY <2>7, BuiltLeaf
      <3>2. DOMAIN vs = 1 .. Len(vs) /\ Len(vs) \in Nat
        BY LenProperties
      <3>3. f.type \in LeafTypes
        BY <2>1, <2>7, FieldCases
      <3>4. \A i \in 1 .. Len(vs) : Widened(vs[i], f.type) \in Slots
        <4>1. \A i \in 1 .. Len(vs) : vs[i] \in ValuesOver(Values[d - 1])
          BY <2>1, ElementOfSeq
        <4>. QED BY <3>1, <3>2, <3>3, <4>1, WidenedSlot
      <3>5. [i \in DOMAIN vs |-> Widened(vs[i], f.type)] \in Seq(Slots)
        BY <3>2, <3>4
      <3>. QED BY <2>1, <2>3, <3>1, <3>5 DEF ArraysOver
    <2>. QED BY <2>4, <2>5, <2>6, <2>7 DEF Nesting
  <1>2. \A d \in Levels : d \in T
    <2>. HIDE DEF T
    <2>. QED BY <1>1, LevelInduction
  <1>. QED BY <1>2

----------------------------------------------------------------------------
(* A column is built if and only if each of its values is.                  *)

OfValue(d, v, f) == Built[d][<<<<v>>, f>>] # {}

ValueByValue(d) ==
  \A f \in Fields[d] : \A vs \in Seq(Values[d]) :
    Built[d][<<vs, f>>] # {} <=> \A i \in 1 .. Len(vs) : OfValue(d, vs[i], f)

\* The value of a struct's field in its child column.
ChildOf(v, name) == IF v.is # "Null" /\ v.fields[name] # Missing THEN v.fields[name] ELSE Null

\* The parts of a value are built, one by one.
ListBuilt(d, v, f) ==
  /\ v.is \in {"List", "Null"}
  /\ \A j \in 1 .. Len(ItemsOf(v)) : OfValue(d - 1, ItemsOf(v)[j], f.type.item)

MapBuilt(d, v, f) ==
  /\ v.is \in {"Map", "Null"}
  /\ \A j \in 1 .. Len(EntriesOf(v)) : /\ OfValue(d - 1, EntriesOf(v)[j][1], f.type.key)
                                       /\ OfValue(d - 1, EntriesOf(v)[j][2], f.type.value)

StructBuilt(d, v, f) ==
  /\ v.is \in {"Record", "Null"}
  /\ \A c \in DOMAIN f.type.fields :
       OfValue(d - 1, ChildOf(v, f.type.fields[c].name), f.type.fields[c])

LEMMA OneValue ==
  ASSUME NEW S, NEW v \in S
  PROVE  <<v>> \in Seq(S) /\ Len(<<v>>) = 1 /\ <<v>>[1] = v
  OBVIOUS

LEMMA ListByItems ==
  ASSUME NEW d \in Levels, NEW f \in Fields[d], f.type.type = "List", ValueByValue(d - 1),
         NEW vs \in Seq(Values[d])
  PROVE  Built[d][<<vs, f>>] # {} <=> \A i \in 1 .. Len(vs) : ListBuilt(d, vs[i], f)
  <1>0. DOMAIN vs = 1 .. Len(vs)
    BY LenProperties
  <1>1. Are(vs, "List") <=> \A i \in 1 .. Len(vs) : vs[i].is \in {"List", "Null"}
    BY <1>0 DEF Are
  <1>. SUFFICES ASSUME Are(vs, "List")
                PROVE  Built[d][<<vs, f>>] # {} <=> \A i \in 1 .. Len(vs) : ListBuilt(d, vs[i], f)
    BY <1>1, BuiltList DEF ListBuilt
  <1>. DEFINE flat == FlattenSeq(Items(vs))
              below == Values[d - 1]
  <1>2. /\ d - 1 \in Levels /\ f.type.item \in Fields[d - 1] /\ flat \in Seq(below)
        /\ Items(vs) \in Seq(Seq(below)) /\ Len(Items(vs)) = Len(vs)
        /\ \A i \in 1 .. Len(vs) : Items(vs)[i] = ItemsOf(vs[i])
    BY ListParts
  <1>3. Built[d][<<vs, f>>] # {} <=> \A n \in 1 .. Len(flat) : OfValue(d - 1, flat[n], f.type.item)
    <2>. HIDE DEF flat
    <2>1. Built[d - 1][<<flat, f.type.item>>] # {}
            <=> \A n \in 1 .. Len(flat) : OfValue(d - 1, flat[n], f.type.item)
      BY <1>2 DEF ValueByValue
    <2>2. Built[d][<<vs, f>>] # {} <=> ListChild(d, vs, f) # {}
      BY BuiltList
    <2>. QED BY <2>1, <2>2 DEF ListChild, flat
  <1>. HIDE DEF flat, below
  <1>4. ASSUME \A n \in 1 .. Len(flat) : OfValue(d - 1, flat[n], f.type.item),
               NEW i \in 1 .. Len(vs)
        PROVE  ListBuilt(d, vs[i], f)
    <2>1. ASSUME NEW j \in 1 .. Len(ItemsOf(vs[i]))
          PROVE  OfValue(d - 1, ItemsOf(vs[i])[j], f.type.item)
      <3>1. i \in 1 .. Len(Items(vs)) /\ j \in 1 .. Len(Items(vs)[i])
        BY <1>2
      <3>2. /\ Offsets(Items(vs))[i] + j \in 1 .. Len(flat)
            /\ flat[Offsets(Items(vs))[i] + j] = Items(vs)[i][j]
        BY <1>2, <3>1, ItemsAtOffsets DEF flat
      <3>. QED BY <1>2, <1>4, <3>2
    <2>. QED BY <1>1, <2>1 DEF ListBuilt
  <1>5. ASSUME \A i \in 1 .. Len(vs) : ListBuilt(d, vs[i], f),
               NEW n \in 1 .. Len(flat)
        PROVE  OfValue(d - 1, flat[n], f.type.item)
    <2>1. PICK i \in 1 .. Len(Items(vs)) : \E j \in 1 .. Len(Items(vs)[i]) :
            flat[n] = Items(vs)[i][j]
      <3>1. Items(vs) \in Seq(Seq(below))
        BY <1>2
      <3>. QED BY <3>1, FlattenedItem DEF flat
    <2>2. PICK j \in 1 .. Len(Items(vs)[i]) : flat[n] = Items(vs)[i][j]
      BY <2>1
    <2>. QED BY <1>2, <1>5, <2>1, <2>2 DEF ListBuilt
  <1>. QED BY <1>3, <1>4, <1>5

LEMMA MapByEntries ==
  ASSUME NEW d \in Levels, NEW f \in Fields[d], f.type.type = "Map", ValueByValue(d - 1),
         NEW vs \in Seq(Values[d])
  PROVE  Built[d][<<vs, f>>] # {} <=> \A i \in 1 .. Len(vs) : MapBuilt(d, vs[i], f)
  <1>0. DOMAIN vs = 1 .. Len(vs)
    BY LenProperties
  <1>1. Are(vs, "Map") <=> \A i \in 1 .. Len(vs) : vs[i].is \in {"Map", "Null"}
    BY <1>0 DEF Are
  <1>. SUFFICES ASSUME Are(vs, "Map")
                PROVE  Built[d][<<vs, f>>] # {} <=> \A i \in 1 .. Len(vs) : MapBuilt(d, vs[i], f)
    BY <1>1, BuiltMap DEF MapBuilt
  <1>. DEFINE flat == FlattenSeq(Entries(vs))
              below == Values[d - 1]
              Both(pair) == /\ OfValue(d - 1, pair[1], f.type.key)
                            /\ OfValue(d - 1, pair[2], f.type.value)
  <1>2. /\ d - 1 \in Levels /\ f.type.key \in Fields[d - 1] /\ f.type.value \in Fields[d - 1]
        /\ flat \in Seq(below \X below)
        /\ Side(flat, 1) \in Seq(below) /\ Len(Side(flat, 1)) = Len(flat)
        /\ Side(flat, 2) \in Seq(below) /\ Len(Side(flat, 2)) = Len(flat)
        /\ \A n \in 1 .. Len(flat) : Side(flat, 1)[n] = flat[n][1] /\ Side(flat, 2)[n] = flat[n][2]
        /\ Entries(vs) \in Seq(Seq(below \X below)) /\ Len(Entries(vs)) = Len(vs)
        /\ \A i \in 1 .. Len(vs) : Entries(vs)[i] = EntriesOf(vs[i])
    BY MapParts
  <1>3. Built[d][<<vs, f>>] # {} <=> \A n \in 1 .. Len(flat) : Both(flat[n])
    <2>. HIDE DEF flat
    <2>. DEFINE ks == Side(flat, 1)
                ws == Side(flat, 2)
    <2>0. /\ d - 1 \in Levels /\ f.type.key \in Fields[d - 1] /\ f.type.value \in Fields[d - 1]
          /\ ks \in Seq(Values[d - 1]) /\ Len(ks) = Len(flat)
          /\ ws \in Seq(Values[d - 1]) /\ Len(ws) = Len(flat)
          /\ \A n \in 1 .. Len(flat) : ks[n] = flat[n][1] /\ ws[n] = flat[n][2]
      BY <1>2
    <2>. HIDE DEF ks, ws
    <2>1. Built[d - 1][<<ks, f.type.key>>] # {}
            <=> \A n \in 1 .. Len(flat) : OfValue(d - 1, ks[n], f.type.key)
      BY <2>0 DEF ValueByValue
    <2>2. Built[d - 1][<<ws, f.type.value>>] # {}
            <=> \A n \in 1 .. Len(flat) : OfValue(d - 1, ws[n], f.type.value)
      BY <2>0 DEF ValueByValue
    <2>3. Built[d][<<vs, f>>] # {} <=> MapKeys(d, vs, f) # {} /\ MapVals(d, vs, f) # {}
      BY BuiltMap
    <2>. QED BY <2>0, <2>1, <2>2, <2>3 DEF MapKeys, MapVals, flat, ks, ws
  <1>. HIDE DEF flat, below
  <1>4. ASSUME \A n \in 1 .. Len(flat) : Both(flat[n]), NEW i \in 1 .. Len(vs)
        PROVE  MapBuilt(d, vs[i], f)
    <2>1. ASSUME NEW j \in 1 .. Len(EntriesOf(vs[i]))
          PROVE  Both(EntriesOf(vs[i])[j])
      <3>1. i \in 1 .. Len(Entries(vs)) /\ j \in 1 .. Len(Entries(vs)[i])
        BY <1>2
      <3>2. /\ Offsets(Entries(vs))[i] + j \in 1 .. Len(flat)
            /\ flat[Offsets(Entries(vs))[i] + j] = Entries(vs)[i][j]
        BY <1>2, <3>1, ItemsAtOffsets DEF flat
      <3>. QED BY <1>2, <1>4, <3>2
    <2>. QED BY <1>1, <2>1 DEF MapBuilt
  <1>5. ASSUME \A i \in 1 .. Len(vs) : MapBuilt(d, vs[i], f), NEW n \in 1 .. Len(flat)
        PROVE  Both(flat[n])
    <2>0. Entries(vs) \in Seq(Seq(below \X below))
      BY <1>2
    <2>1. PICK i \in 1 .. Len(Entries(vs)) : \E j \in 1 .. Len(Entries(vs)[i]) :
            flat[n] = Entries(vs)[i][j]
      <3>1. Entries(vs) \in Seq(Seq(below \X below))
        BY <2>0
      <3>. QED BY <3>1, FlattenedItem DEF flat
    <2>2. PICK j \in 1 .. Len(Entries(vs)[i]) : flat[n] = Entries(vs)[i][j]
      BY <2>1
    <2>. QED BY <1>2, <1>5, <2>1, <2>2 DEF MapBuilt
  <1>. QED BY <1>3, <1>4, <1>5

LEMMA StructByFields ==
  ASSUME NEW d \in Levels, NEW f \in Fields[d], f.type.type = "Struct", ValueByValue(d - 1),
         NEW vs \in Seq(Values[d])
  PROVE  Built[d][<<vs, f>>] # {} <=> \A i \in 1 .. Len(vs) : StructBuilt(d, vs[i], f)
  <1>0. DOMAIN vs = 1 .. Len(vs)
    BY LenProperties
  <1>1. Are(vs, "Record") <=> \A i \in 1 .. Len(vs) : vs[i].is \in {"Record", "Null"}
    BY <1>0 DEF Are
  <1>. SUFFICES ASSUME Are(vs, "Record")
                PROVE  Built[d][<<vs, f>>] # {}
                         <=> \A i \in 1 .. Len(vs) : StructBuilt(d, vs[i], f)
    BY <1>1, BuiltStruct DEF StructBuilt
  <1>2. ASSUME NEW c \in DOMAIN f.type.fields
        PROVE  StructChild(d, vs, f, c) # {} <=>
                 \A i \in 1 .. Len(vs) :
                   OfValue(d - 1, ChildOf(vs[i], f.type.fields[c].name), f.type.fields[c])
    <2>. DEFINE g == f.type.fields[c]
                child == ChildColumn(vs, g.name)
    <2>1. /\ d - 1 \in Levels /\ g \in Fields[d - 1] /\ child \in Seq(Values[d - 1])
          /\ Len(child) = Len(vs)
          /\ \A i \in 1 .. Len(vs) : child[i] = ChildOf(vs[i], g.name)
      BY StructParts DEF ChildOf
    <2>. HIDE DEF g, child
    <2>2. Built[d - 1][<<child, g>>] # {} <=> \A i \in 1 .. Len(vs) : OfValue(d - 1, child[i], g)
      BY <2>1 DEF ValueByValue
    <2>. QED BY <2>1, <2>2 DEF StructChild, g, child
  <1>3. Built[d][<<vs, f>>] # {} <=> \A c \in DOMAIN f.type.fields : StructChild(d, vs, f, c) # {}
    BY BuiltStruct
  <1>. QED BY <1>1, <1>2, <1>3 DEF StructBuilt

LEMMA ColumnsAreBuiltValueByValue ==
  \A d \in Levels : ValueByValue(d)
  <1>. DEFINE T == {n \in Levels : ValueByValue(n)}
  <1>1. ASSUME NEW d \in Levels, d # 0 => d - 1 \in Levels /\ d - 1 \in T
        PROVE  d \in T
    <2>. SUFFICES ASSUME NEW f \in Fields[d], NEW vs \in Seq(Values[d])
                  PROVE  Built[d][<<vs, f>>] # {}
                           <=> \A i \in 1 .. Len(vs) : OfValue(d, vs[i], f)
      BY DEF ValueByValue
    <2>1. d # 0
      BY LevelBelow
    <2>2. ValueByValue(d - 1)
      BY <1>1, <2>1
    <2>3. /\ DOMAIN vs = 1 .. Len(vs) /\ Len(vs) \in Nat
          /\ \A i \in 1 .. Len(vs) : vs[i] \in Values[d]
      BY LenProperties, ElementOfSeq
    <2>4. \A v \in Values[d] : <<v>> \in Seq(Values[d]) /\ Len(<<v>>) = 1 /\ <<v>>[1] = v
      BY OneValue
    <2>5. CASE f.type.type = "List"
      <3>1. \A v \in Values[d] : OfValue(d, v, f) <=> ListBuilt(d, v, f)
        BY <2>2, <2>4, <2>5, ListByItems DEF OfValue
      <3>. QED BY <2>2, <2>3, <2>5, <3>1, ListByItems
    <2>6. CASE f.type.type = "Map"
      <3>1. \A v \in Values[d] : OfValue(d, v, f) <=> MapBuilt(d, v, f)
        BY <2>2, <2>4, <2>6, MapByEntries DEF OfValue
      <3>. QED BY <2>2, <2>3, <2>6, <3>1, MapByEntries
    <2>7. CASE f.type.type = "Struct"
      <3>1. \A v \in Values[d] : OfValue(d, v, f) <=> StructBuilt(d, v, f)
        BY <2>2, <2>4, <2>7, StructByFields DEF OfValue
      <3>. QED BY <2>2, <2>3, <2>7, <3>1, StructByFields
    <2>8. CASE f.type.type \notin Nesting
      <3>. DEFINE Ok(v) == v.is = "Null" \/ Builds(v, f.type)
      <3>1. ASSUME NEW ws \in Seq(Values[d])
            PROVE  Built[d][<<ws, f>>] # {} <=> \A i \in 1 .. Len(ws) : Ok(ws[i])
        <4>1. DOMAIN ws = 1 .. Len(ws)
          BY LenProperties
        <4>. QED BY <2>8, <4>1, BuiltLeaf
      <3>. HIDE DEF Ok
      <3>2. ASSUME NEW v \in Values[d]
            PROVE  OfValue(d, v, f) <=> Ok(v)
        <4>1. Built[d][<<<<v>>, f>>] # {} <=> \A i \in 1 .. Len(<<v>>) : Ok(<<v>>[i])
          BY <2>4, <3>1
        <4>. QED BY <2>4, <4>1 DEF OfValue
      <3>. QED BY <2>3, <3>1, <3>2
    <2>. QED BY <2>5, <2>6, <2>7, <2>8 DEF Nesting
  <1>. QED
    <2>. HIDE DEF T
    <2>1. \A d \in Levels : d \in T
      BY <1>1, LevelInduction
    <2>. QED BY <2>1 DEF T

----------------------------------------------------------------------------
(* Accepted values.  A column of accepted values has child columns that     *)
(* fit: values that are accepted, or null below a null struct.              *)

Accepted(d, vs, f) ==
  vs \in Seq(Values[d]) /\ \A i \in 1 .. Len(vs) : Accepts[d][<<vs[i], f>>]

Fitting(d, vs, f) ==
  /\ vs \in Seq(Values[d])
  /\ \A i \in 1 .. Len(vs) : vs[i].is = "Null" \/ Accepts[d][<<vs[i], f>>]

LEMMA AcceptedFits ==
  ASSUME NEW d, NEW vs, NEW f, Accepted(d, vs, f)
  PROVE  Fitting(d, vs, f)
  BY DEF Accepted, Fitting

LEMMA AcceptsNull ==
  ASSUME NEW d \in Levels, NEW f \in Fields[d], NEW v \in Values[d], v.is = "Null"
  PROVE  Accepts[d][<<v, f>>] <=> f.nullable
  <1>1. Accepts[d][<<v, f>>] = validate_value_against_field(Accepts[d - 1], v, f)
    BY AcceptsAt
  <1>2. validate_value_against_field(Accepts[d - 1], v, f) = f.nullable
    BY DEF validate_value_against_field
  <1>. QED BY <1>1, <1>2

\* What an accepted value that is not null is, by the kind of the type.
LEMMA AcceptsList ==
  ASSUME NEW d \in Levels, NEW f \in Fields[d], f.type.type = "List",
         NEW v \in Values[d], v.is # "Null", Accepts[d][<<v, f>>]
  PROVE  /\ v.is = "List" /\ v.items \in Seq(Values[d - 1])
         /\ \A j \in 1 .. Len(v.items) : Accepts[d - 1][<<v.items[j], f.type.item>>]
  <1>1. validate_value_against_field(Accepts[d - 1], v, f)
    BY AcceptsAt
  <1>2. v.is = "List" /\ \A j \in DOMAIN v.items : Accepts[d - 1][<<v.items[j], f.type.item>>]
    BY <1>1 DEF validate_value_against_field
  <1>3. v.items \in Seq(Values[d - 1])
    BY <1>2, LevelBelow, ValueCases
  <1>4. DOMAIN v.items = 1 .. Len(v.items)
    BY <1>3, LenProperties
  <1>. QED BY <1>2, <1>3, <1>4

LEMMA AcceptsMap ==
  ASSUME NEW d \in Levels, NEW f \in Fields[d], f.type.type = "Map",
         NEW v \in Values[d], v.is # "Null", Accepts[d][<<v, f>>]
  PROVE  /\ v.is = "Map" /\ v.entries \in Seq(Values[d - 1] \X Values[d - 1])
         /\ \A j \in 1 .. Len(v.entries) : /\ Accepts[d - 1][<<v.entries[j][1], f.type.key>>]
                                           /\ Accepts[d - 1][<<v.entries[j][2], f.type.value>>]
  <1>1. validate_value_against_field(Accepts[d - 1], v, f)
    BY AcceptsAt
  <1>2. /\ v.is = "Map"
        /\ \A j \in DOMAIN v.entries : /\ Accepts[d - 1][<<v.entries[j][1], f.type.key>>]
                                       /\ Accepts[d - 1][<<v.entries[j][2], f.type.value>>]
    BY <1>1 DEF validate_value_against_field
  <1>3. v.entries \in Seq(Values[d - 1] \X Values[d - 1])
    BY <1>2, LevelBelow, ValueCases
  <1>4. DOMAIN v.entries = 1 .. Len(v.entries)
    BY <1>3, LenProperties
  <1>. QED BY <1>2, <1>3, <1>4

LEMMA AcceptsStruct ==
  ASSUME NEW d \in Levels, NEW f \in Fields[d], f.type.type = "Struct",
         NEW v \in Values[d], v.is # "Null", Accepts[d][<<v, f>>],
         NEW c \in DOMAIN f.type.fields
  PROVE  LET g == f.type.fields[c]
         IN  /\ v.is = "Record"
             /\ v.fields[g.name] # Missing => Accepts[d - 1][<<v.fields[g.name], g>>]
             /\ v.fields[g.name] = Missing => g.nullable
  <1>. DEFINE g == f.type.fields[c]
  <1>1. validate_value_against_field(Accepts[d - 1], v, f)
    BY AcceptsAt
  <1>2. v.is = "Record" /\ IF v.fields[g.name] # Missing
                           THEN Accepts[d - 1][<<v.fields[g.name], g>>] ELSE Absent(g)
    BY <1>1 DEF validate_value_against_field
  <1>. QED BY <1>2 DEF Absent

LEMMA AcceptsRecord ==
  ASSUME NEW d \in Levels, NEW f \in Fields[d], f.type.type = "Struct",
         NEW v \in Values[d], v.is # "Null", Accepts[d][<<v, f>>]
  PROVE  v.is = "Record"
  <1>1. validate_value_against_field(Accepts[d - 1], v, f)
    BY AcceptsAt
  <1>. QED BY <1>1 DEF validate_value_against_field

LEMMA AcceptsLeaf ==
  ASSUME NEW d \in Levels, NEW f \in Fields[d], f.type.type \notin Nesting,
         NEW v \in Values[d], v.is # "Null", Accepts[d][<<v, f>>]
  PROVE  LeafRule(v, f.type)
  <1>1. validate_value_against_field(Accepts[d - 1], v, f)
    BY AcceptsAt
  <1>. QED BY <1>1 DEF validate_value_against_field, Nesting

\* The child columns of a column that fits.
LEMMA ListFits ==
  ASSUME NEW d \in Levels, NEW f \in Fields[d], f.type.type = "List",
         NEW vs, Fitting(d, vs, f)
  PROVE  Are(vs, "List") /\ Accepted(d - 1, FlattenSeq(Items(vs)), f.type.item)
  <1>0. vs \in Seq(Values[d]) /\ DOMAIN vs = 1 .. Len(vs)
        /\ \A i \in 1 .. Len(vs) : vs[i] \in Values[d]
    BY LenProperties, ElementOfSeq DEF Fitting
  <1>1. ASSUME NEW i \in 1 .. Len(vs)
        PROVE  /\ vs[i].is \in {"List", "Null"}
               /\ \A j \in 1 .. Len(ItemsOf(vs[i])) :
                    Accepts[d - 1][<<ItemsOf(vs[i])[j], f.type.item>>]
    <2>1. CASE vs[i].is = "Null"
      BY <2>1, EmptySeq DEF ItemsOf
    <2>2. CASE vs[i].is # "Null"
      BY <1>0, <2>2, AcceptsList DEF Fitting, ItemsOf
    <2>. QED BY <2>1, <2>2
  <1>2. Are(vs, "List")
    BY <1>0, <1>1 DEF Are
  <1>. DEFINE flat == FlattenSeq(Items(vs))
  <1>3. /\ flat \in Seq(Values[d - 1])
        /\ Items(vs) \in Seq(Seq(Values[d - 1])) /\ Len(Items(vs)) = Len(vs)
        /\ \A i \in 1 .. Len(vs) : Items(vs)[i] = ItemsOf(vs[i])
    BY <1>0, <1>2, ListParts
  <1>4. ASSUME NEW n \in 1 .. Len(flat)
        PROVE  Accepts[d - 1][<<flat[n], f.type.item>>]
    <2>1. PICK i \in 1 .. Len(Items(vs)) : \E j \in 1 .. Len(Items(vs)[i]) :
            flat[n] = Items(vs)[i][j]
      BY <1>3, FlattenedItem
    <2>2. PICK j \in 1 .. Len(Items(vs)[i]) : flat[n] = Items(vs)[i][j]
      BY <2>1
    <2>. HIDE DEF flat
    <2>. QED BY <1>1, <1>3, <2>1, <2>2
  <1>. HIDE DEF flat
  <1>5. Accepted(d - 1, flat, f.type.item)
    BY <1>3, <1>4 DEF Accepted
  <1>. QED BY <1>2, <1>5 DEF flat

LEMMA MapFits ==
  ASSUME NEW d \in Levels, NEW f \in Fields[d], f.type.type = "Map",
         NEW vs, Fitting(d, vs, f)
  PROVE  /\ Are(vs, "Map")
         /\ Accepted(d - 1, Side(FlattenSeq(Entries(vs)), 1), f.type.key)
         /\ Accepted(d - 1, Side(FlattenSeq(Entries(vs)), 2), f.type.value)
  <1>. DEFINE flat == FlattenSeq(Entries(vs))
              below == Values[d - 1]
              Both(pair) == /\ Accepts[d - 1][<<pair[1], f.type.key>>]
                            /\ Accepts[d - 1][<<pair[2], f.type.value>>]
  <1>0. vs \in Seq(Values[d]) /\ DOMAIN vs = 1 .. Len(vs)
        /\ \A i \in 1 .. Len(vs) : vs[i] \in Values[d]
    BY LenProperties, ElementOfSeq DEF Fitting
  <1>1. ASSUME NEW i \in 1 .. Len(vs)
        PROVE  /\ vs[i].is \in {"Map", "Null"}
               /\ \A j \in 1 .. Len(EntriesOf(vs[i])) : Both(EntriesOf(vs[i])[j])
    <2>1. CASE vs[i].is = "Null"
      BY <2>1, EmptySeq DEF EntriesOf
    <2>2. CASE vs[i].is # "Null"
      BY <1>0, <2>2, AcceptsMap DEF Fitting, EntriesOf
    <2>. QED BY <2>1, <2>2
  <1>2. Are(vs, "Map")
    BY <1>0, <1>1 DEF Are
  <1>3. /\ Side(flat, 1) \in Seq(below) /\ Len(Side(flat, 1)) = Len(flat)
        /\ Side(flat, 2) \in Seq(below) /\ Len(Side(flat, 2)) = Len(flat)
        /\ \A n \in 1 .. Len(flat) : Side(flat, 1)[n] = flat[n][1] /\ Side(flat, 2)[n] = flat[n][2]
        /\ Entries(vs) \in Seq(Seq(below \X below)) /\ Len(Entries(vs)) = Len(vs)
        /\ \A i \in 1 .. Len(vs) : Entries(vs)[i] = EntriesOf(vs[i])
    BY <1>0, <1>2, MapParts
  <1>. HIDE DEF below
  <1>4. ASSUME NEW n \in 1 .. Len(flat)
        PROVE  Both(flat[n])
    <2>0. Entries(vs) \in Seq(Seq(below \X below))
      BY <1>3
    <2>1. PICK i \in 1 .. Len(Entries(vs)) : \E j \in 1 .. Len(Entries(vs)[i]) :
            flat[n] = Entries(vs)[i][j]
      <3>1. Entries(vs) \in Seq(Seq(below \X below))
        BY <2>0
      <3>. QED BY <3>1, FlattenedItem
    <2>2. PICK j \in 1 .. Len(Entries(vs)[i]) : flat[n] = Entries(vs)[i][j]
      BY <2>1
    <2>. HIDE DEF flat, Both
    <2>3. i \in 1 .. Len(vs) /\ Entries(vs)[i] = EntriesOf(vs[i])
      BY <1>3, <2>1
    <2>4. Both(EntriesOf(vs[i])[j])
      BY <1>1, <2>2, <2>3
    <2>. QED BY <2>2, <2>3, <2>4
  <1>. HIDE DEF flat
  <1>. DEFINE ks == Side(flat, 1)
              ws == Side(flat, 2)
  <1>5. /\ ks \in Seq(below) /\ Len(ks) = Len(flat) /\ ws \in Seq(below) /\ Len(ws) = Len(flat)
        /\ \A n \in 1 .. Len(flat) : ks[n] = flat[n][1] /\ ws[n] = flat[n][2]
    BY <1>3
  <1>. HIDE DEF ks, ws
  <1>6. Accepted(d - 1, ks, f.type.key) /\ Accepted(d - 1, ws, f.type.value)
    BY <1>4, <1>5 DEF Accepted, below
  <1>. QED BY <1>2, <1>6 DEF flat, ks, ws

LEMMA StructFits ==
  ASSUME NEW d \in Levels, NEW f \in Fields[d], f.type.type = "Struct",
         NEW vs, Fitting(d, vs, f)
  PROVE  /\ Are(vs, "Record")
         /\ \A c \in DOMAIN f.type.fields :
              LET g     == f.type.fields[c]
                  child == ChildColumn(vs, g.name)
              IN  /\ Fitting(d - 1, child, g)
                  /\ \A i \in 1 .. Len(vs) :
                       vs[i].is # "Null" /\ child[i].is = "Null" => g.nullable
  <1>0. vs \in Seq(Values[d]) /\ DOMAIN vs = 1 .. Len(vs)
        /\ \A i \in 1 .. Len(vs) : vs[i] \in Values[d]
    BY LenProperties, ElementOfSeq DEF Fitting
  <1>1. Are(vs, "Record")
    <2>1. \A i \in 1 .. Len(vs) : vs[i].is = "Null" \/ vs[i].is = "Record"
      BY <1>0, AcceptsRecord DEF Fitting
    <2>. QED BY <1>0, <2>1 DEF Are
  <1>2. ASSUME NEW c \in DOMAIN f.type.fields
        PROVE  LET g     == f.type.fields[c]
                   child == ChildColumn(vs, g.name)
               IN  /\ Fitting(d - 1, child, g)
                   /\ \A i \in 1 .. Len(vs) :
                        vs[i].is # "Null" /\ child[i].is = "Null" => g.nullable
    <2>. DEFINE g     == f.type.fields[c]
                child == ChildColumn(vs, g.name)
    <2>1. /\ d - 1 \in Levels /\ g \in Fields[d - 1] /\ Null \in Values[d - 1]
          /\ child \in Seq(Values[d - 1]) /\ Len(child) = Len(vs)
          /\ \A i \in 1 .. Len(vs) : child[i] = IF vs[i].is # "Null" /\ vs[i].fields[g.name] # Missing
                                                THEN vs[i].fields[g.name] ELSE Null
          /\ \A i \in 1 .. Len(vs) : child[i] \in Values[d - 1]
      BY <1>0, <1>1, StructParts, ElementOfSeq, SMTT(40)
    <2>2. ASSUME NEW i \in 1 .. Len(vs), vs[i].is # "Null"
          PROVE  /\ vs[i].fields[g.name] # Missing => Accepts[d - 1][<<vs[i].fields[g.name], g>>]
                 /\ vs[i].fields[g.name] = Missing => g.nullable
      BY <1>0, <2>2, AcceptsStruct DEF Fitting
    <2>. HIDE DEF g, child
    <2>3. ASSUME NEW i \in 1 .. Len(vs)
          PROVE  /\ child[i].is = "Null" \/ Accepts[d - 1][<<child[i], g>>]
                 /\ vs[i].is # "Null" /\ child[i].is = "Null" => g.nullable
      <3>1. CASE vs[i].is = "Null"
        BY <2>1, <3>1 DEF Null
      <3>2. CASE vs[i].is # "Null" /\ vs[i].fields[g.name] = Missing
        <4>1. child[i] = Null
          BY <2>1, <3>2
        <4>2. child[i].is = "Null"
          BY <4>1 DEF Null
        <4>. QED BY <2>2, <3>2, <4>2
      <3>3. CASE vs[i].is # "Null" /\ vs[i].fields[g.name] # Missing
        <4>1. child[i] = vs[i].fields[g.name] /\ child[i] \in Values[d - 1]
          BY <2>1, <3>3
        <4>2. Accepts[d - 1][<<child[i], g>>]
          BY <2>2, <3>3, <4>1
        <4>. QED BY <2>1, <3>3, <4>1, <4>2, AcceptsNull
      <3>. QED BY <3>1, <3>2, <3>3
    <2>. QED BY <2>1, <2>3 DEF Fitting, g, child
  <1>. QED BY <1>1, <1>2

LEMMA LeafFits ==
  ASSUME NEW d \in Levels, NEW f \in Fields[d], f.type.type \notin Nesting,
         NEW vs, Fitting(d, vs, f), NEW i \in 1 .. Len(vs)
  PROVE  vs[i].is = "Null" \/ LeafRule(vs[i], f.type)
  <1>1. vs[i] \in Values[d]
    BY ElementOfSeq DEF Fitting
  <1>. QED BY <1>1, AcceptsLeaf DEF Fitting

----------------------------------------------------------------------------
(* A column that fits can be built, unless a leaf is of the wrong unit.     *)

Poisoned(d, v, f) ==
  \E leaf \in LeavesOf[d][<<v, f>>] : WrongUnit(leaf[1], leaf[2].type)

LEMMA NullIsNotPoisoned ==
  ASSUME NEW d \in Levels, NEW f \in Fields[d], NEW v \in Values[d], v.is = "Null"
  PROVE  ~Poisoned(d, v, f)
  <1>1. LeavesOf[d][<<v, f>>] = {<<v, f>>}
    BY LeavesOfAt DEF Leaves
  <1>2. ~WrongUnit(v, f.type)
    BY DEF WrongUnit, Timestamps
  <1>. QED BY <1>1, <1>2 DEF Poisoned

LEMMA PoisonedLeaf ==
  ASSUME NEW d \in Levels, NEW f \in Fields[d], f.type.type \notin Nesting,
         NEW v \in Values[d], WrongUnit(v, f.type)
  PROVE  Poisoned(d, v, f)
  <1>1. LeavesOf[d][<<v, f>>] = {<<v, f>>}
    BY LeavesOfAt DEF Leaves, Nesting
  <1>. QED BY <1>1 DEF Poisoned

LEMMA PoisonedItem ==
  ASSUME NEW d \in Levels, NEW f \in Fields[d], f.type.type = "List",
         NEW v \in Values[d], v.is = "List",
         NEW j \in DOMAIN v.items, Poisoned(d - 1, v.items[j], f.type.item)
  PROVE  Poisoned(d, v, f)
  <1>1. LeavesOf[d][<<v, f>>] =
          UNION {LeavesOf[d - 1][<<v.items[i], f.type.item>>] : i \in DOMAIN v.items}
    <2>1. LeavesOf[d][<<v, f>>] = Leaves(LeavesOf[d - 1], v, f)
      BY LeavesOfAt
    <2>. QED BY <2>1 DEF Leaves
  <1>2. LeavesOf[d - 1][<<v.items[j], f.type.item>>] \subseteq LeavesOf[d][<<v, f>>]
    BY <1>1
  <1>. QED BY <1>2 DEF Poisoned

LEMMA PoisonedEntry ==
  ASSUME NEW d \in Levels, NEW f \in Fields[d], f.type.type = "Map",
         NEW v \in Values[d], v.is = "Map", NEW j \in DOMAIN v.entries,
         \/ Poisoned(d - 1, v.entries[j][1], f.type.key)
         \/ Poisoned(d - 1, v.entries[j][2], f.type.value)
  PROVE  Poisoned(d, v, f)
  <1>1. LeavesOf[d][<<v, f>>] =
          UNION {LeavesOf[d - 1][<<v.entries[i][1], f.type.key>>]
                   \cup LeavesOf[d - 1][<<v.entries[i][2], f.type.value>>] : i \in DOMAIN v.entries}
    <2>1. LeavesOf[d][<<v, f>>] = Leaves(LeavesOf[d - 1], v, f)
      BY LeavesOfAt
    <2>. QED BY <2>1 DEF Leaves
  <1>2. /\ LeavesOf[d - 1][<<v.entries[j][1], f.type.key>>] \subseteq LeavesOf[d][<<v, f>>]
        /\ LeavesOf[d - 1][<<v.entries[j][2], f.type.value>>] \subseteq LeavesOf[d][<<v, f>>]
    <2>. DEFINE Of(i) == LeavesOf[d - 1][<<v.entries[i][1], f.type.key>>]
                           \cup LeavesOf[d - 1][<<v.entries[i][2], f.type.value>>]
    <2>1. Of(j) \subseteq UNION {Of(i) : i \in DOMAIN v.entries}
      <3>. HIDE DEF Of
      <3>. QED BY SMTT(40)
    <2>. QED BY <1>1, <2>1
  <1>. QED BY <1>2 DEF Poisoned

LEMMA PoisonedField ==
  ASSUME NEW d \in Levels, NEW f \in Fields[d], f.type.type = "Struct",
         NEW v \in Values[d], v.is = "Record", NEW c \in DOMAIN f.type.fields,
         v.fields[f.type.fields[c].name] # Missing,
         Poisoned(d - 1, v.fields[f.type.fields[c].name], f.type.fields[c])
  PROVE  Poisoned(d, v, f)
  <1>. DEFINE Present == {i \in DOMAIN f.type.fields : v.fields[f.type.fields[i].name] # Missing}
  <1>1. LeavesOf[d][<<v, f>>] =
          UNION {LeavesOf[d - 1][<<v.fields[f.type.fields[i].name], f.type.fields[i]>>] :
                   i \in Present}
    <2>1. LeavesOf[d][<<v, f>>] = Leaves(LeavesOf[d - 1], v, f)
      BY LeavesOfAt
    <2>. QED BY <2>1 DEF Leaves
  <1>2. c \in Present
    OBVIOUS
  <1>. HIDE DEF Present
  <1>. QED BY <1>1, <1>2, SMTT(40) DEF Poisoned

OnlyPoisonFails(d) ==
  \A f \in Fields[d] : \A vs :
    Fitting(d, vs, f) /\ Built[d][<<vs, f>>] = {}
      => \E i \in 1 .. Len(vs) : Poisoned(d, vs[i], f)

LEMMA OnlyPoisonFailsLists ==
  ASSUME NEW d \in Levels, NEW f \in Fields[d], f.type.type = "List", OnlyPoisonFails(d - 1),
         NEW vs, Fitting(d, vs, f), Built[d][<<vs, f>>] = {}
  PROVE  \E i \in 1 .. Len(vs) : Poisoned(d, vs[i], f)
  <1>. DEFINE flat == FlattenSeq(Items(vs))
  <1>1. Are(vs, "List") /\ Accepted(d - 1, flat, f.type.item)
    BY ListFits
  <1>2. vs \in Seq(Values[d]) /\ \A i \in 1 .. Len(vs) : i \in DOMAIN vs /\ vs[i] \in Values[d]
    BY ElementOfSeq DEF Fitting
  <1>3. /\ d - 1 \in Levels /\ f.type.item \in Fields[d - 1]
        /\ Items(vs) \in Seq(Seq(Values[d - 1])) /\ Len(Items(vs)) = Len(vs)
        /\ \A i \in 1 .. Len(vs) : Items(vs)[i] = ItemsOf(vs[i])
    BY <1>1, <1>2, ListParts
  <1>4. Built[d - 1][<<flat, f.type.item>>] = {}
    BY <1>1, <1>2, BuiltList DEF ListChild
  <1>5. PICK n \in 1 .. Len(flat) : Poisoned(d - 1, flat[n], f.type.item)
    <2>. HIDE DEF flat
    <2>. QED BY <1>1, <1>3, <1>4, AcceptedFits DEF OnlyPoisonFails
  <1>6. PICK i \in 1 .. Len(Items(vs)) : \E j \in 1 .. Len(Items(vs)[i]) :
          flat[n] = Items(vs)[i][j]
    <2>1. Items(vs) \in Seq(Seq(Values[d - 1]))
      BY <1>3
    <2>. QED BY <2>1, FlattenedItem, ZenonT(40)
  <1>7. PICK j \in 1 .. Len(Items(vs)[i]) : flat[n] = Items(vs)[i][j]
    BY <1>6
  <1>. HIDE DEF flat
  <1>8. vs[i].is = "List" /\ vs[i].items \in Seq(Values[d - 1]) /\ Items(vs)[i] = vs[i].items
    <2>1. Items(vs)[i] = ItemsOf(vs[i]) /\ Items(vs)[i] # <<>>
      BY <1>3, <1>6, <1>7
    <2>2. vs[i].is \in {"List", "Null"}
      BY <1>1, <1>2, <1>3, <1>6 DEF Are
    <2>. QED BY <1>2, <1>3, <1>6, <2>1, <2>2, LevelBelow, ValueCases DEF ItemsOf
  <1>9. j \in DOMAIN vs[i].items
    BY <1>8, LenProperties
  <1>. QED BY <1>2, <1>3, <1>5, <1>6, <1>7, <1>8, <1>9, PoisonedItem

LEMMA OnlyPoisonFailsMaps ==
  ASSUME NEW d \in Levels, NEW f \in Fields[d], f.type.type = "Map", OnlyPoisonFails(d - 1),
         NEW vs, Fitting(d, vs, f), Built[d][<<vs, f>>] = {}
  PROVE  \E i \in 1 .. Len(vs) : Poisoned(d, vs[i], f)
  <1>. DEFINE flat == FlattenSeq(Entries(vs))
              below == Values[d - 1]
              ks == Side(flat, 1)
              ws == Side(flat, 2)
  <1>1. Are(vs, "Map") /\ Accepted(d - 1, ks, f.type.key) /\ Accepted(d - 1, ws, f.type.value)
    BY MapFits
  <1>2. vs \in Seq(Values[d]) /\ \A i \in 1 .. Len(vs) : i \in DOMAIN vs /\ vs[i] \in Values[d]
    BY ElementOfSeq DEF Fitting
  <1>3. /\ d - 1 \in Levels /\ f.type.key \in Fields[d - 1] /\ f.type.value \in Fields[d - 1]
        /\ Len(ks) = Len(flat) /\ Len(ws) = Len(flat)
        /\ \A n \in 1 .. Len(flat) : ks[n] = flat[n][1] /\ ws[n] = flat[n][2]
        /\ Entries(vs) \in Seq(Seq(below \X below)) /\ Len(Entries(vs)) = Len(vs)
        /\ \A i \in 1 .. Len(vs) : Entries(vs)[i] = EntriesOf(vs[i])
    BY <1>1, <1>2, MapParts
  <1>4. Built[d - 1][<<ks, f.type.key>>] = {} \/ Built[d - 1][<<ws, f.type.value>>] = {}
    BY <1>1, <1>2, BuiltMap DEF MapKeys, MapVals
  <1>. HIDE DEF ks, ws, below
  <1>5. PICK n \in 1 .. Len(flat) : \/ Poisoned(d - 1, flat[n][1], f.type.key)
                                    \/ Poisoned(d - 1, flat[n][2], f.type.value)
    <2>. HIDE DEF flat
    <2>1. CASE Built[d - 1][<<ks, f.type.key>>] = {}
      <3>1. \E n \in 1 .. Len(ks) : Poisoned(d - 1, ks[n], f.type.key)
        BY <1>1, <1>3, <2>1, AcceptedFits DEF OnlyPoisonFails
      <3>. QED BY <1>3, <3>1
    <2>2. CASE Built[d - 1][<<ws, f.type.value>>] = {}
      <3>1. \E n \in 1 .. Len(ws) : Poisoned(d - 1, ws[n], f.type.value)
        BY <1>1, <1>3, <2>2, AcceptedFits DEF OnlyPoisonFails
      <3>. QED BY <1>3, <3>1
    <2>. QED BY <1>4, <2>1, <2>2
  <1>6. PICK i \in 1 .. Len(Entries(vs)) : \E j \in 1 .. Len(Entries(vs)[i]) :
          flat[n] = Entries(vs)[i][j]
    <2>1. Entries(vs) \in Seq(Seq(below \X below))
      BY <1>3
    <2>. QED BY <2>1, FlattenedItem, ZenonT(40)
  <1>7. PICK j \in 1 .. Len(Entries(vs)[i]) : flat[n] = Entries(vs)[i][j]
    BY <1>6
  <1>. HIDE DEF flat
  <1>8. vs[i].is = "Map" /\ vs[i].entries \in Seq(below \X below) /\ Entries(vs)[i] = vs[i].entries
    <2>1. Entries(vs)[i] = EntriesOf(vs[i]) /\ Entries(vs)[i] # <<>>
      BY <1>3, <1>6, <1>7
    <2>2. vs[i].is \in {"Map", "Null"}
      BY <1>1, <1>2, <1>3, <1>6 DEF Are
    <2>3. vs[i] \in ValuesOver(below)
      BY <1>2, <1>3, <1>6, LevelBelow DEF below
    <2>4. vs[i].is = "Map" /\ Entries(vs)[i] = vs[i].entries
      BY <2>1, <2>2 DEF EntriesOf
    <2>. QED BY <2>3, <2>4, ValueCases
  <1>9. j \in DOMAIN vs[i].entries
    <2>1. DOMAIN vs[i].entries = 1 .. Len(vs[i].entries)
      BY <1>8, LenProperties, SMTT(40)
    <2>. QED BY <1>8, <2>1
  <1>. QED BY <1>2, <1>3, <1>5, <1>6, <1>7, <1>8, <1>9, PoisonedEntry

LEMMA OnlyPoisonFailsStructs ==
  ASSUME NEW d \in Levels, NEW f \in Fields[d], f.type.type = "Struct", OnlyPoisonFails(d - 1),
         NEW vs, Fitting(d, vs, f), Built[d][<<vs, f>>] = {}
  PROVE  \E i \in 1 .. Len(vs) : Poisoned(d, vs[i], f)
  <1>1. vs \in Seq(Values[d]) /\ \A i \in 1 .. Len(vs) : i \in DOMAIN vs /\ vs[i] \in Values[d]
    BY ElementOfSeq DEF Fitting
  <1>2. Are(vs, "Record")
    BY StructFits
  <1>3. PICK c \in DOMAIN f.type.fields : StructChild(d, vs, f, c) = {}
    BY <1>1, <1>2, BuiltStruct
  <1>. DEFINE g     == f.type.fields[c]
              child == ChildColumn(vs, g.name)
  <1>4. Fitting(d - 1, child, g)
    BY StructFits
  <1>5. /\ d - 1 \in Levels /\ g \in Fields[d - 1] /\ Len(child) = Len(vs)
        /\ child \in Seq(Values[d - 1])
        /\ \A i \in 1 .. Len(vs) : child[i] = IF vs[i].is # "Null" /\ vs[i].fields[g.name] # Missing
                                              THEN vs[i].fields[g.name] ELSE Null
    BY <1>1, <1>2, StructParts
  <1>6. Built[d - 1][<<child, g>>] = {}
    BY <1>3 DEF StructChild
  <1>. HIDE DEF g, child
  <1>7. PICK i \in 1 .. Len(vs) : Poisoned(d - 1, child[i], g)
    BY <1>4, <1>5, <1>6 DEF OnlyPoisonFails
  <1>8. child[i].is # "Null"
    <2>1. child[i] \in Values[d - 1]
      BY <1>5, <1>7, ElementOfSeq
    <2>. QED BY <1>5, <1>7, <2>1, NullIsNotPoisoned
  <1>9. /\ vs[i].is # "Null" /\ vs[i].fields[g.name] # Missing
        /\ Poisoned(d - 1, vs[i].fields[g.name], g)
    BY <1>5, <1>7, <1>8 DEF Null
  <1>10. vs[i].is = "Record"
    BY <1>1, <1>2, <1>7, <1>9 DEF Are
  <1>. QED BY <1>1, <1>7, <1>9, <1>10, PoisonedField DEF g

LEMMA OnlyPoisonFailsLeaves ==
  ASSUME NEW d \in Levels, NEW f \in Fields[d], f.type.type \notin Nesting,
         NEW vs, Fitting(d, vs, f), Built[d][<<vs, f>>] = {}
  PROVE  \E i \in 1 .. Len(vs) : Poisoned(d, vs[i], f)
  <1>1. /\ vs \in Seq(Values[d]) /\ DOMAIN vs = 1 .. Len(vs)
        /\ \A i \in 1 .. Len(vs) : vs[i] \in Values[d]
    BY ElementOfSeq, LenProperties DEF Fitting
  <1>2. PICK i \in 1 .. Len(vs) : vs[i].is # "Null" /\ ~Builds(vs[i], f.type)
    BY <1>1, BuiltLeaf
  <1>3. f.type \in LeafTypes
    BY LevelBelow, FieldCases
  <1>4. LeafRule(vs[i], f.type)
    BY <1>2, LeafFits
  <1>5. WrongUnit(vs[i], f.type)
    BY <1>2, <1>3, <1>4, LeafOfAnotherUnit
  <1>. QED BY <1>1, <1>5, PoisonedLeaf

LEMMA FittingColumnsAreBuilt ==
  \A d \in Levels : OnlyPoisonFails(d)
  <1>. DEFINE T == {n \in Levels : OnlyPoisonFails(n)}
  <1>1. ASSUME NEW d \in Levels, d # 0 => d - 1 \in Levels /\ d - 1 \in T
        PROVE  d \in T
    <2>. SUFFICES ASSUME NEW f \in Fields[d], NEW vs, Fitting(d, vs, f), Built[d][<<vs, f>>] = {}
                  PROVE  \E i \in 1 .. Len(vs) : Poisoned(d, vs[i], f)
      BY DEF OnlyPoisonFails
    <2>1. OnlyPoisonFails(d - 1)
      BY <1>1, LevelBelow
    <2>. QED
      BY <2>1, OnlyPoisonFailsLists, OnlyPoisonFailsMaps, OnlyPoisonFailsStructs,
         OnlyPoisonFailsLeaves DEF Nesting
  <1>. QED
    <2>. HIDE DEF T
    <2>1. \A d \in Levels : d \in T
      BY <1>1, LevelInduction
    <2>. QED BY <2>1 DEF T

----------------------------------------------------------------------------
(* Nulls are where Arrow allows them.                                       *)

NullsSound(d) ==
  \A f \in Fields[d] : \A vs : Fitting(d, vs, f)
    => \A a \in Built[d][<<vs, f>>] : Sound[d][<<a, f>>]

\* Where an array of accepted values may have no null, it has none.
LEMMA NoNullsAccepted ==
  ASSUME NEW d \in Levels, NEW f \in Fields[d], NEW vs, Accepted(d, vs, f),
         NEW a \in Built[d][<<vs, f>>]
  PROVE  f.nullable \/ \A i \in DOMAIN a.valid : a.valid[i]
  <1>1. vs \in Seq(Values[d]) /\ \A i \in 1 .. Len(vs) : vs[i] \in Values[d]
    BY ElementOfSeq DEF Accepted
  <1>2. a.valid = NotNull(vs)
    BY <1>1, BuiltTyped
  <1>3. DOMAIN a.valid = 1 .. Len(vs) /\ \A i \in 1 .. Len(vs) : a.valid[i] = (vs[i].is # "Null")
    BY <1>1, <1>2, MaskOfColumn
  <1>4. \A i \in 1 .. Len(vs) : vs[i].is = "Null" => f.nullable
    BY <1>1, AcceptsNull DEF Accepted
  <1>. QED BY <1>3, <1>4

LEMMA BuiltColumnsAreSound ==
  \A d \in Levels : NullsSound(d)
  <1>. DEFINE T == {n \in Levels : NullsSound(n)}
  <1>1. ASSUME NEW d \in Levels, d # 0 => d - 1 \in Levels /\ d - 1 \in T
        PROVE  d \in T
    <2>. SUFFICES ASSUME NEW f \in Fields[d], NEW vs, Fitting(d, vs, f),
                         NEW a \in Built[d][<<vs, f>>]
                  PROVE  Sound[d][<<a, f>>]
      BY DEF NullsSound
    <2>1. NullsSound(d - 1) /\ d - 1 \in Levels
      BY <1>1, LevelBelow
    <2>2. vs \in Seq(Values[d])
      BY DEF Fitting
    <2>3. a \in Arrays[d] /\ a.valid = NotNull(vs)
      BY <2>2, BuiltTyped
    <2>4. Sound[d][<<a, f>>] = NullsAllowed(Sound[d - 1], a, f)
      BY <2>3, SoundAt
    <2>5. CASE f.type.type = "List"
      <3>1. Are(vs, "List") /\ Accepted(d - 1, FlattenSeq(Items(vs)), f.type.item)
        BY <2>5, ListFits
      <3>2. f.type.item \in Fields[d - 1]
        BY <2>2, <2>5, <3>1, ListParts
      <3>3. a.child \in Built[d - 1][<<FlattenSeq(Items(vs)), f.type.item>>]
        BY <2>2, <2>5, BuiltList DEF ListChild
      <3>4. /\ f.type.item.nullable \/ \A i \in DOMAIN a.child.valid : a.child.valid[i]
            /\ Sound[d - 1][<<a.child, f.type.item>>]
        BY <2>1, <3>1, <3>2, <3>3, NoNullsAccepted, AcceptedFits DEF NullsSound
      <3>5. NullsAllowed(Sound[d - 1], a, f)
        BY <2>5, <3>4 DEF NullsAllowed
      <3>. QED BY <2>4, <3>5
    <2>6. CASE f.type.type = "Map"
      <3>1. /\ Are(vs, "Map")
            /\ Accepted(d - 1, Side(FlattenSeq(Entries(vs)), 1), f.type.key)
            /\ Accepted(d - 1, Side(FlattenSeq(Entries(vs)), 2), f.type.value)
        BY <2>6, MapFits
      <3>2. f.type.key \in Fields[d - 1] /\ f.type.value \in Fields[d - 1]
        BY <2>2, <2>6, <3>1, MapParts
      <3>3. /\ a.keys \in Built[d - 1][<<Side(FlattenSeq(Entries(vs)), 1), f.type.key>>]
            /\ a.vals \in Built[d - 1][<<Side(FlattenSeq(Entries(vs)), 2), f.type.value>>]
        BY <2>2, <2>6, BuiltMap DEF MapKeys, MapVals
      <3>4. /\ f.type.key.nullable \/ \A i \in DOMAIN a.keys.valid : a.keys.valid[i]
            /\ Sound[d - 1][<<a.keys, f.type.key>>]
        BY <2>1, <3>1, <3>2, <3>3, NoNullsAccepted, AcceptedFits DEF NullsSound
      <3>5. /\ f.type.value.nullable \/ \A i \in DOMAIN a.vals.valid : a.vals.valid[i]
            /\ Sound[d - 1][<<a.vals, f.type.value>>]
        BY <2>1, <3>1, <3>2, <3>3, NoNullsAccepted, AcceptedFits DEF NullsSound
      <3>6. NullsAllowed(Sound[d - 1], a, f)
        BY <2>6, <3>4, <3>5 DEF NullsAllowed
      <3>. QED BY <2>4, <3>6
    <2>7. CASE f.type.type = "Struct"
      <3>1. /\ Are(vs, "Record")
            /\ \A c \in DOMAIN f.type.fields : a.columns[c] \in StructChild(d, vs, f, c)
            /\ DOMAIN a.columns = DOMAIN f.type.fields
        <4>1. a = [valid |-> NotNull(vs), columns |-> ChildArrays(d, vs, f)]
          BY <2>2, <2>7, BuiltStruct
        <4>2. DOMAIN a.columns = DOMAIN f.type.fields
          BY <4>1 DEF ChildArrays
        <4>. QED BY <2>2, <2>7, <4>2, BuiltStruct
      <3>2. DOMAIN a.valid = 1 .. Len(vs)
            /\ \A i \in 1 .. Len(vs) : a.valid[i] = (vs[i].is # "Null")
        BY <2>2, <2>3, MaskOfColumn
      <3>3. ASSUME NEW c \in DOMAIN f.type.fields
            PROVE  /\ Sound[d - 1][<<a.columns[c], f.type.fields[c]>>]
                   /\ \/ f.type.fields[c].nullable
                      \/ \A i \in DOMAIN a.valid : a.columns[c].valid[i] \/ ~a.valid[i]
        <4>. DEFINE g     == f.type.fields[c]
                    child == ChildColumn(vs, g.name)
        <4>1. /\ Fitting(d - 1, child, g)
              /\ \A i \in 1 .. Len(vs) : vs[i].is # "Null" /\ child[i].is = "Null" => g.nullable
          BY <2>7, StructFits
        <4>2. g \in Fields[d - 1] /\ Len(child) = Len(vs) /\ child \in Seq(Values[d - 1])
          BY <2>2, <2>7, <3>1, StructParts
        <4>3. a.columns[c] \in Built[d - 1][<<child, g>>]
          BY <3>1 DEF StructChild
        <4>. HIDE DEF g, child
        <4>4. Sound[d - 1][<<a.columns[c], g>>]
          BY <2>1, <4>1, <4>2, <4>3 DEF NullsSound
        <4>5. a.columns[c].valid = NotNull(child)
          BY <2>1, <4>2, <4>3, BuiltTyped
        <4>6. \A i \in 1 .. Len(vs) : a.columns[c].valid[i] = (child[i].is # "Null")
          BY <4>2, <4>5, MaskOfColumn
        <4>7. g.nullable \/ \A i \in DOMAIN a.valid : a.columns[c].valid[i] \/ ~a.valid[i]
          BY <3>2, <4>1, <4>6
        <4>. QED BY <4>4, <4>7 DEF g
      <3>4. NullsAllowed(Sound[d - 1], a, f)
        BY <2>7, <3>1, <3>3 DEF NullsAllowed
      <3>. QED BY <2>4, <3>4
    <2>8. CASE f.type.type \notin Nesting
      <3>1. NullsAllowed(Sound[d - 1], a, f)
        BY <2>8 DEF NullsAllowed, Nesting
      <3>. QED BY <2>4, <3>1
    <2>. QED BY <2>5, <2>6, <2>7, <2>8 DEF Nesting
  <1>. QED
    <2>. HIDE DEF T
    <2>1. \A d \in Levels : d \in T
      BY <1>1, LevelInduction
    <2>. QED BY <2>1 DEF T

----------------------------------------------------------------------------
(* What is read from the array of a column that fits is what one expects of *)
(* its values.                                                              *)

ReadsBack(d) ==
  \A f \in Fields[d] : \A vs : Fitting(d, vs, f)
    => \A a \in Built[d][<<vs, f>>] : \A i \in 1 .. Len(vs) :
         ReadBack[d][<<f, a, i>>] = StoredAs[d][<<vs[i], f>>]

LEMMA AcceptedReadsBack ==
  ASSUME NEW d, NEW f \in Fields[d], ReadsBack(d), NEW vs, Accepted(d, vs, f),
         NEW a \in Built[d][<<vs, f>>], NEW i \in 1 .. Len(vs)
  PROVE  ReadBack[d][<<f, a, i>>] = StoredAs[d][<<vs[i], f>>]
  BY AcceptedFits DEF ReadsBack

\* A null is read as null, whatever the array holds for it.
LEMMA ReadsNull ==
  ASSUME NEW d \in Levels, NEW f \in Fields[d], NEW vs, Fitting(d, vs, f),
         NEW a \in Built[d][<<vs, f>>], NEW i \in 1 .. Len(vs), vs[i].is = "Null"
  PROVE  ReadBack[d][<<f, a, i>>] = StoredAs[d][<<vs[i], f>>]
  <1>1. vs \in Seq(Values[d]) /\ vs[i] \in Values[d] /\ i \in Nat
    BY ElementOfSeq, LenProperties DEF Fitting
  <1>2. a \in Arrays[d] /\ a.valid = NotNull(vs)
    BY <1>1, BuiltTyped
  <1>3. ~a.valid[i]
    BY <1>1, <1>2, MaskOfColumn
  <1>4. ReadBack[d][<<f, a, i>>] = Null
    <2>1. arrow_to_parquet_value(ReadBack[d - 1], f, a, i) = Null
      BY <1>3 DEF arrow_to_parquet_value
    <2>. QED BY <1>1, <1>2, <2>1, ReadBackAt
  <1>5. Stored(StoredAs[d - 1], vs[i], f) = Null
    BY DEF Stored
  <1>. QED BY <1>1, <1>4, <1>5, StoredAsAt

LEMMA ReadsList ==
  ASSUME NEW d \in Levels, NEW f \in Fields[d], f.type.type = "List", ReadsBack(d - 1),
         NEW vs, Fitting(d, vs, f), NEW a \in Built[d][<<vs, f>>],
         NEW i \in 1 .. Len(vs), vs[i].is # "Null"
  PROVE  ReadBack[d][<<f, a, i>>] = StoredAs[d][<<vs[i], f>>]
  <1>. DEFINE v == vs[i]
              flat == FlattenSeq(Items(vs))
              item == f.type.item
              off == Offsets(Items(vs))
  <1>1. vs \in Seq(Values[d]) /\ v \in Values[d] /\ i \in Nat /\ i \in DOMAIN vs
    BY ElementOfSeq, LenProperties DEF Fitting
  <1>2. a \in Arrays[d] /\ a.valid = NotNull(vs) /\ NotNull(vs)[i]
    BY <1>1, BuiltTyped, MaskOfColumn
  <1>3. Are(vs, "List") /\ Accepted(d - 1, flat, item)
    BY ListFits
  <1>4. /\ d - 1 \in Levels /\ item \in Fields[d - 1]
        /\ Items(vs) \in Seq(Seq(Values[d - 1])) /\ Len(Items(vs)) = Len(vs)
        /\ Items(vs)[i] = ItemsOf(v)
    BY <1>1, <1>3, ListParts
  <1>5. a.child \in Built[d - 1][<<flat, item>>] /\ a.offsets = off
    BY <1>1, BuiltList DEF ListChild
  <1>6. v.is = "List" /\ Items(vs)[i] = v.items /\ v.items \in Seq(Values[d - 1])
    <2>1. v.is = "List" /\ Items(vs)[i] = v.items
      BY <1>1, <1>3, <1>4 DEF Are, ItemsOf
    <2>2. Items(vs)[i] \in Seq(Values[d - 1])
      BY <1>4, ElementOfSeq
    <2>. QED BY <2>1, <2>2
  <1>. HIDE DEF v, flat, item, off
  <1>7. off[i] \in Nat /\ off[i + 1] - off[i] = Len(v.items)
    <2>1. i \in 1 .. Len(Items(vs)) /\ Items(vs) \in Seq(Seq(Values[d - 1]))
      BY <1>4
    <2>. QED BY <1>6, <2>1, NextOffset DEF off
  <1>8. ASSUME NEW j \in 1 .. Len(v.items)
        PROVE  ReadBack[d - 1][<<item, a.child, off[i] + j>>] = StoredAs[d - 1][<<v.items[j], item>>]
    <2>1. off[i] + j \in 1 .. Len(flat) /\ flat[off[i] + j] = v.items[j]
      BY <1>4, <1>6, ItemsAtOffsets DEF off, flat
    <2>2. ReadBack[d - 1][<<item, a.child, off[i] + j>>]
            = StoredAs[d - 1][<<flat[off[i] + j], item>>]
      <3>1. /\ item \in Fields[d - 1] /\ Accepted(d - 1, flat, item)
            /\ a.child \in Built[d - 1][<<flat, item>>]
        BY <1>3, <1>4, <1>5
      <3>. QED BY <2>1, <3>1, AcceptedReadsBack
    <2>. QED BY <2>1, <2>2
  <1>. DEFINE read == [j \in 1 .. Len(v.items) |-> ReadBack[d - 1][<<item, a.child, off[i] + j>>]]
              stored == [j \in DOMAIN v.items |-> StoredAs[d - 1][<<v.items[j], item>>]]
  <1>9. read = stored
    <2>1. DOMAIN v.items = 1 .. Len(v.items)
      BY <1>6, LenProperties
    <2>. QED BY <1>8, <2>1
  <1>10. ReadBack[d][<<f, a, i>>] = [is |-> "List", items |-> read]
    <2>1. ReadBack[d][<<f, a, i>>] = arrow_to_parquet_value(ReadBack[d - 1], f, a, i)
      BY <1>1, <1>2, ReadBackAt
    <2>2. arrow_to_parquet_value(ReadBack[d - 1], f, a, i) =
            [is |-> "List",
             items |-> [j \in 1 .. off[i + 1] - off[i] |->
                          ReadBack[d - 1][<<item, a.child, off[i] + j>>]]]
      BY <1>2, <1>5 DEF arrow_to_parquet_value, item
    <2>. QED BY <1>7, <2>1, <2>2
  <1>11. StoredAs[d][<<v, f>>] = [is |-> "List", items |-> stored]
    <2>1. StoredAs[d][<<v, f>>] = Stored(StoredAs[d - 1], v, f)
      BY <1>1, StoredAsAt
    <2>. QED BY <1>6, <2>1 DEF Stored, item
  <1>. HIDE DEF read, stored
  <1>. QED BY <1>9, <1>10, <1>11 DEF v

LEMMA ReadsMap ==
  ASSUME NEW d \in Levels, NEW f \in Fields[d], f.type.type = "Map", ReadsBack(d - 1),
         NEW vs, Fitting(d, vs, f), NEW a \in Built[d][<<vs, f>>],
         NEW i \in 1 .. Len(vs), vs[i].is # "Null"
  PROVE  ReadBack[d][<<f, a, i>>] = StoredAs[d][<<vs[i], f>>]
  <1>. DEFINE v == vs[i]
              flat == FlattenSeq(Entries(vs))
              below == Values[d - 1]
              ks == Side(flat, 1)
              ws == Side(flat, 2)
              key == f.type.key
              value == f.type.value
              off == Offsets(Entries(vs))
  <1>1. vs \in Seq(Values[d]) /\ v \in Values[d] /\ i \in Nat /\ i \in DOMAIN vs
    BY ElementOfSeq, LenProperties DEF Fitting
  <1>2. a \in Arrays[d] /\ a.valid = NotNull(vs) /\ NotNull(vs)[i]
    BY <1>1, BuiltTyped, MaskOfColumn
  <1>3. Are(vs, "Map") /\ Accepted(d - 1, ks, key) /\ Accepted(d - 1, ws, value)
    BY MapFits
  <1>4. /\ d - 1 \in Levels /\ key \in Fields[d - 1] /\ value \in Fields[d - 1]
        /\ Len(ks) = Len(flat) /\ Len(ws) = Len(flat)
        /\ \A n \in 1 .. Len(flat) : ks[n] = flat[n][1] /\ ws[n] = flat[n][2]
        /\ Entries(vs) \in Seq(Seq(below \X below)) /\ Len(Entries(vs)) = Len(vs)
        /\ Entries(vs)[i] = EntriesOf(v)
    BY <1>1, <1>3, MapParts
  <1>5. /\ a.keys \in Built[d - 1][<<ks, key>>] /\ a.vals \in Built[d - 1][<<ws, value>>]
        /\ a.offsets = off
    BY <1>1, BuiltMap, SMTT(40) DEF MapKeys, MapVals, MapArray
  <1>. HIDE DEF ks, ws, below
  <1>a. Entries(vs) \in Seq(Seq(below \X below))
    BY <1>4
  <1>6. v.is = "Map" /\ Entries(vs)[i] = v.entries /\ v.entries \in Seq(below \X below)
    <2>1. v.is = "Map" /\ Entries(vs)[i] = v.entries
      BY <1>1, <1>3, <1>4 DEF Are, EntriesOf
    <2>2. Entries(vs)[i] \in Seq(below \X below)
      BY <1>4, <1>a, ElementOfSeq
    <2>. QED BY <2>1, <2>2
  <1>. HIDE DEF v, flat, key, value, off
  <1>7. off[i] \in Nat /\ off[i + 1] - off[i] = Len(v.entries)
    <2>1. i \in 1 .. Len(Entries(vs))
      BY <1>4
    <2>. QED BY <1>6, <1>a, <2>1, NextOffset DEF off
  <1>8. ASSUME NEW j \in 1 .. Len(v.entries)
        PROVE  /\ ReadBack[d - 1][<<key, a.keys, off[i] + j>>]
                    = StoredAs[d - 1][<<v.entries[j][1], key>>]
               /\ ReadBack[d - 1][<<value, a.vals, off[i] + j>>]
                    = StoredAs[d - 1][<<v.entries[j][2], value>>]
    <2>1. i \in 1 .. Len(Entries(vs)) /\ j \in 1 .. Len(Entries(vs)[i])
      BY <1>4, <1>6
    <2>a. Entries(vs)[i][j] = v.entries[j]
      BY <1>6
    <2>2. off[i] + j \in 1 .. Len(flat) /\ flat[off[i] + j] = v.entries[j]
      BY <1>a, <2>1, <2>a, ItemsAtOffsets DEF off, flat
    <2>3. ReadBack[d - 1][<<key, a.keys, off[i] + j>>] = StoredAs[d - 1][<<ks[off[i] + j], key>>]
      <3>1. /\ key \in Fields[d - 1] /\ Accepted(d - 1, ks, key)
            /\ a.keys \in Built[d - 1][<<ks, key>>] /\ off[i] + j \in 1 .. Len(ks)
        BY <1>3, <1>4, <1>5, <2>2
      <3>. QED BY <3>1, AcceptedReadsBack
    <2>4. ReadBack[d - 1][<<value, a.vals, off[i] + j>>]
            = StoredAs[d - 1][<<ws[off[i] + j], value>>]
      <3>1. /\ value \in Fields[d - 1] /\ Accepted(d - 1, ws, value)
            /\ a.vals \in Built[d - 1][<<ws, value>>] /\ off[i] + j \in 1 .. Len(ws)
        BY <1>3, <1>4, <1>5, <2>2
      <3>. QED BY <3>1, AcceptedReadsBack
    <2>. QED BY <1>4, <2>2, <2>3, <2>4
  <1>. DEFINE read == [j \in 1 .. Len(v.entries) |->
                         <<ReadBack[d - 1][<<key, a.keys, off[i] + j>>],
                           ReadBack[d - 1][<<value, a.vals, off[i] + j>>]>>]
              stored == [j \in DOMAIN v.entries |->
                           <<StoredAs[d - 1][<<v.entries[j][1], key>>],
                             StoredAs[d - 1][<<v.entries[j][2], value>>]>>]
  <1>9. read = stored
    <2>1. DOMAIN v.entries = 1 .. Len(v.entries)
      BY <1>6, LenProperties
    <2>. QED BY <1>8, <2>1
  <1>10. ReadBack[d][<<f, a, i>>] = [is |-> "Map", entries |-> read]
    <2>1. ReadBack[d][<<f, a, i>>] = arrow_to_parquet_value(ReadBack[d - 1], f, a, i)
      BY <1>1, <1>2, ReadBackAt
    <2>2. arrow_to_parquet_value(ReadBack[d - 1], f, a, i) =
            [is |-> "Map",
             entries |-> [j \in 1 .. off[i + 1] - off[i] |->
                            <<ReadBack[d - 1][<<key, a.keys, off[i] + j>>],
                              ReadBack[d - 1][<<value, a.vals, off[i] + j>>]>>]]
      BY <1>2, <1>5 DEF arrow_to_parquet_value, key, value
    <2>. QED BY <1>7, <2>1, <2>2
  <1>11. StoredAs[d][<<v, f>>] = [is |-> "Map", entries |-> stored]
    <2>1. StoredAs[d][<<v, f>>] = Stored(StoredAs[d - 1], v, f)
      BY <1>1, StoredAsAt
    <2>. QED BY <1>6, <2>1 DEF Stored, key, value
  <1>. HIDE DEF read, stored
  <1>. QED BY <1>9, <1>10, <1>11 DEF v

LEMMA ReadsStruct ==
  ASSUME NEW d \in Levels, NEW f \in Fields[d], f.type.type = "Struct", ReadsBack(d - 1),
         NEW vs, Fitting(d, vs, f), NEW a \in Built[d][<<vs, f>>],
         NEW i \in 1 .. Len(vs), vs[i].is # "Null"
  PROVE  ReadBack[d][<<f, a, i>>] = StoredAs[d][<<vs[i], f>>]
  <1>. DEFINE v == vs[i]
              fields == f.type.fields
  <1>1. vs \in Seq(Values[d]) /\ v \in Values[d] /\ i \in Nat /\ i \in DOMAIN vs
    BY ElementOfSeq, LenProperties DEF Fitting
  <1>2. a \in Arrays[d] /\ a.valid = NotNull(vs) /\ NotNull(vs)[i]
    BY <1>1, BuiltTyped, MaskOfColumn
  <1>3. Are(vs, "Record") /\ v.is = "Record"
    <2>1. Are(vs, "Record")
      BY StructFits, SMTT(40)
    <2>. QED BY <1>1, <2>1 DEF Are
  <1>4. ASSUME NEW c \in DOMAIN fields
        PROVE  ReadBack[d - 1][<<fields[c], a.columns[c], i>>] =
                 IF v.fields[fields[c].name] = Missing
                 THEN Null
                 ELSE StoredAs[d - 1][<<v.fields[fields[c].name], fields[c]>>]
    <2>. DEFINE g     == fields[c]
                child == ChildColumn(vs, g.name)
    <2>1. Fitting(d - 1, child, g)
      BY StructFits
    <2>2. /\ g \in Fields[d - 1] /\ Len(child) = Len(vs) /\ d - 1 \in Levels
          /\ child[i] = IF v.fields[g.name] # Missing THEN v.fields[g.name] ELSE Null
      BY <1>1, <1>3, StructParts
    <2>3. a.columns[c] \in Built[d - 1][<<child, g>>]
      BY <1>1, BuiltStruct DEF StructChild
    <2>a. Null \in Values[d - 1]
      BY <1>1, <1>3, StructParts
    <2>. HIDE DEF g, child
    <2>4. ReadBack[d - 1][<<g, a.columns[c], i>>] = StoredAs[d - 1][<<child[i], g>>]
      BY <2>1, <2>2, <2>3 DEF ReadsBack
    <2>5. StoredAs[d - 1][<<Null, g>>] = Null
      <3>1. Stored(StoredAs[(d - 1) - 1], Null, g) = Null
        BY DEF Stored, Null
      <3>. QED BY <2>2, <2>a, <3>1, StoredAsAt
    <2>6. CASE v.fields[g.name] = Missing
      BY <2>2, <2>4, <2>5, <2>6, SMTT(40) DEF g
    <2>7. CASE v.fields[g.name] # Missing
      BY <2>2, <2>4, <2>7 DEF g
    <2>. QED BY <2>6, <2>7
  <1>. HIDE DEF v, fields
  <1>. DEFINE Read(name) == IF Has(fields, name)
                            THEN ReadBack[d - 1][<<fields[At(fields, name)],
                                                   a.columns[At(fields, name)], i>>]
                            ELSE Missing
              Stores(name) ==
                CASE ~Has(fields, name) -> Missing
                  [] Has(fields, name) /\ v.fields[name] = Missing -> Null
                  [] OTHER -> StoredAs[d - 1][<<v.fields[name], fields[At(fields, name)]>>]
  <1>5. ASSUME NEW name \in FieldNames
        PROVE  Read(name) = Stores(name)
    <2>1. CASE ~Has(fields, name)
      BY <2>1
    <2>2. CASE Has(fields, name)
      <3>1. At(fields, name) \in DOMAIN fields /\ fields[At(fields, name)].name = name
        BY <2>2 DEF Has, At
      <3>. QED BY <1>4, <2>2, <3>1
    <2>. QED BY <2>1, <2>2
  <1>6. [name \in FieldNames |-> Read(name)] = [name \in FieldNames |-> Stores(name)]
    <2>. HIDE DEF Read, Stores
    <2>. QED BY <1>5
  <1>7. ReadBack[d][<<f, a, i>>] = [is |-> "Record", fields |-> [name \in FieldNames |-> Read(name)]]
    <2>1. ReadBack[d][<<f, a, i>>] = arrow_to_parquet_value(ReadBack[d - 1], f, a, i)
      BY <1>1, <1>2, ReadBackAt
    <2>2. arrow_to_parquet_value(ReadBack[d - 1], f, a, i)
            = [is |-> "Record", fields |-> [name \in FieldNames |-> Read(name)]]
      BY <1>2 DEF arrow_to_parquet_value, fields
    <2>. QED BY <2>1, <2>2
  <1>8. StoredAs[d][<<v, f>>] = [is |-> "Record", fields |-> [name \in FieldNames |-> Stores(name)]]
    <2>1. StoredAs[d][<<v, f>>] = Stored(StoredAs[d - 1], v, f)
      BY <1>1, StoredAsAt
    <2>2. Stored(StoredAs[d - 1], v, f)
            = [is |-> "Record", fields |-> [name \in FieldNames |-> Stores(name)]]
      BY <1>3 DEF Stored, fields
    <2>. QED BY <2>1, <2>2
  <1>. HIDE DEF Read, Stores
  <1>. QED BY <1>6, <1>7, <1>8 DEF v

LEMMA ReadsLeaf ==
  ASSUME NEW d \in Levels, NEW f \in Fields[d], f.type.type \notin Nesting,
         NEW vs, Fitting(d, vs, f), NEW a \in Built[d][<<vs, f>>],
         NEW i \in 1 .. Len(vs), vs[i].is # "Null"
  PROVE  ReadBack[d][<<f, a, i>>] = StoredAs[d][<<vs[i], f>>]
  <1>1. vs \in Seq(Values[d]) /\ vs[i] \in Values[d] /\ i \in Nat /\ i \in DOMAIN vs
    BY ElementOfSeq, LenProperties DEF Fitting
  <1>2. a \in Arrays[d] /\ a.valid = NotNull(vs) /\ NotNull(vs)[i]
    BY <1>1, BuiltTyped, MaskOfColumn
  <1>3. a.data[i] = Widened(vs[i], f.type)
    <2>1. a = [valid |-> NotNull(vs), data |-> [k \in DOMAIN vs |-> Widened(vs[k], f.type)]]
      BY <1>1, BuiltLeaf
    <2>. QED BY <1>1, <2>1
  <1>4. Widened(vs[i], f.type) = vs[i]
    BY LeafFits, LevelBelow, FieldCases, AcceptedUnchanged
  <1>5. arrow_to_parquet_value(ReadBack[d - 1], f, a, i) = LeafRead(vs[i], f)
    BY <1>2, <1>3, <1>4, SMTT(40) DEF arrow_to_parquet_value, Nesting
  <1>6. Stored(StoredAs[d - 1], vs[i], f) = LeafRead(vs[i], f)
    BY DEF Stored, Nesting
  <1>. QED BY <1>1, <1>2, <1>5, <1>6, ReadBackAt, StoredAsAt

LEMMA ColumnsReadBack ==
  \A d \in Levels : ReadsBack(d)
  <1>. DEFINE T == {n \in Levels : ReadsBack(n)}
  <1>1. ASSUME NEW d \in Levels, d # 0 => d - 1 \in Levels /\ d - 1 \in T
        PROVE  d \in T
    <2>. SUFFICES ASSUME NEW f \in Fields[d], NEW vs, Fitting(d, vs, f),
                         NEW a \in Built[d][<<vs, f>>], NEW i \in 1 .. Len(vs)
                  PROVE  ReadBack[d][<<f, a, i>>] = StoredAs[d][<<vs[i], f>>]
      BY DEF ReadsBack
    <2>1. ReadsBack(d - 1)
      BY <1>1, LevelBelow
    <2>. QED
      BY <2>1, ReadsNull, ReadsList, ReadsMap, ReadsStruct, ReadsLeaf DEF Nesting
  <1>. QED
    <2>. HIDE DEF T
    <2>1. \A d \in Levels : d \in T
      BY <1>1, LevelInduction
    <2>. QED BY <2>1 DEF T

----------------------------------------------------------------------------
(* Zones: a timestamp that was accepted comes back in UTC or without one.   *)

LeavesInUTC(d, v, f) ==
  \A leaf \in LeavesOf[d][<<v, f>>] :
    leaf[1].is \in DOMAIN Timestamps => LeafRead(leaf[1], leaf[2]).tz \in {"", "UTC"}

LEMMA LeafInUTC ==
  ASSUME NEW d \in Levels, NEW f \in Fields[d], f.type.type \notin Nesting,
         NEW v \in Values[d], v.is = "Null" \/ LeafRule(v, f.type)
  PROVE  LeavesInUTC(d, v, f)
  <1>1. LeavesOf[d][<<v, f>>] = {<<v, f>>}
    BY LeavesOfAt DEF Leaves, Nesting
  <1>2. ASSUME v.is \in DOMAIN Timestamps
        PROVE  LeafRead(v, f).tz \in {"", "UTC"}
    <2>1. Values[d] = ValuesOver(Values[d - 1]) /\ f.type \in LeafTypes
      BY LevelBelow, FieldCases
    <2>2. v \in Atoms
      <3>1. v.is \notin {"Null", "List", "Map", "Record"}
        BY <1>2 DEF Timestamps
      <3>. QED BY <2>1, <3>1, ValueCases, ZenonT(40)
    <2>3. "tz" \in DOMAIN v
      BY <1>2, <2>2, ColumnsAssumption
    <2>4. f.type.type = "Timestamp"
      <3>1. v.is # "Null"
        BY <1>2 DEF Timestamps
      <3>2. v.is # ValueOf(f.type.type)
        BY <1>2, <2>1, LeafTypeFacts
      <3>3. v.is \notin {"Bytes", "Decimal128", "Decimal256", "TimeMillis", "TimeMicros", "TimeNanos"}
        BY <1>2 DEF Timestamps
      <3>. QED BY <3>1, <3>2, <3>3 DEF LeafRule, FitsBinary, FitsDecimal
    <2>5. f.type.tz \in {"", "UTC"}
      BY <2>1, <2>4, LeafTypeFacts
    <2>6. LeafRead(v, f) = [v EXCEPT !.tz = f.type.tz]
      BY <2>4 DEF LeafRead
    <2>. QED BY <2>3, <2>5, <2>6
  <1>3. \A leaf \in LeavesOf[d][<<v, f>>] : leaf[1] = v /\ leaf[2] = f
    BY <1>1
  <1>. QED BY <1>2, <1>3 DEF LeavesInUTC

\* A field has a name that fields may have.
LEMMA FieldName ==
  ASSUME NEW d \in Levels, NEW g \in Fields[d]
  PROVE  g.name \in FieldNames
  <1>1. g \in FieldsOver(Fields[d - 1])
    BY LevelBelow
  <1>. QED BY <1>1, FieldCases

LEMMA AcceptedLeavesInUTC ==
  \A d \in Levels : \A f \in Fields[d] : \A v \in Values[d] :
    Accepts[d][<<v, f>>] => LeavesInUTC(d, v, f)
  <1>. DEFINE Good(n) == \A f \in Fields[n] : \A v \in Values[n] :
                           Accepts[n][<<v, f>>] => LeavesInUTC(n, v, f)
              T == {n \in Levels : Good(n)}
  <1>1. ASSUME NEW d \in Levels, d # 0 => d - 1 \in Levels /\ d - 1 \in T
        PROVE  d \in T
    <2>. SUFFICES ASSUME NEW f \in Fields[d], NEW v \in Values[d], Accepts[d][<<v, f>>]
                  PROVE  LeavesInUTC(d, v, f)
      OBVIOUS
    <2>1. /\ Good(d - 1) /\ d - 1 \in Levels /\ Fields[d] = FieldsOver(Fields[d - 1])
          /\ Values[d] = ValuesOver(Values[d - 1])
      BY <1>1, LevelBelow
    <2>2. CASE v.is = "Null"
      <3>1. LeavesOf[d][<<v, f>>] = {<<v, f>>}
        BY <2>2, LeavesOfAt DEF Leaves
      <3>2. \A leaf \in LeavesOf[d][<<v, f>>] : leaf[1] = v
        BY <3>1
      <3>3. v.is \notin DOMAIN Timestamps
        BY <2>2 DEF Timestamps
      <3>. QED BY <3>2, <3>3 DEF LeavesInUTC
    <2>3. CASE v.is # "Null" /\ f.type.type = "List"
      <3>1. /\ v.is = "List" /\ v.items \in Seq(Values[d - 1])
            /\ \A j \in 1 .. Len(v.items) : Accepts[d - 1][<<v.items[j], f.type.item>>]
        BY <2>3, AcceptsList, SMTT(40)
      <3>2. LeavesOf[d][<<v, f>>] =
              UNION {LeavesOf[d - 1][<<v.items[i], f.type.item>>] : i \in DOMAIN v.items}
        BY <2>3, <3>1, LeavesOfAt DEF Leaves
      <3>3. \A i \in DOMAIN v.items : LeavesInUTC(d - 1, v.items[i], f.type.item)
        <4>1. f.type.item \in Fields[d - 1]
          BY <2>1, <2>3, FieldCases
        <4>2. DOMAIN v.items = 1 .. Len(v.items) /\ \A i \in DOMAIN v.items : v.items[i] \in Values[d - 1]
          BY <3>1, ElementOfSeq, LenProperties
        <4>. QED BY <2>1, <3>1, <4>1, <4>2
      <3>. QED BY <3>2, <3>3 DEF LeavesInUTC
    <2>4. CASE v.is # "Null" /\ f.type.type = "Map"
      <3>1. /\ v.is = "Map" /\ v.entries \in Seq(Values[d - 1] \X Values[d - 1])
            /\ \A j \in 1 .. Len(v.entries) : /\ Accepts[d - 1][<<v.entries[j][1], f.type.key>>]
                                              /\ Accepts[d - 1][<<v.entries[j][2], f.type.value>>]
        BY <2>4, AcceptsMap
      <3>2. LeavesOf[d][<<v, f>>] =
              UNION {LeavesOf[d - 1][<<v.entries[i][1], f.type.key>>]
                       \cup LeavesOf[d - 1][<<v.entries[i][2], f.type.value>>] :
                       i \in DOMAIN v.entries}
        BY <2>4, <3>1, LeavesOfAt DEF Leaves
      <3>3. \A i \in DOMAIN v.entries : /\ LeavesInUTC(d - 1, v.entries[i][1], f.type.key)
                                        /\ LeavesInUTC(d - 1, v.entries[i][2], f.type.value)
        <4>1. f.type.key \in Fields[d - 1] /\ f.type.value \in Fields[d - 1]
          BY <2>1, <2>4, FieldCases
        <4>2. DOMAIN v.entries = 1 .. Len(v.entries)
              /\ \A i \in DOMAIN v.entries : v.entries[i] \in Values[d - 1] \X Values[d - 1]
          BY <3>1, ElementOfSeq, LenProperties
        <4>3. \A i \in DOMAIN v.entries : /\ v.entries[i][1] \in Values[d - 1]
                                          /\ v.entries[i][2] \in Values[d - 1]
          BY <4>2
        <4>. QED BY <2>1, <3>1, <4>1, <4>2, <4>3
      <3>. QED BY <3>2, <3>3 DEF LeavesInUTC
    <2>5. CASE v.is # "Null" /\ f.type.type = "Struct"
      <3>. DEFINE fields == f.type.fields
                  Present == {i \in DOMAIN fields : v.fields[fields[i].name] # Missing}
      <3>1. v.is = "Record"
        BY <2>5, AcceptsRecord
      <3>2. LeavesOf[d][<<v, f>>] =
              UNION {LeavesOf[d - 1][<<v.fields[fields[i].name], fields[i]>>] : i \in Present}
        BY <2>5, <3>1, LeavesOfAt DEF Leaves
      <3>3. ASSUME NEW i \in Present
            PROVE  LeavesInUTC(d - 1, v.fields[fields[i].name], fields[i])
        <4>1. Accepts[d - 1][<<v.fields[fields[i].name], fields[i]>>]
          BY <2>5, AcceptsStruct
        <4>2. fields[i] \in Fields[d - 1]
          BY <2>1, <2>5, FieldCases, ElementOfSeq
        <4>3. fields[i].name \in FieldNames
          BY <2>1, <4>2, FieldName
        <4>4. v.fields \in [FieldNames -> Values[d - 1] \cup {Missing}]
          BY <2>1, <3>1, ValueCases
        <4>5. v.fields[fields[i].name] \in Values[d - 1]
          BY <4>3, <4>4
        <4>. QED BY <2>1, <4>1, <4>2, <4>5
      <3>. HIDE DEF Present, fields
      <3>. QED BY <3>2, <3>3, ZenonT(40) DEF LeavesInUTC
    <2>6. CASE v.is # "Null" /\ f.type.type \notin Nesting
      BY <2>6, AcceptsLeaf, LeafInUTC
    <2>. QED BY <2>2, <2>3, <2>4, <2>5, <2>6 DEF Nesting
  <1>2. \A d \in Levels : d \in T
    <2>. HIDE DEF T
    <2>. QED BY <1>1, LevelInduction
  <1>. QED BY <1>2

----------------------------------------------------------------------------
(* The column and the batch of the specification.                           *)

\* What is buffered, and what was written, was accepted; a flush that failed
\* left a column that cannot be built; what was read is what was stored.
AcceptedColumns ==
  /\ source \in Columns
  /\ Accepted(Depth, column, field)
  /\ outcome = "conversion_error" => Built[Depth][<<column, field>>] = {}
  /\ Accepted(Depth, batch.values, field)
  /\ batch.read = [i \in DOMAIN batch.values |-> StoredAs[Depth][<<batch.values[i], field>>]]

LEMMA FieldTyped ==
  ASSUME source \in Columns
  PROVE  /\ Depth \in Levels /\ field \in Fields[Depth]
         /\ source.values \subseteq Values[Depth]
  <1>1. Depth \in Levels
    BY ColumnsAssumption DEF Levels
  <1>2. source.node \in Nodes[Depth] /\ source.values \subseteq Values[Depth]
    BY ColumnsAssumption
  <1>. QED BY <1>1, <1>2, FieldOfType DEF field

LEMMA NothingAccepted ==
  ASSUME NEW f
  PROVE  Accepted(Depth, <<>>, f)
  BY EmptySeq DEF Accepted

LEMMA AcceptedOneMore ==
  ASSUME NEW f, NEW vs, NEW v \in Values[Depth], Accepted(Depth, vs, f),
         Accepts[Depth][<<v, f>>]
  PROVE  Accepted(Depth, Append(vs, v), f)
  <1>1. /\ Append(vs, v) \in Seq(Values[Depth]) /\ Len(Append(vs, v)) = Len(vs) + 1
        /\ \A i \in 1 .. Len(vs) : Append(vs, v)[i] = vs[i]
        /\ Append(vs, v)[Len(vs) + 1] = v
    BY AppendProperties DEF Accepted
  <1>2. Len(vs) \in Nat
    BY LenProperties DEF Accepted
  <1>3. ASSUME NEW i \in 1 .. Len(vs) + 1
        PROVE  Accepts[Depth][<<Append(vs, v)[i], f>>]
    <2>1. CASE i \in 1 .. Len(vs)
      BY <1>1, <2>1 DEF Accepted
    <2>2. CASE i = Len(vs) + 1
      BY <1>1, <2>2
    <2>. QED BY <1>2, <2>1, <2>2
  <1>. QED BY <1>1, <1>3 DEF Accepted

LEMMA AcceptedInit == Init => AcceptedColumns
  BY NothingAccepted DEF Init, AcceptedColumns, NoBatch

LEMMA AcceptedStep == AcceptedColumns /\ [Next]_vars => AcceptedColumns'
  <1>. SUFFICES ASSUME AcceptedColumns, [Next]_vars
                PROVE  AcceptedColumns'
    OBVIOUS
  <1>. USE DEF AcceptedColumns
  <1>0. /\ Depth \in Levels /\ field \in Fields[Depth] /\ source.values \subseteq Values[Depth]
    BY FieldTyped
  <1>1. ASSUME NEW v \in source.values, Offer(v)
        PROVE  AcceptedColumns'
    <2>1. source' = source /\ field' = field /\ batch' = NoBatch
      BY <1>1 DEF Offer, field
    <2>2. CASE Accepts[Depth][<<v, field>>]
      <3>1. column' = Append(column, v) /\ outcome' = "ok"
        BY <1>1, <2>2 DEF Offer
      <3>2. Accepted(Depth, column', field)
        BY <1>0, <2>2, <3>1, AcceptedOneMore
      <3>. QED BY <2>1, <3>1, <3>2, NothingAccepted DEF NoBatch
    <2>3. CASE ~Accepts[Depth][<<v, field>>]
      <3>1. column' = column /\ outcome' = "schema_error"
        BY <1>1, <2>3 DEF Offer
      <3>. QED BY <2>1, <3>1, NothingAccepted DEF NoBatch
    <2>. QED BY <2>2, <2>3
  <1>2. CASE Flush
    <2>1. source' = source /\ field' = field
      BY <1>2 DEF Flush, field
    <2>2. ASSUME NEW array \in Built[Depth][<<column, field>>],
                 batch' = [values |-> column,
                           read   |-> [i \in DOMAIN column |->
                                         ReadBack[Depth][<<field, array, i>>]]],
                 column' = <<>>, outcome' = "ok"
          PROVE  AcceptedColumns'
      <3>1. ReadsBack(Depth) /\ Fitting(Depth, column, field)
        BY <1>0, ColumnsReadBack, AcceptedFits
      <3>2. DOMAIN column = 1 .. Len(column)
        BY LenProperties DEF Accepted
      <3>3. \A i \in DOMAIN column :
              ReadBack[Depth][<<field, array, i>>] = StoredAs[Depth][<<column[i], field>>]
        BY <1>0, <2>2, <3>1, <3>2 DEF ReadsBack
      <3>4. batch'.values = column
            /\ batch'.read = [i \in DOMAIN column |-> StoredAs[Depth][<<column[i], field>>]]
        BY <2>2, <3>3
      <3>. QED BY <2>1, <2>2, <3>4, NothingAccepted
    <2>3. CASE Built[Depth][<<column, field>>] = {} /\ batch' = NoBatch /\ UNCHANGED column
      BY <2>1, <2>3, NothingAccepted DEF NoBatch
    <2>. QED BY <1>2, <2>2, <2>3 DEF Flush
  <1>3. CASE UNCHANGED vars
    BY <1>3 DEF vars, field
  <1>. QED BY <1>1, <1>2, <1>3 DEF Next

LEMMA Buffered == Spec => []AcceptedColumns
  BY AcceptedInit, AcceptedStep, PTL DEF Spec

\* A value that validation let into the buffer can be built, at any depth of its
\* type, unless one of its leaves is of another unit of time than its field:
\* validate_value_against_field and parquet_value_refs_to_arrow_array agree on
\* everything else.
THEOREM OnlyUnitsPoisonColumns == Spec => []OnlyUnitsPoison
  <1>1. AcceptedColumns => OnlyUnitsPoison
    <2>. SUFFICES ASSUME AcceptedColumns, outcome = "conversion_error"
                  PROVE  \E i \in DOMAIN column : \E leaf \in LeavesOf[Depth][<<column[i], field>>] :
                           WrongUnit(leaf[1], leaf[2].type)
      BY DEF OnlyUnitsPoison
    <2>1. Depth \in Levels /\ field \in Fields[Depth]
      BY FieldTyped DEF AcceptedColumns
    <2>2. Fitting(Depth, column, field) /\ Built[Depth][<<column, field>>] = {}
      BY AcceptedFits DEF AcceptedColumns
    <2>3. PICK i \in 1 .. Len(column) : Poisoned(Depth, column[i], field)
      BY <2>1, <2>2, FittingColumnsAreBuilt DEF OnlyPoisonFails
    <2>4. i \in DOMAIN column
      BY LenProperties DEF AcceptedColumns, Accepted
    <2>. QED BY <2>3, <2>4 DEF Poisoned
  <1>. QED BY <1>1, Buffered, PTL

\* Whether a buffered column can be built depends on each of its values alone:
\* no value makes another one fail, which is what CoreWriter's flush assumes when
\* it keeps or drops a whole batch.
THEOREM ColumnsBuildValueByValue == Spec => []BuiltValueByValue
  <1>1. AcceptedColumns => BuiltValueByValue
    <2>. SUFFICES ASSUME AcceptedColumns
                  PROVE  BuiltValueByValue
      OBVIOUS
    <2>1. Depth \in Levels /\ field \in Fields[Depth]
      BY FieldTyped DEF AcceptedColumns
    <2>2. column \in Seq(Values[Depth]) /\ DOMAIN column = 1 .. Len(column)
      BY LenProperties DEF AcceptedColumns, Accepted
    <2>3. ValueByValue(Depth)
      BY <2>1, ColumnsAreBuiltValueByValue
    <2>4. Built[Depth][<<column, field>>] # {}
            <=> \A i \in 1 .. Len(column) : OfValue(Depth, column[i], field)
      BY <2>1, <2>2, <2>3 DEF ValueByValue
    <2>. QED BY <2>2, <2>4 DEF OfValue, BuiltValueByValue
  <1>. QED BY <1>1, Buffered, PTL

\* No array of accepted values has a null that its field, or a field anywhere
\* below it, does not allow, except under a struct that is null: the constructors
\* of Arrow, which panic on such an array, are never given one.
THEOREM NullsMaskedEverywhere == Spec => []NullsAreMasked
  <1>1. AcceptedColumns => NullsAreMasked
    <2>. SUFFICES ASSUME AcceptedColumns, NEW array \in Built[Depth][<<column, field>>]
                  PROVE  /\ field.nullable \/ \A i \in DOMAIN array.valid : array.valid[i]
                         /\ Sound[Depth][<<array, field>>]
      BY DEF NullsAreMasked
    <2>1. Depth \in Levels /\ field \in Fields[Depth] /\ Accepted(Depth, column, field)
      BY FieldTyped DEF AcceptedColumns
    <2>2. Sound[Depth][<<array, field>>]
      BY <2>1, AcceptedFits, BuiltColumnsAreSound DEF NullsSound
    <2>. QED BY <2>1, <2>2, NoNullsAccepted
  <1>. QED BY <1>1, Buffered, PTL

\* What was accepted is what arrow_to_parquet_value reads back, value by value
\* and at any depth: offsets undo the flattening of lists and maps, a struct's
\* masked fields come back null, and a timestamp in UTC or without a zone.
THEOREM WrittenIsRead == Spec => []RoundTrip
  <1>1. AcceptedColumns => RoundTrip
    <2>. SUFFICES ASSUME AcceptedColumns, NEW i \in DOMAIN batch.values
                  PROVE  LeavesInUTC(Depth, batch.values[i], field)
      BY DEF RoundTrip, AcceptedColumns, LeavesInUTC
    <2>1. Depth \in Levels /\ field \in Fields[Depth]
      BY FieldTyped DEF AcceptedColumns
    <2>2. batch.values[i] \in Values[Depth] /\ Accepts[Depth][<<batch.values[i], field>>]
      <3>. DEFINE vs == batch.values
      <3>1. Accepted(Depth, vs, field)
        BY DEF AcceptedColumns
      <3>. HIDE DEF vs
      <3>2. i \in 1 .. Len(vs)
        BY <3>1, LenProperties DEF Accepted, vs
      <3>. QED BY <3>1, <3>2, ElementOfSeq DEF Accepted, vs
    <2>. QED BY <2>1, <2>2, AcceptedLeavesInUTC
  <1>. QED BY <1>1, Buffered, PTL

============================================================================
