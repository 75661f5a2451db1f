--------------------------- MODULE AdapterProofs ---------------------------
(***************************************************************************)
(* Proofs about the Ruby adapter.  Chunk readers: for any contents, calls  *)
(* and number of clones the state keeps its shape, every answer is the     *)
(* range that was asked for and no range leaves the source.  Sessions: an  *)
(* enumerator repeats the call it was made by, whatever the arguments, the *)
(* schema and the rows.  Times: each comes back as the instant, the time   *)
(* of day or the day it was, up to the unit of its column.                 *)
(***************************************************************************)
EXTENDS ChunkReader, RubySession, RubyTimes, SequenceTheorems, TLAPS

-----------------------------------------------------------------------------
(* Chunk readers.                                                          *)

Contents == {k \in [version : Versions, base : Nat] : k.base <= Size[k.version]}
Steps == {"ended", "seek", "seek_again", "read"}

OpType ==
  [call : {"none", "bytes", "range", "buffered"}, step : Steps,
   start : 0 .. U64 - 1, length : Nat, end : Int, content : Contents \union {NoFile}, pos : Nat,
   got : Seq(Versions \X Nat), result : {"none", "ok", "error"}]

SourceType ==
  [kind : Kinds, direct : BOOLEAN,
   content : Contents \union {NoFile}, len : 0 .. U64 - 1]

\* What holds of a call, whatever others do.
Sound(o) ==
  /\ o \in OpType
  /\ o.call = "bytes" => Len(o.got) <= o.length
  /\ o.step # "ended" => o.content \in Contents /\ o.result = "none"
  /\ o.step \in {"seek", "seek_again"} => o.got = <<>> /\ HasCursor
  /\ o.step = "read" /\ ~HasCursor => o.pos = o.start + Len(o.got)
  /\ o.call = "bytes" /\ o.result = "ok" => Len(o.got) = o.length \/ source.kind = "bytes"

Shape ==
  /\ disk \in Versions \union {NoFile}
  /\ cursor \in 0 .. U64 - 1
  /\ op \in [Clones -> OpType]
  /\ IF source = NoSource
     THEN \A c \in Clones : op[c] = NoCall
     ELSE source \in SourceType /\ (source.kind # "file" => source.content \in Contents)
  /\ \A c \in Clones : Sound(op[c])

\* While clones take turns, the cursor is where the one call that uses it
\* left it, or at the end of a string if it was to go beyond.
Follows(o) ==
  /\ InRange(o)
  /\ o.step = "read" /\ HasCursor =>
       \/ cursor = o.start + Len(o.got)
       \/ o.got = <<>> /\ Available(o.content, cursor) = 0

OneAtATime == HasCursor => \A c, d \in Clones : Busy(c) /\ Busy(d) => c = d

IInv ==
  /\ Shape
  /\ source # NoSource => OneAtATime
  /\ \A c \in Clones : Follows(op[c])

-----------------------------------------------------------------------------
(* Contents and calls.                                                     *)

LEMMA BytesOfContent ==
  ASSUME NEW content \in Contents, NEW pos \in Nat, NEW n \in Nat
  PROVE  /\ Bytes(content, pos, n) \in Seq(Versions \X Nat)
         /\ Len(Bytes(content, pos, n)) = n
         /\ \A i \in 1 .. n : Bytes(content, pos, n)[i] = Byte(content, pos + i - 1)
  <1>1. \A i \in 1 .. n : Byte(content, pos + i - 1) \in Versions \X Nat
    BY DEF Byte, Contents
  <1>. QED
    BY <1>1 DEF Bytes

LEMMA Appended ==
  ASSUME NEW s \in Seq(Versions \X Nat), NEW t \in Seq(Versions \X Nat)
  PROVE  /\ s \o t \in Seq(Versions \X Nat)
         /\ Len(s \o t) = Len(s) + Len(t)
         /\ DOMAIN (s \o t) = 1 .. Len(s) + Len(t)
         /\ \A i \in 1 .. Len(s) : (s \o t)[i] = s[i]
         /\ \A i \in 1 .. Len(t) : (s \o t)[Len(s) + i] = t[i]
  <1>1. s \o t \in Seq(Versions \X Nat) /\ Len(s \o t) = Len(s) + Len(t)
    BY ConcatProperties
  <1>2. DOMAIN (s \o t) = 1 .. Len(s \o t)
    BY <1>1
  <1>3. \A i \in 1 .. Len(s) : (s \o t)[i] = s[i]
    BY ConcatProperties
  <1>4. \A i \in 1 .. Len(t) : (s \o t)[Len(s) + i] = t[i]
    <2>. TAKE i \in 1 .. Len(t)
    <2>1. Len(s) + i \in 1 .. Len(s) + Len(t) /\ Len(s) + i > Len(s) /\ Len(s) + i - Len(s) = i
      OBVIOUS
    <2>. QED BY <2>1, ConcatProperties
  <1>. QED
    BY <1>1, <1>2, <1>3, <1>4

LEMMA AvailableBytes ==
  ASSUME NEW content \in Contents, NEW pos \in Nat
  PROVE  /\ Available(content, pos) \in Nat
         /\ Available(content, pos) # 0 => pos + Available(content, pos) < U64
  BY ChunkAssumption DEF Available, Length, Contents

LEMMA RangeEnds ==
  ASSUME NEW start \in Nat, source \in SourceType
  PROVE  RangeEnd(start) \in Nat
  <1>1. (source.len - start) % U64 \in Nat
    BY ChunkAssumption DEF SourceType
  <1>. QED
    BY <1>1, ChunkAssumption DEF RangeEnd

\* A new call.
LEMMA NewCall ==
  ASSUME Shape, source # NoSource, NEW call \in {"bytes", "range", "buffered"},
         NEW start \in Starts, NEW length \in Nat
  PROVE  /\ Asked(call, start, length) \in OpType
         /\ Asked(call, start, length).step = "ended"
         /\ Asked(call, start, length).result = "none"
         /\ Asked(call, start, length).got = <<>>
         /\ Asked(call, start, length).start = start
         /\ Asked(call, start, length).length = length
         /\ Asked(call, start, length).call = call
         /\ Asked(call, start, length).pos = start
  <1>1. source \in SourceType /\ start \in 0 .. U64 - 1
    BY ChunkAssumption DEF Shape
  <1>. DEFINE end == IF call = "range" THEN RangeEnd(start) ELSE start + length
  <1>2. end \in Int
    BY <1>1, RangeEnds
  <1>. QED
    BY <1>1, <1>2 DEF Asked, OpType, Steps

\* How much a read may take.
LEMMA Remains ==
  ASSUME NEW o \in OpType, o.call = "bytes" => Len(o.got) <= o.length,
         o.content \in Contents, cursor \in Nat
  PROVE  Remaining(o) \in Nat
  <1>1. Len(o.got) \in Nat /\ o.start \in Nat /\ o.length \in Nat /\ o.end \in Int
    BY ChunkAssumption DEF OpType
  <1>2. (o.end - (o.start + Len(o.got))) % U64 \in Nat
    BY <1>1, ChunkAssumption
  <1>3. Available(o.content, Position(o)) \in Nat
    BY AvailableBytes DEF Position, OpType
  <1>. QED
    BY <1>1, <1>2, <1>3 DEF Remaining

-----------------------------------------------------------------------------
(* Steps of one clone.                                                     *)

\* A step that leaves the other calls alone.
LEMMA ShapeOfStep ==
  ASSUME Shape, source # NoSource, UNCHANGED <<disk, source>>,
         NEW c \in Clones, NEW o, op' = [op EXCEPT ![c] = o],
         cursor' \in 0 .. U64 - 1, Sound(o)
  PROVE  Shape'
  <1>1. \A d \in Clones : op'[d] = IF d = c THEN o ELSE op[d]
    BY DEF Shape
  <1>2. \A d \in Clones : Sound(op[d])'
    BY <1>1 DEF Shape, Sound, HasCursor
  <1>3. op' \in [Clones -> OpType]
    BY DEF Shape, Sound
  <1>. QED
    BY <1>2, <1>3 DEF Shape

\* While clones take turns, the others are not concerned if the cursor moves.
LEMMA FollowsOfStep ==
  ASSUME IInv, source # NoSource, UNCHANGED source,
         NEW c \in Clones, NEW o, op' = [op EXCEPT ![c] = o], Shape',
         HasCursor /\ o.step # "ended" => \A d \in Clones \ {c} : ~Busy(d),
         cursor' = cursor \/ (HasCursor /\ Busy(c)),
         Follows(o)'
  PROVE  IInv'
  <1>1. \A d \in Clones : op'[d] = IF d = c THEN o ELSE op[d]
    BY DEF IInv, Shape
  <1>2. ASSUME NEW d \in Clones
        PROVE  Follows(op[d])'
    <2>1. CASE d = c
      <3>1. op'[d] = o
        BY <1>1, <2>1
      <3>. QED
        BY <3>1 DEF Follows, InRange
    <2>2. CASE d # c
      <3>1. op'[d] = op[d] /\ Follows(op[d])
        BY <1>1, <2>2 DEF IInv
      <3>2. CASE cursor' = cursor
        BY <3>1, <3>2 DEF Follows, InRange, HasCursor
      <3>3. CASE HasCursor /\ Busy(c)
        <4>1. ~Busy(d)
          BY <3>3, <2>2 DEF IInv, OneAtATime
        <4>. QED
          BY <3>1, <4>1 DEF Follows, InRange, Busy
      <3>. QED BY <3>2, <3>3
    <2>. QED BY <2>1, <2>2
  <1>3. OneAtATime'
    BY <1>1 DEF IInv, OneAtATime, Busy, HasCursor
  <1>. QED
    BY <1>2, <1>3 DEF IInv

\* What Begin makes of a new call.
LEMMA BeginCall ==
  ASSUME Shape, NEW c \in Clones, NEW call \in {"bytes", "range", "buffered"},
         NEW start \in Starts, NEW length \in Nat,
         Begin(c, Asked(call, start, length))
  PROVE  \E o \in OpType :
           /\ op' = [op EXCEPT ![c] = o]
           /\ Sound(o) /\ InRange(o)
           /\ o.step = "read" => ~HasCursor
  <1>. DEFINE a == Asked(call, start, length)
  <1>1. source # NoSource
    BY DEF Begin, MayBegin
  <1>2. /\ a \in OpType /\ a.step = "ended" /\ a.result = "none" /\ a.got = <<>>
        /\ a.start = start /\ a.length = length /\ a.call = call /\ a.pos = start
    BY <1>1, NewCall
  <1>3. source \in SourceType /\ (source.kind # "file" => source.content \in Contents)
    BY <1>1 DEF Shape
  <1>4. start \in Nat /\ a.got \in Seq(Versions \X Nat)
    BY <1>2, ChunkAssumption DEF OpType
  <1>. HIDE DEF a
  <1>8. /\ Ended(a, "error") \in OpType /\ Ended(a, "error").step = "ended"
        /\ Sound(Ended(a, "error")) /\ InRange(Ended(a, "error"))
    <2>. DEFINE o == Ended(a, "error")
    <2>1. /\ o \in OpType /\ o.step = "ended" /\ o.got = <<>> /\ o.result = "error"
          /\ o.length = length
      BY <1>2 DEF Ended, OpType, Steps
    <2>. HIDE DEF o
    <2>2. Sound(o) /\ InRange(o)
      BY <1>4, <2>1 DEF Sound, InRange
    <2>. QED BY <2>1, <2>2 DEF o
  <1>5. CASE HasCursor /\ BeginOnCursor(c, a)
    <2>. DEFINE o == [a EXCEPT !.content = source.content, !.step = "seek"]
    <2>1. op' = [op EXCEPT ![c] = o] /\ source.content \in Contents
      BY <1>3, <1>5 DEF BeginOnCursor, HasCursor
    <2>2. /\ o \in OpType /\ o.step = "seek" /\ o.got = <<>> /\ o.result = "none"
          /\ o.content = source.content /\ o.length = length
      BY <1>2, <2>1 DEF OpType, Steps
    <2>. HIDE DEF o
    <2>3. Sound(o) /\ InRange(o)
      BY <1>4, <1>5, <2>1, <2>2 DEF Sound, InRange
    <2>. QED BY <2>1, <2>2, <2>3
  <1>6. CASE source.kind = "file" /\ BeginOnFile(c, a)
    <2>1. ~HasCursor
      BY <1>6 DEF HasCursor
    <2>2. CASE disk = NoFile
      <3>. DEFINE o == Ended(a, "error")
      <3>1. op' = [op EXCEPT ![c] = o]
        BY <1>6, <2>2 DEF BeginOnFile
      <3>. QED BY <1>8, <3>1
    <2>3. CASE disk # NoFile
      <3>. DEFINE o == [a EXCEPT !.content = Whole(disk), !.step = "read"]
      <3>1. op' = [op EXCEPT ![c] = o] /\ Whole(disk) \in Contents
        BY <1>6, <2>3, ChunkAssumption DEF BeginOnFile, Whole, Contents, Shape
      <3>2. /\ o \in OpType /\ o.step = "read" /\ o.got = <<>> /\ o.result = "none"
            /\ o.content = Whole(disk) /\ o.length = length /\ o.pos = start /\ o.start = start
        BY <1>2, <3>1 DEF OpType, Steps
      <3>. HIDE DEF o
      <3>3. Sound(o) /\ InRange(o)
        BY <1>4, <3>1, <3>2 DEF Sound, InRange
      <3>. QED BY <2>1, <3>1, <3>2, <3>3
    <2>. QED BY <2>2, <2>3
  <1>7. CASE source.kind = "bytes" /\ BeginOnBytes(c, a)
    <2>1. CASE start > source.len
      <3>. DEFINE o == Ended(a, "error")
      <3>1. op' = [op EXCEPT ![c] = o]
        BY <1>2, <1>7, <2>1 DEF BeginOnBytes
      <3>. QED BY <1>8, <3>1
    <2>2. CASE ~(start > source.len)
      <3>. DEFINE end == IF a.call = "range" THEN source.len ELSE Lesser(start + length, source.len)
                  n == end - start
                  got == Bytes(source.content, start, n)
                  o == Ended([a EXCEPT !.content = source.content, !.got = got], "ok")
      <3>1. op' = [op EXCEPT ![c] = o]
        BY <1>2, <1>7, <2>2 DEF BeginOnBytes
      <3>2. n \in Nat /\ (call = "bytes" => n <= length)
        BY <1>2, <1>3, <1>4, <2>2 DEF Lesser, SourceType
      <3>3. source.content \in Contents
        BY <1>3, <1>7
      <3>. HIDE DEF n
      <3>4. /\ got \in Seq(Versions \X Nat) /\ Len(got) = n
            /\ \A i \in 1 .. n : got[i] = Byte(source.content, start + i - 1)
        BY <1>4, <3>2, <3>3, BytesOfContent
      <3>. HIDE DEF got
      <3>5. o \in OpType /\ o.step = "ended" /\ o.result = "ok" /\ o.got = got
            /\ o.content = source.content /\ o.start = start /\ o.call = call /\ o.length = length
        BY <1>2, <3>3, <3>4 DEF Ended, OpType, Steps
      <3>. HIDE DEF o
      <3>6. Sound(o)
        BY <1>7, <3>2, <3>4, <3>5 DEF Sound
      <3>7. InRange(o)
        BY <3>4, <3>5 DEF InRange
      <3>. QED BY <3>1, <3>5, <3>6, <3>7
    <2>. QED BY <2>1, <2>2
  <1>. QED
    BY <1>5, <1>6, <1>7 DEF Begin, a

\* The cursor goes where the call starts.
LEMMA SeekCall ==
  ASSUME Shape, NEW c \in Clones, Seek(c)
  PROVE  \E o \in OpType :
           /\ op' = [op EXCEPT ![c] = o]
           /\ Sound(o) /\ InRange(o) /\ HasCursor /\ Busy(c)
           /\ o.step # "ended" /\ o.got = <<>>
           /\ cursor' = o.start \/ Available(o.content, cursor') = 0
           /\ cursor' \in 0 .. U64 - 1
  <1>. DEFINE step == IF op[c].step = "seek" /\ op[c].call = "range" THEN "seek_again" ELSE "read"
              o == [op[c] EXCEPT !.step = step]
  <1>1. op[c] \in OpType /\ Sound(op[c]) /\ op[c].step \in {"seek", "seek_again"}
    BY DEF Shape, Seek
  <1>2. op' = [op EXCEPT ![c] = o]
    BY <1>1 DEF Seek, Shape, OpType
  <1>3. /\ o \in OpType /\ o.step = step /\ o.got = <<>> /\ o.start = op[c].start
        /\ o.content = op[c].content /\ o.call = op[c].call /\ o.length = op[c].length
        /\ o.result = op[c].result
    BY <1>1 DEF OpType, Steps, Sound
  <1>4. step \in {"seek_again", "read"}
    OBVIOUS
  <1>. HIDE DEF o, step
  <1>5. Sound(o) /\ InRange(o) /\ HasCursor
    BY <1>1, <1>3, <1>4 DEF Sound, InRange
  <1>6. /\ cursor' = o.start \/ Available(o.content, cursor') = 0
        /\ cursor' \in 0 .. U64 - 1
    <2>1. cursor' = SoughtTo(op[c]) /\ op[c].start \in 0 .. U64 - 1
      BY <1>1 DEF Seek, OpType
    <2>2. op[c].content \in Contents
      BY <1>1 DEF Sound
    <2>3. CASE source.kind = "string"
      <3>1. Length(op[c].content) \in Nat /\ Length(op[c].content) < U64
        BY <2>2, ChunkAssumption DEF Length, Contents
      <3>2. cursor' = Lesser(op[c].start, Length(op[c].content))
        BY <2>1, <2>3 DEF SoughtTo
      <3>. QED BY <1>3, <2>1, <3>1, <3>2, ChunkAssumption DEF Lesser, Available
    <2>4. CASE source.kind # "string"
      BY <1>3, <2>1, <2>4 DEF SoughtTo
    <2>. QED BY <2>3, <2>4
  <1>. QED
    BY <1>1, <1>2, <1>3, <1>4, <1>5, <1>6 DEF Seek, Busy, OpType

\* One more piece is read.
LEMMA ReadCall ==
  ASSUME Shape, NEW c \in Clones, ReadSome(c)
  PROVE  \E o \in OpType :
           /\ op' = [op EXCEPT ![c] = o]
           /\ Sound(o) /\ Busy(c) /\ o.step = "read"
           /\ cursor' \in 0 .. U64 - 1
           /\ cursor' = cursor \/ HasCursor
           /\ Follows(op[c]) => Follows(o)'
  <1>. DEFINE p == op[c]
              at == Position(p)
              most == Lesser(Remaining(p), Available(p.content, at))
  <1>1. /\ p \in OpType /\ Sound(p) /\ p.step = "read" /\ p.content \in Contents
        /\ p.start \in Nat /\ Len(p.got) \in Nat /\ p.length \in Nat
        /\ p.got \in Seq(Versions \X Nat) /\ p.pos \in Nat /\ p.result = "none"
    BY ChunkAssumption DEF Shape, ReadSome, Sound, OpType
  <1>2. at \in Nat /\ cursor \in 0 .. U64 - 1
    BY <1>1, ChunkAssumption DEF Position, Shape
  <1>3. Remaining(p) \in Nat
    <2>1. cursor \in Nat
      BY <1>2, ChunkAssumption
    <2>. HIDE DEF p
    <2>. QED BY <1>1, <2>1, Remains DEF Sound
  <1>4. /\ Available(p.content, at) \in Nat
        /\ Available(p.content, at) # 0 => at + Available(p.content, at) < U64
    BY <1>1, <1>2, AvailableBytes
  <1>5. PICK n \in 1 .. most :
          /\ op' = [op EXCEPT ![c] = [p EXCEPT !.got = @ \o Bytes(p.content, at, n),
                                               !.pos = @ + n]]
          /\ cursor' = IF HasCursor THEN cursor + n ELSE cursor
          /\ source' = source
    BY DEF ReadSome
  <1>. DEFINE more == Bytes(p.content, at, n)
              o == [p EXCEPT !.got = p.got \o more, !.pos = p.pos + n]
  <1>6. /\ n \in Nat \ {0} /\ n <= Remaining(p) /\ n <= Available(p.content, at)
        /\ at + n < U64
    BY <1>2, <1>3, <1>4, ChunkAssumption DEF Lesser
  <1>7. /\ more \in Seq(Versions \X Nat) /\ Len(more) = n
        /\ \A i \in 1 .. n : more[i] = Byte(p.content, at + i - 1)
    BY <1>1, <1>2, <1>6, BytesOfContent
  <1>. HIDE DEF more
  <1>8. /\ p.got \o more \in Seq(Versions \X Nat)
        /\ Len(p.got \o more) = Len(p.got) + n
        /\ DOMAIN (p.got \o more) = 1 .. Len(p.got) + n
        /\ \A i \in 1 .. Len(p.got) : (p.got \o more)[i] = p.got[i]
        /\ \A i \in 1 .. n : (p.got \o more)[Len(p.got) + i] = more[i]
    <2>1. p.got \in Seq(Versions \X Nat) /\ more \in Seq(Versions \X Nat) /\ Len(more) = n
      BY <1>1, <1>7
    <2>. HIDE DEF p
    <2>. QED BY <2>1, Appended
  <1>9. op' = [op EXCEPT ![c] = o]
    BY <1>1, <1>5 DEF more, OpType
  <1>10. /\ o \in OpType /\ o.got = p.got \o more /\ o.pos = p.pos + n /\ o.start = p.start
         /\ o.step = "read" /\ o.call = p.call /\ o.length = p.length /\ o.result = "none"
         /\ o.content = p.content
    <2>. DEFINE got == p.got \o more
                pos == p.pos + n
    <2>1. got \in Seq(Versions \X Nat) /\ pos \in Nat
      BY <1>1, <1>6, <1>8
    <2>. HIDE DEF got, pos
    <2>2. [p EXCEPT !.got = got, !.pos = pos] \in OpType
      BY <1>1, <2>1 DEF OpType
    <2>3. LET r == [p EXCEPT !.got = got, !.pos = pos]
          IN /\ r.got = got /\ r.pos = pos /\ r.start = p.start /\ r.step = p.step
             /\ r.call = p.call /\ r.length = p.length /\ r.result = p.result
             /\ r.content = p.content
      BY <1>1 DEF OpType
    <2>. QED BY <1>1, <2>2, <2>3 DEF got, pos
  <1>. HIDE DEF o
  <1>11. PICK q \in OpType : q = o
    BY <1>10
  <1>12. q.call = "bytes" => Len(q.got) <= q.length
    <2>1. p.call = "bytes" => n <= p.length - Len(p.got)
      BY <1>6 DEF Remaining
    <2>2. Len(q.got) = Len(p.got) + n /\ q.length = p.length /\ q.call = p.call
      BY <1>8, <1>10, <1>11
    <2>. QED BY <1>1, <1>6, <2>1, <2>2
  <1>13. Sound(q)
    <2>1. /\ q.step = "read" /\ q.result = "none" /\ q.content \in Contents
          /\ q.start = p.start /\ q.pos = p.pos + n /\ Len(q.got) = Len(p.got) + n
      BY <1>1, <1>8, <1>10, <1>11
    <2>2. ~HasCursor => p.pos = p.start + Len(p.got)
      BY <1>1 DEF Sound
    <2>3. ~HasCursor => q.pos = q.start + Len(q.got)
      <3>1. p.pos \in Nat /\ p.start \in Nat /\ Len(p.got) \in Nat
        BY <1>1 DEF OpType
      <3>2. n \in Nat
        BY <1>6
      <3>. HIDE DEF p
      <3>. QED BY <2>1, <2>2, <3>1, <3>2
    <2>. QED BY <1>12, <2>1, <2>3 DEF Sound
  <1>14. cursor' \in 0 .. U64 - 1 /\ (cursor' = cursor \/ HasCursor)
    BY <1>2, <1>5, <1>6, ChunkAssumption DEF Position
  <1>15. ASSUME Follows(p)
         PROVE  Follows(q)'
    <2>1. at = p.start + Len(p.got)
      <3>1. CASE HasCursor
        BY <1>1, <1>4, <1>6, <1>15, <3>1 DEF Follows, Position
      <3>2. CASE ~HasCursor
        BY <1>1, <3>2 DEF Sound, Position
      <3>. QED BY <3>1, <3>2
    <2>2. ASSUME NEW i \in 1 .. Len(p.got) + n
          PROVE  q.got[i] = Byte(p.content, p.start + i - 1)
      <3>1. CASE i <= Len(p.got)
        <4>1. i \in DOMAIN p.got /\ q.got[i] = p.got[i]
          BY <1>1, <1>8, <1>10, <1>11, <2>2, <3>1
        <4>. QED BY <1>15, <4>1 DEF Follows, InRange
      <3>2. CASE i > Len(p.got)
        <4>. DEFINE j == i - Len(p.got)
        <4>1. j \in 1 .. n /\ q.got[i] = more[j]
          <5>1. j \in 1 .. n /\ Len(p.got) + j = i
            BY <1>1, <1>6, <2>2, <3>2
          <5>. QED BY <1>8, <1>10, <1>11, <5>1
        <4>2. more[j] = Byte(p.content, at + j - 1)
          BY <4>1, <1>7
        <4>3. at + j - 1 = p.start + i - 1
          BY <1>1, <1>6, <2>1, <2>2
        <4>. QED BY <4>1, <4>2, <4>3
      <3>. QED BY <1>1, <1>6, <2>2, <3>1, <3>2
    <2>3. InRange(q)
      BY <1>8, <1>10, <1>11, <2>2 DEF InRange
    <2>4. HasCursor => cursor' = q.start + Len(q.got)
      <3>1. HasCursor => cursor = p.start + Len(p.got)
        BY <2>1 DEF Position
      <3>2. q.start = p.start /\ Len(q.got) = Len(p.got) + n
        BY <1>8, <1>10, <1>11
      <3>. QED BY <1>1, <1>2, <1>5, <1>6, <3>1, <3>2
    <2>5. HasCursor' = HasCursor
      BY <1>5 DEF HasCursor
    <2>. QED
      BY <2>3, <2>4, <2>5 DEF Follows, InRange
  <1>. QED
    BY <1>1, <1>9, <1>10, <1>11, <1>13, <1>14, <1>15 DEF Busy

\* A call that ends keeps what it has.
LEMMA EndCall ==
  ASSUME Shape, NEW c \in Clones, ReadEnds(c) \/ GiveUp(c)
  PROVE  \E o \in OpType :
           /\ op' = [op EXCEPT ![c] = o]
           /\ Sound(o) /\ o.step = "ended"
           /\ InRange(op[c]) => InRange(o)
  <1>. DEFINE p == op[c]
  <1>1. p \in OpType /\ Sound(p)
    BY DEF Shape
  <1>2. PICK result \in {"ok", "error"} :
          /\ op' = [op EXCEPT ![c] = Ended(p, result)]
          /\ p.call = "bytes" /\ result = "ok" => Remaining(p) = 0
    <2>1. CASE ReadEnds(c)
      BY <2>1, <1>1 DEF ReadEnds, OpType
    <2>2. CASE GiveUp(c)
      <3>1. op' = [op EXCEPT ![c] = Ended(p, "error")]
        BY <2>2 DEF GiveUp, Shape
      <3>. QED BY <3>1
    <2>. QED BY <2>1, <2>2
  <1>. DEFINE o == Ended(p, result)
  <1>3. /\ o \in OpType /\ o.step = "ended" /\ o.result = result /\ o.got = p.got /\ o.call = p.call
        /\ o.length = p.length /\ o.start = p.start /\ o.content = p.content
    BY <1>1 DEF Ended, OpType, Steps
  <1>4. p.call = "bytes" /\ result = "ok" => Len(p.got) = p.length
    <2>1. Len(p.got) \in Nat /\ p.length \in Nat
      BY <1>1 DEF OpType
    <2>. QED BY <1>2, <2>1 DEF Remaining
  <1>. HIDE DEF o
  <1>5. Sound(o)
    BY <1>1, <1>3, <1>4 DEF Sound
  <1>6. InRange(p) => InRange(o)
    BY <1>3 DEF InRange
  <1>. QED
    BY <1>2, <1>3, <1>5, <1>6 DEF o
-----------------------------------------------------------------------------
(* The invariants.                                                         *)

LEMMA ShapeInit == Init => Shape
  <1>. SUFFICES ASSUME Init PROVE Shape
    OBVIOUS
  <1>1. cursor \in 0 .. U64 - 1
    <2>1. PICK v \in Versions : cursor \in 0 .. Size[v]
      BY DEF Init
    <2>. QED BY <2>1, ChunkAssumption
  <1>2. NoCall \in OpType /\ Sound(NoCall)
    BY ChunkAssumption DEF NoCall, OpType, Steps, Sound
  <1>. QED
    BY <1>1, <1>2 DEF Init, Shape

LEMMA OpenKeepsShape ==
  ASSUME Shape, Open
  PROVE  Shape' /\ op' = op
  <1>1. op' = op /\ disk' = disk /\ \A c \in Clones : op[c] = NoCall
    BY DEF Open, Shape, OpenPath, OpenSeekable, OpenPlain, OpenBytes, OpenDirect,
       OpenString
  <1>2. cursor' \in 0 .. U64 - 1
    BY ChunkAssumption
    DEF Open, Shape, OpenPath, OpenSeekable, OpenPlain, OpenBytes, OpenDirect, OpenString
  <1>3. source' \in SourceType /\ (source'.kind # "file" => source'.content \in Contents)
    <2>1. CASE OpenPath
      BY <2>1, ChunkAssumption DEF OpenPath, Shape, SourceType, Kinds
    <2>2. ASSUME NEW v \in Versions,
                 \/ OpenSeekable(v) \/ OpenPlain(v) \/ OpenBytes(v)
                 \/ OpenDirect(v) \/ OpenString(v)
          PROVE  source' \in SourceType /\ source'.content \in Contents
      <3>1. /\ Size[v] \in 0 .. U64 - 1 /\ 0 \in 0 .. U64 - 1
            /\ Whole(v) \in Contents
        BY ChunkAssumption DEF Whole, Contents
      <3>2. CASE OpenPlain(v)
        <4>. DEFINE content == [version |-> v, base |-> cursor]
        <4>1. cursor \in Nat /\ cursor <= Size[v] /\ Size[v] - cursor \in 0 .. U64 - 1
          BY <3>1, <3>2, ChunkAssumption DEF OpenPlain, Shape
        <4>2. content \in Contents
          BY <4>1 DEF Contents
        <4>3. PICK direct \in BOOLEAN :
                source' = [kind |-> "proxy", direct |-> direct, content |-> content,
                           len |-> Size[v] - cursor]
          BY <3>2 DEF OpenPlain
        <4>. HIDE DEF content
        <4>. QED BY <4>1, <4>2, <4>3 DEF SourceType, Kinds
      <3>3. CASE OpenSeekable(v) \/ OpenBytes(v) \/ OpenDirect(v) \/ OpenString(v)
        <4>. DEFINE content == Whole(v)
        <4>1. PICK kind \in {"io", "bytes", "string"}, direct \in BOOLEAN, len \in {0, Size[v]} :
                source' = [kind |-> kind, direct |-> direct, content |-> content, len |-> len]
          BY <3>3, Zenon DEF OpenSeekable, OpenBytes, OpenDirect, OpenString
        <4>. HIDE DEF content
        <4>2. len \in 0 .. U64 - 1
          BY <3>1
        <4>3. content \in Contents
          BY <3>1 DEF content
        <4>. QED BY <4>1, <4>2, <4>3 DEF SourceType, Kinds
      <3>. QED BY <2>2, <3>2, <3>3
    <2>. QED BY <2>1, <2>2 DEF Open
  <1>4. NoCall \in OpType /\ Sound(NoCall)'
    BY ChunkAssumption DEF NoCall, OpType, Steps, Sound
  <1>5. \A c \in Clones : Sound(op[c])'
    <2>. TAKE c \in Clones
    <2>1. op'[c] = NoCall
      BY <1>1
    <2>. QED BY <1>4, <2>1 DEF Sound
  <1>. QED
    BY <1>1, <1>2, <1>3, <1>5 DEF Shape

LEMMA RunningCall ==
  ASSUME Shape, NEW c \in Clones, Step(c) \/ GiveUp(c)
  PROVE  Busy(c) /\ source # NoSource /\ UNCHANGED <<disk, source>>
  <1>1. Busy(c)
    BY DEF Step, Seek, ReadSome, ReadEnds, GiveUp, Busy
  <1>2. NoCall.step = "ended"
    BY DEF NoCall
  <1>3. source # NoSource
    BY <1>1, <1>2 DEF Shape, Busy
  <1>4. UNCHANGED <<disk, source>>
    BY DEF Step, Seek, ReadSome, ReadEnds, GiveUp
  <1>. QED
    BY <1>1, <1>3, <1>4

LEMMA ShapeStep ==
  ASSUME Shape, [Next]_vars
  PROVE  Shape'
  <1>1. CASE UNCHANGED vars
    BY <1>1 DEF vars, Shape, Sound, HasCursor
  <1>2. CASE Open
    BY <1>2, OpenKeepsShape
  <1>3. CASE Replace
    BY <1>3 DEF Replace, Shape, Sound, HasCursor
  <1>4. CASE MoveCursor
    BY <1>4, ChunkAssumption DEF MoveCursor, Shape, Sound, HasCursor
  <1>5. ASSUME NEW c \in Clones, GetBytes(c) \/ GetRead(c)
        PROVE  Shape'
    <2>1. PICK call \in {"bytes", "range", "buffered"}, start \in Starts, length \in Nat :
            Begin(c, Asked(call, start, length))
      BY <1>5, ChunkAssumption DEF GetBytes, GetRead
    <2>2. PICK o \in OpType : op' = [op EXCEPT ![c] = o] /\ Sound(o)
      BY <2>1, BeginCall
    <2>. QED
      BY <2>1, <2>2, ShapeOfStep DEF Begin, MayBegin, Shape
  <1>6. ASSUME NEW c \in Clones, Step(c) \/ GiveUp(c)
        PROVE  Shape'
    <2>1. source # NoSource /\ UNCHANGED <<disk, source>>
      BY <1>6, RunningCall
    <2>2. CASE Seek(c)
      BY <2>1, <2>2, SeekCall, ShapeOfStep
    <2>3. CASE ReadSome(c)
      BY <2>1, <2>3, ReadCall, ShapeOfStep
    <2>4. CASE ReadEnds(c) \/ GiveUp(c)
      <3>1. cursor' \in 0 .. U64 - 1
        BY <2>4 DEF ReadEnds, GiveUp, Shape
      <3>. QED BY <2>1, <2>4, <3>1, EndCall, ShapeOfStep
    <2>. QED BY <1>6, <2>2, <2>3, <2>4 DEF Step
  <1>. QED
    BY <1>1, <1>2, <1>3, <1>4, <1>5, <1>6 DEF Next

\* The state keeps its shape: a call, whoever else uses the cursor, never
\* holds more than it asked for, and no position leaves u64.
THEOREM TypeCorrect == Spec => []TypeOK
  <1>1. Shape => TypeOK
    <2>. SUFFICES ASSUME Shape PROVE TypeOK
      OBVIOUS
    <2>1. ASSUME NEW c \in Clones
          PROVE  op[c].step \in Steps /\ (op[c].call = "bytes" => Len(op[c].got) <= op[c].length)
      BY DEF Shape, Sound, OpType
    <2>2. source # NoSource => source.len < U64 /\ source.kind \in Kinds
      BY ChunkAssumption DEF Shape, SourceType
    <2>. QED BY <2>1, <2>2 DEF Shape, Steps, TypeOK
  <1>. QED
    BY <1>1, ShapeInit, ShapeStep, PTL DEF Spec

LEMMA IInvStep ==
  ASSUME IInv, [Next]_vars
  PROVE  IInv'
  <1>0. Shape /\ Shape'
    BY ShapeStep DEF IInv
  <1>1. CASE UNCHANGED vars
    BY <1>0, <1>1 DEF vars, IInv, OneAtATime, Follows, InRange, HasCursor, Busy
  <1>2. CASE Open
    <2>1. op' = op /\ \A c \in Clones : op'[c] = NoCall
      BY <1>0, <1>2, OpenKeepsShape DEF Shape, Open
    <2>. QED
      BY <1>0, <2>1 DEF IInv, OneAtATime, Follows, InRange, Busy, NoCall
  <1>3. CASE Replace
    BY <1>0, <1>3 DEF Replace, IInv, OneAtATime, Follows, InRange, HasCursor, Busy
  <1>4. CASE MoveCursor
    <2>1. UNCHANGED <<op, source>> /\ source # NoSource /\ \A c \in Clones : ~Busy(c)
      BY <1>4 DEF MoveCursor
    <2>. QED
      BY <1>0, <2>1 DEF IInv, OneAtATime, Follows, InRange, HasCursor, Busy
  <1>5. ASSUME NEW c \in Clones, GetBytes(c) \/ GetRead(c)
        PROVE  IInv'
    <2>1. PICK call \in {"bytes", "range", "buffered"}, start \in Starts, length \in Nat :
            Begin(c, Asked(call, start, length))
      BY <1>5, ChunkAssumption DEF GetBytes, GetRead
    <2>2. PICK o \in OpType : /\ op' = [op EXCEPT ![c] = o] /\ InRange(o)
                              /\ o.step = "read" => ~HasCursor
      BY <1>0, <2>1, BeginCall
    <2>3. /\ source # NoSource /\ UNCHANGED <<source, cursor>>
          /\ HasCursor => \A d \in Clones : ~Busy(d)
      BY <2>1 DEF Begin, MayBegin
    <2>4. Follows(o)'
      BY <2>2, <2>3 DEF Follows, InRange, HasCursor
    <2>. QED BY <1>0, <2>2, <2>3, <2>4, FollowsOfStep
  <1>6. ASSUME NEW c \in Clones, Step(c) \/ GiveUp(c)
        PROVE  IInv'
    <2>1. source # NoSource /\ UNCHANGED source /\ Busy(c)
      BY <1>0, <1>6, RunningCall
    <2>2. HasCursor => \A d \in Clones \ {c} : ~Busy(d)
      BY <2>1 DEF IInv, OneAtATime
    <2>3. CASE Seek(c)
      <3>1. PICK o \in OpType : /\ op' = [op EXCEPT ![c] = o] /\ InRange(o) /\ HasCursor
                                /\ o.got = <<>>
                                /\ cursor' = o.start \/ Available(o.content, cursor') = 0
        BY <1>0, <2>3, SeekCall
      <3>2. Follows(o)'
        BY <3>1, ChunkAssumption DEF Follows, InRange, OpType, Available, Length
      <3>. QED BY <1>0, <2>1, <2>2, <3>1, <3>2, FollowsOfStep
    <2>4. CASE ReadSome(c)
      <3>1. PICK o \in OpType : /\ op' = [op EXCEPT ![c] = o]
                                /\ cursor' = cursor \/ HasCursor
                                /\ Follows(op[c]) => Follows(o)'
        BY <1>0, <2>4, ReadCall
      <3>2. Follows(o)'
        BY <3>1 DEF IInv
      <3>. QED BY <1>0, <2>1, <2>2, <3>1, <3>2, FollowsOfStep
    <2>5. CASE ReadEnds(c) \/ GiveUp(c)
      <3>1. PICK o \in OpType : /\ op' = [op EXCEPT ![c] = o] /\ o.step = "ended"
                                /\ InRange(op[c]) => InRange(o)
        BY <1>0, <2>5, EndCall
      <3>2. cursor' = cursor
        BY <2>5 DEF ReadEnds, GiveUp
      <3>3. Follows(o)'
        BY <3>1 DEF Follows, InRange, IInv
      <3>. QED BY <1>0, <2>1, <2>2, <3>1, <3>2, <3>3, FollowsOfStep
    <2>. QED BY <1>6, <2>3, <2>4, <2>5 DEF Step
  <1>. QED
    BY <1>1, <1>2, <1>3, <1>4, <1>5, <1>6 DEF Next

\* What get_bytes returns is the range it was asked for, whole and of one version of the content, although
\* blocks move the cursor and other processes replace the file between calls.
THEOREM AnswersAreRight == Spec => []AnswersAreTheirRanges
  <1>1. Init => IInv
    BY ShapeInit DEF Init, IInv, Follows, InRange, NoCall
  <1>2. IInv /\ [Next]_vars => IInv'
    BY IInvStep
  <1>3. IInv => AnswersAreTheirRanges
    BY DEF IInv, Shape, Sound, Follows, AnswersAreTheirRanges
  <1>. QED
    BY <1>1, <1>2, <1>3, PTL DEF Spec
-----------------------------------------------------------------------------
(* Ranges.                                                                 *)

\* A RangeReader ends where its source did when it was opened.
Inside(o) ==
  o.call = "range" /\ o.start <= source.len =>
    o.end = source.len /\ o.start + Len(o.got) <= source.len

AllInside == \A c \in Clones : Inside(op[c])

LEMMA NoWrap ==
  ASSUME NEW n \in 0 .. U64 - 1
  PROVE  n % U64 = n
  BY ChunkAssumption

\* The end of a range is the length of its source, whatever wraps on the way.
LEMMA EndOfRange ==
  ASSUME NEW start \in Nat, source \in SourceType, start <= source.len
  PROVE  RangeEnd(start) = source.len
  <1>1. source.len \in 0 .. U64 - 1 /\ source.len - start \in 0 .. U64 - 1
    BY ChunkAssumption DEF SourceType
  <1>2. (source.len - start) % U64 = source.len - start
    BY <1>1, NoWrap
  <1>3. start + (source.len - start) = source.len
    BY <1>1
  <1>. QED BY <1>1, <1>2, <1>3, NoWrap DEF RangeEnd

\* A step that changes one call.
LEMMA InsideOfStep ==
  ASSUME Shape, AllInside, source' = source, NEW c \in Clones, NEW o,
         op' = [op EXCEPT ![c] = o], Inside(o)
  PROVE  AllInside'
  <1>1. \A d \in Clones : op'[d] = IF d = c THEN o ELSE op[d]
    BY DEF Shape
  <1>. QED BY <1>1 DEF AllInside, Inside

LEMMA BegunInside ==
  ASSUME Shape, NEW c \in Clones, NEW call \in {"bytes", "range", "buffered"},
         NEW start \in Starts, NEW length \in Nat,
         Begin(c, Asked(call, start, length))
  PROVE  \E o : op' = [op EXCEPT ![c] = o] /\ Inside(o)
  <1>. DEFINE a == Asked(call, start, length)
              end == IF call = "range" THEN RangeEnd(start) ELSE start + length
  <1>1. source # NoSource /\ source \in SourceType
        /\ (source.kind # "file" => source.content \in Contents)
    BY DEF Begin, MayBegin, Shape
  <1>2. start \in Nat /\ source.len \in Nat
    BY <1>1, ChunkAssumption DEF SourceType
  <1>3. call = "range" /\ start <= source.len => end = source.len
    BY <1>1, <1>2, EndOfRange
  <1>4. /\ a.call = call /\ a.start = start /\ a.end = end /\ a.got = <<>>
        /\ a.length = length
        /\ a \in OpType
    BY <1>1, NewCall DEF Asked
  <1>. HIDE DEF a, end
  <1>5. ASSUME NEW content, NEW step
        PROVE  /\ Inside([a EXCEPT !.content = content, !.step = step])
               /\ Inside(Ended(a, "error"))
    <2>. DEFINE o == [a EXCEPT !.content = content, !.step = step]
                e == Ended(a, "error")
    <2>1. /\ o.call = call /\ o.start = start /\ o.end = end /\ o.got = <<>>
          /\ e.call = call /\ e.start = start /\ e.end = end /\ e.got = <<>>
      BY <1>4 DEF OpType, Ended
    <2>. HIDE DEF o, e
    <2>2. Inside(o) /\ Inside(e)
      BY <1>2, <1>3, <2>1 DEF Inside
    <2>. QED BY <2>2 DEF o, e
  <1>6. CASE HasCursor /\ BeginOnCursor(c, a)
    BY <1>5, <1>6 DEF BeginOnCursor
  <1>7. CASE source.kind = "file" /\ BeginOnFile(c, a)
    BY <1>5, <1>7 DEF BeginOnFile
  <1>8. CASE source.kind = "bytes" /\ BeginOnBytes(c, a)
    <2>1. CASE start > source.len
      BY <1>4, <1>5, <1>8, <2>1 DEF BeginOnBytes
    <2>2. CASE ~(start > source.len)
      <3>. DEFINE n == (IF a.call = "range" THEN source.len
                        ELSE Lesser(start + length, source.len)) - start
                  got == Bytes(source.content, start, n)
                  o == Ended([a EXCEPT !.content = source.content, !.got = got], "ok")
      <3>1. op' = [op EXCEPT ![c] = o]
        BY <1>4, <1>8, <2>2 DEF BeginOnBytes
      <3>2. n \in Nat /\ (call = "range" => n = source.len - start)
        BY <1>2, <1>4, <2>2 DEF Lesser
      <3>. HIDE DEF n
      <3>3. Len(got) = n
        BY <1>1, <1>2, <1>8, <3>2, BytesOfContent
      <3>. HIDE DEF got
      <3>4. o.call = call /\ o.start = start /\ o.end = end /\ o.got = got
        BY <1>4 DEF OpType, Ended
      <3>. HIDE DEF o
      <3>5. Inside(o)
        BY <1>2, <1>3, <3>2, <3>3, <3>4 DEF Inside
      <3>. QED BY <3>1, <3>5
    <2>. QED BY <2>1, <2>2
  <1>. QED BY <1>6, <1>7, <1>8 DEF Begin, a

LEMMA ReadInside ==
  ASSUME Shape, AllInside, NEW c \in Clones, ReadSome(c)
  PROVE  \E o : op' = [op EXCEPT ![c] = o] /\ Inside(o)
  <1>. DEFINE p == op[c]
              at == Position(p)
              most == Lesser(Remaining(p), Available(p.content, at))
  <1>1. /\ p \in OpType /\ Sound(p) /\ p.step = "read" /\ p.content \in Contents
        /\ p.start \in Nat /\ Len(p.got) \in Nat
        /\ p.got \in Seq(Versions \X Nat) /\ p.pos \in Nat /\ Inside(p)
    BY ChunkAssumption DEF Shape, ReadSome, Sound, OpType, AllInside
  <1>2. at \in Nat /\ cursor \in Nat
    BY <1>1, ChunkAssumption DEF Position, Shape
  <1>3. Remaining(p) \in Nat
    <2>. HIDE DEF p
    <2>. QED BY <1>1, <1>2, Remains DEF Sound
  <1>4. Available(p.content, at) \in Nat
    BY <1>1, <1>2, AvailableBytes
  <1>5. PICK n \in 1 .. most :
          op' = [op EXCEPT ![c] = [p EXCEPT !.got = @ \o Bytes(p.content, at, n),
                                            !.pos = @ + n]]
    BY DEF ReadSome
  <1>6. n \in Nat /\ n <= Remaining(p)
    BY <1>3, <1>4, <1>5 DEF Lesser
  <1>. DEFINE more == Bytes(p.content, at, n)
              got == p.got \o more
              pos == p.pos + n
              o == [p EXCEPT !.got = got, !.pos = pos]
  <1>7. Len(got) = Len(p.got) + n
    <2>1. more \in Seq(Versions \X Nat) /\ Len(more) = n
      BY <1>1, <1>2, <1>6, BytesOfContent
    <2>. HIDE DEF p, more
    <2>. QED BY <1>1, <2>1, Appended
  <1>8. op' = [op EXCEPT ![c] = o]
    BY <1>1, <1>5 DEF OpType
  <1>9. /\ o.call = p.call /\ o.start = p.start /\ o.end = p.end
        /\ o.got = got
    <2>. HIDE DEF got, pos
    <2>. QED BY <1>1 DEF OpType
  <1>. HIDE DEF o, got, pos
  <1>10. Inside(o)
    <2>. SUFFICES ASSUME p.call = "range", p.start <= source.len
                  PROVE  o.end = source.len /\ o.start + Len(o.got) <= source.len
      BY <1>9 DEF Inside
    <2>1. source.len \in 0 .. U64 - 1
      <3>1. NoCall.step = "ended"
        BY DEF NoCall
      <3>2. source # NoSource
        BY <1>1, <3>1 DEF Shape
      <3>. QED BY <3>2 DEF Shape, SourceType
    <2>2. p.end = source.len /\ p.start + Len(p.got) <= source.len
      BY <1>1 DEF Inside
    <2>3. Remaining(p) = (source.len - (p.start + Len(p.got))) % U64
      BY <2>2 DEF Remaining
    <2>. DEFINE left == source.len - (p.start + Len(p.got))
    <2>4. left \in 0 .. U64 - 1
      <3>1. p.start + Len(p.got) \in Nat
        BY <1>1
      <3>. HIDE DEF p
      <3>. QED BY <2>1, <2>2, <3>1, ChunkAssumption
    <2>5. n <= left
      BY <1>6, <2>3, <2>4, NoWrap
    <2>. HIDE DEF p
    <2>. QED BY <1>1, <1>6, <1>7, <1>9, <2>1, <2>2, <2>5
  <1>. QED BY <1>8, <1>10

LEMMA InsideStep ==
  ASSUME Shape, AllInside, [Next]_vars
  PROVE  AllInside'
  <1>1. CASE UNCHANGED vars \/ Replace \/ MoveCursor
    <2>1. source' = source /\ op' = op
      BY <1>1 DEF vars, Replace, MoveCursor
    <2>. QED BY <2>1 DEF AllInside, Inside
  <1>2. CASE Open
    <2>1. op' = op /\ \A c \in Clones : op'[c] = NoCall
      BY <1>2, OpenKeepsShape DEF Shape, Open
    <2>2. NoCall.call = "none"
      BY DEF NoCall
    <2>. QED BY <2>1, <2>2 DEF AllInside, Inside
  <1>3. ASSUME NEW c \in Clones, GetBytes(c) \/ GetRead(c)
        PROVE  AllInside'
    <2>1. PICK call \in {"bytes", "range", "buffered"}, start \in Starts, length \in Nat :
            Begin(c, Asked(call, start, length))
      BY <1>3, ChunkAssumption DEF GetBytes, GetRead
    <2>2. source' = source
      BY <2>1 DEF Begin
    <2>3. \E o : op' = [op EXCEPT ![c] = o] /\ Inside(o)
      BY <2>1, BegunInside
    <2>. QED BY <2>2, <2>3, InsideOfStep
  <1>4. ASSUME NEW c \in Clones, Step(c) \/ GiveUp(c)
        PROVE  AllInside'
    <2>1. source' = source
      BY <1>4, RunningCall
    <2>2. CASE Seek(c) \/ ReadEnds(c) \/ GiveUp(c)
      <3>1. op[c] \in OpType /\ Inside(op[c])
        BY DEF Shape, AllInside
      <3>2. PICK step, result :
              \/ op' = [op EXCEPT ![c] = [op[c] EXCEPT !.step = step]]
              \/ op' = [op EXCEPT ![c] = Ended(op[c], result)]
        BY <2>2 DEF Seek, ReadEnds, GiveUp, Shape
      <3>. DEFINE o == [op[c] EXCEPT !.step = step]
                  e == Ended(op[c], result)
      <3>3. /\ o.call = op[c].call /\ o.start = op[c].start /\ o.end = op[c].end
            /\ o.got = op[c].got
            /\ e.call = op[c].call /\ e.start = op[c].start /\ e.end = op[c].end
            /\ e.got = op[c].got
        BY <3>1 DEF OpType, Ended
      <3>. HIDE DEF o, e
      <3>4. Inside(o) /\ Inside(e)
        BY <3>1, <3>3 DEF Inside
      <3>5. op' = [op EXCEPT ![c] = o] \/ op' = [op EXCEPT ![c] = e]
        BY <3>2 DEF o, e
      <3>. QED BY <2>1, <3>4, <3>5, InsideOfStep
    <2>3. CASE ReadSome(c)
      BY <2>1, <2>3, ReadInside, InsideOfStep
    <2>. QED BY <1>4, <2>2, <2>3 DEF Step
  <1>. QED
    BY <1>1, <1>2, <1>3, <1>4 DEF Next

\* What get_read delivers is the content from where it starts, in order; a RangeReader never delivers more than
\* its source had when it was opened, whatever arithmetic wraps on the way.
THEOREM RangesAreRight == Spec => []RangeReadersStayInside
  <1>1. Init => IInv /\ AllInside
    BY ShapeInit DEF Init, IInv, Follows, InRange, NoCall, AllInside, Inside
  <1>2. IInv /\ AllInside /\ [Next]_vars => IInv' /\ AllInside'
    BY IInvStep, InsideStep DEF IInv
  <1>3. IInv /\ AllInside => RangeReadersStayInside
    BY DEF IInv, Follows, AllInside, Inside, RangeReadersStayInside
  <1>. QED
    BY <1>1, <1>2, <1>3, PTL DEF Spec

-----------------------------------------------------------------------------
(* The arguments of reads, and the enumerator of a call without a block.   *)

\* The configurations that can be parsed: a budget is for :shared only.
Configs ==
  {c \in [mode : StringStorageMode, shared_max_entries : Nat \ {0},
          shared_max_value_bytes : Nat \ {0}] : c.mode # "shared" => DefaultBudget(c)}

LEMMA ConfigFacts ==
  ASSUME NEW value, NEW c \in parse_string_storage(value)
  PROVE  c \in Configs
  <1>1. \A m \in StringStorageMode : from_mode(m) \in Configs
    BY ArgumentsAssumption DEF from_mode, Configs, DefaultBudget
  <1>2. CASE value = None
    BY <1>1, <1>2 DEF parse_string_storage, DefaultConfig, StringStorageMode
  <1>3. CASE value # None /\ "hash" \in DOMAIN value
    <2>. DEFINE hash == value.hash
                entries == Got(hash, "max_entries")
                bytes == Got(hash, "max_value_bytes")
    <2>1. c \in parse_string_storage_hash(hash)
      BY <1>3 DEF parse_string_storage
    <2>2. PICK m \in parse_storage_mode(Got(hash, "mode")),
               e \in positive_usize(entries, DEFAULT_SHARED_MAX_ENTRIES),
               b \in positive_usize(bytes, DEFAULT_SHARED_MAX_VALUE_BYTES) :
            /\ c = [mode |-> m, shared_max_entries |-> e, shared_max_value_bytes |-> b]
            /\ m = "shared" \/ (entries = Nil /\ bytes = Nil)
      BY <2>1 DEF parse_string_storage_hash
    <2>. HIDE DEF hash, entries, bytes
    <2>3. m \in StringStorageMode /\ e \in Nat \ {0} /\ b \in Nat \ {0}
      BY ArgumentsAssumption DEF parse_storage_mode, positive_usize
    <2>4. m # "shared" => /\ e = DEFAULT_SHARED_MAX_ENTRIES
                          /\ b = DEFAULT_SHARED_MAX_VALUE_BYTES
      BY <2>2 DEF positive_usize
    <2>. QED BY <2>2, <2>3, <2>4 DEF Configs, DefaultBudget
  <1>4. CASE value # None /\ "hash" \notin DOMAIN value
    BY <1>1, <1>4 DEF parse_string_storage, parse_storage_mode
  <1>. QED BY <1>2, <1>3, <1>4

\* A hash with the mode and both limits is parsed to these.
LEMMA BudgetAgain ==
  ASSUME NEW e \in Nat \ {0}, NEW b \in Nat \ {0}, NEW h,
         DOMAIN h = {"symbol"} \X {"mode", "max_entries", "max_value_bytes"},
         h[<<"symbol", "mode">>] = "shared",
         h[<<"symbol", "max_entries">>] = e,
         h[<<"symbol", "max_value_bytes">>] = b
  PROVE  parse_string_storage_hash(h) =
           {[mode |-> "shared", shared_max_entries |-> e, shared_max_value_bytes |-> b]}
  <1>1. /\ Got(h, "mode") = "shared" /\ Got(h, "max_entries") = e
        /\ Got(h, "max_value_bytes") = b
    BY DEF Got
  <1>2. {k[2] : k \in DOMAIN h} \subseteq {"mode", "max_entries", "max_value_bytes"}
    OBVIOUS
  <1>3. /\ parse_storage_mode("shared") = {"shared"}
        /\ positive_usize(e, DEFAULT_SHARED_MAX_ENTRIES) = {e}
        /\ positive_usize(b, DEFAULT_SHARED_MAX_VALUE_BYTES) = {b}
    BY ArgumentsAssumption DEF parse_storage_mode, positive_usize, StringStorageMode
  <1>4. {mode \in parse_storage_mode(Got(h, "mode")) :
           /\ {k[2] : k \in DOMAIN h} \subseteq {"mode", "max_entries", "max_value_bytes"}
           /\ mode = "shared" \/ (Got(h, "max_entries") = Nil
                                    /\ Got(h, "max_value_bytes") = Nil)} = {"shared"}
    BY <1>1, <1>2, <1>3
  <1>. QED BY <1>1, <1>3, <1>4 DEF parse_string_storage_hash

\* What string_storage_kwarg writes is parsed to the configuration again.
LEMMA StorageAgain ==
  ASSUME NEW c \in Configs
  PROVE  /\ string_storage_kwarg(c) # Nil \/ string_storage_kwarg(c) = None
         /\ parse_string_storage(string_storage_kwarg(c)) = {c}
  <1>. DEFINE k == string_storage_kwarg(c)
  <1>1. /\ c.mode \in StringStorageMode
        /\ c.shared_max_entries \in Nat \ {0} /\ c.shared_max_value_bytes \in Nat \ {0}
        /\ c = [mode |-> c.mode, shared_max_entries |-> c.shared_max_entries,
                shared_max_value_bytes |-> c.shared_max_value_bytes]
    BY DEF Configs
  <1>2. CASE c = DefaultConfig
    <2>1. k = None
      BY <1>2 DEF string_storage_kwarg
    <2>. QED BY <1>2, <2>1 DEF parse_string_storage
  <1>3. CASE c # DefaultConfig /\ c.mode = "shared" /\ ~DefaultBudget(c)
    <2>. DEFINE budget == [mode |-> c.mode, max_entries |-> c.shared_max_entries,
                           max_value_bytes |-> c.shared_max_value_bytes]
                h == [x \in {"symbol"} \X DOMAIN budget |-> budget[x[2]]]
    <2>1. k = [hash |-> h]
      BY <1>3 DEF string_storage_kwarg
    <2>2. /\ DOMAIN h = {"symbol"} \X {"mode", "max_entries", "max_value_bytes"}
          /\ h[<<"symbol", "mode">>] = "shared"
          /\ h[<<"symbol", "max_entries">>] = c.shared_max_entries
          /\ h[<<"symbol", "max_value_bytes">>] = c.shared_max_value_bytes
      BY <1>3
    <2>3. h \in [{"symbol"} \X {"mode", "max_entries", "max_value_bytes"}
                   -> StringStorageMode \cup Nat]
      BY <1>1
    <2>. HIDE DEF h
    <2>4. k # None /\ k # Nil
      BY <2>1, <2>3, ArgumentsAssumption
    <2>5. parse_string_storage_hash(h) =
            {[mode |-> "shared", shared_max_entries |-> c.shared_max_entries,
              shared_max_value_bytes |-> c.shared_max_value_bytes]}
      BY <1>1, <2>2, BudgetAgain
    <2>6. parse_string_storage(k) = parse_string_storage_hash(h)
      BY <2>1, <2>4 DEF parse_string_storage
    <2>. QED BY <1>1, <1>3, <2>4, <2>5, <2>6
  <1>4. CASE c # DefaultConfig /\ ~(c.mode = "shared" /\ ~DefaultBudget(c))
    <2>1. k = [name |-> c.mode] /\ DefaultBudget(c)
      BY <1>4 DEF string_storage_kwarg, Configs
    <2>2. k # None /\ k # Nil /\ "hash" \notin DOMAIN k /\ k.name = c.mode
      BY <1>1, <2>1, ArgumentsAssumption
    <2>3. parse_string_storage(k) = {from_mode(c.mode)}
      BY <1>1, <2>2 DEF parse_string_storage, parse_storage_mode
    <2>4. from_mode(c.mode) = c
      BY <1>1, <2>1 DEF from_mode, DefaultBudget
    <2>. QED BY <2>2, <2>3, <2>4
  <1>. QED BY <1>2, <1>3, <1>4

\* An option that is given again is parsed to itself; one left out, if that is what it
\* was, is left out.
LEMMA OptionAgain ==
  ASSUME NEW options, NEW key \in DOMAIN options,
         options[key] # Nil \/ options[key] = None
  PROVE  Option(Given(options), key) = options[key]
  BY DEF Option, Given

\* A parsed option is not nil, unless that is how one left out is written.
LEMMA Parsed ==
  ASSUME NEW kwargs, NEW key
  PROVE  Option(kwargs, key) # Nil \/ Option(kwargs, key) = None
  BY DEF Option

\* Keyword arguments that name one result type and one storage are parsed one way.
LEMMA OneParse ==
  ASSUME NEW method, NEW kwargs, NEW r \in {"hash", "array"}, NEW s,
         DOMAIN kwargs \subseteq Keywords(method),
         OrElse(Option(kwargs, "result_type"), "hash") = r,
         Option(kwargs, "batch_size") # 0,
         parse_string_storage(Option(kwargs, "string_storage")) = {s}
  PROVE  parse_read_args(method, kwargs) =
           {[result_type |-> r, columns |-> Option(kwargs, "columns"),
             batch_size |-> Option(kwargs, "batch_size"),
             strict |-> Strict(kwargs),
             string_storage |-> s, logger |-> Option(kwargs, "logger")]}
  <1>1. {type \in {"hash", "array"} :
           /\ DOMAIN kwargs \subseteq Keywords(method)
           /\ type = OrElse(Option(kwargs, "result_type"), "hash")
           /\ Option(kwargs, "batch_size") # 0} = {r}
    OBVIOUS
  <1>. QED BY <1>1 DEF parse_read_args

\* Parsing what an enumerator has written.
LEMMA ParsedAgain ==
  ASSUME NEW method, NEW kwargs, NEW parsed \in parse_read_args(method, kwargs),
         NEW options,
         DOMAIN options = Keywords(method),
         options.result_type = parsed.result_type,
         options.columns = parsed.columns,
         method = "each_column" => options.batch_size = parsed.batch_size,
         options.strict \in {TRUE, None},
         options.string_storage = string_storage_kwarg(parsed.string_storage),
         options.logger = parsed.logger
  PROVE  parse_read_args(method, Given(options)) = {[parsed EXCEPT !.strict = TRUE]}
  <1>. DEFINE again == Given(options)
  <1>1. /\ parsed.result_type \in {"hash", "array"}
        /\ DOMAIN kwargs \subseteq Keywords(method)
        /\ parsed.columns = Option(kwargs, "columns")
        /\ parsed.batch_size = Option(kwargs, "batch_size") /\ parsed.batch_size # 0
        /\ parsed.string_storage \in parse_string_storage(Option(kwargs, "string_storage"))
        /\ parsed.logger = Option(kwargs, "logger")
        /\ parsed = [result_type |-> parsed.result_type, columns |-> parsed.columns,
                     batch_size |-> parsed.batch_size, strict |-> parsed.strict,
                     string_storage |-> parsed.string_storage, logger |-> parsed.logger]
    <2>1. PICK type \in {r \in {"hash", "array"} :
                            /\ DOMAIN kwargs \subseteq Keywords(method)
                            /\ r = OrElse(Option(kwargs, "result_type"), "hash")
                            /\ Option(kwargs, "batch_size") # 0},
               storage \in parse_string_storage(Option(kwargs, "string_storage")) :
            parsed = [result_type |-> type, columns |-> Option(kwargs, "columns"),
                    batch_size |-> Option(kwargs, "batch_size"),
                    strict |-> Strict(kwargs),
                    string_storage |-> storage, logger |-> Option(kwargs, "logger")]
      BY DEF parse_read_args
    <2>. QED BY <2>1
  <1>2. Option(again, "columns") = parsed.columns /\ Option(again, "logger") = parsed.logger
    BY <1>1, Parsed, OptionAgain DEF Keywords
  <1>3. Option(again, "batch_size") = parsed.batch_size
    <2>1. CASE method = "each_column"
      BY <1>1, <2>1, Parsed, OptionAgain DEF Keywords
    <2>2. CASE method # "each_column"
      <3>1. "batch_size" \notin Keywords(method)
        BY <2>2 DEF Keywords
      <3>. QED BY <1>1, <3>1 DEF Option, Given
    <2>. QED BY <2>1, <2>2
  <1>4. /\ Option(again, "string_storage") = string_storage_kwarg(parsed.string_storage)
        /\ parse_string_storage(Option(again, "string_storage")) = {parsed.string_storage}
    <2>1. parsed.string_storage \in Configs
      BY <1>1, ConfigFacts
    <2>. QED BY <2>1, StorageAgain, OptionAgain DEF Keywords
  <1>5. OrElse(Option(again, "result_type"), "hash") = parsed.result_type
    BY <1>1, OptionAgain, ArgumentsAssumption DEF Keywords, OrElse
  <1>6. Strict(again) = TRUE
    <2>1. options.strict # Nil \/ options.strict = None
      BY ArgumentsAssumption
    <2>. QED BY <2>1, OptionAgain DEF Keywords, OrElse, Strict
  <1>7. DOMAIN again \subseteq Keywords(method)
    BY DEF Given
  <1>. HIDE DEF again
  <1>8. parse_read_args(method, again) =
          {[result_type |-> parsed.result_type, columns |-> parsed.columns,
            batch_size |-> parsed.batch_size, strict |-> TRUE,
            string_storage |-> parsed.string_storage, logger |-> parsed.logger]}
    <2>1. parse_read_args(method, again) =
            {[result_type |-> parsed.result_type, columns |-> Option(again, "columns"),
              batch_size |-> Option(again, "batch_size"), strict |-> Strict(again),
              string_storage |-> parsed.string_storage, logger |-> Option(again, "logger")]}
      BY <1>1, <1>3, <1>4, <1>5, <1>7, OneParse
    <2>. QED BY <1>2, <1>3, <1>6, <2>1
  <1>. QED BY <1>1, <1>8 DEF again

\* An enumerator repeats the call it was made by: whatever keyword arguments
\* each_row or each_column accepts, those that create_row_enumerator and
\* create_column_enumerator rebuild are accepted too and parsed to the same, except
\* that strict: false is forgotten.
THEOREM EnumeratorsRepeatCalls ==
  ASSUME NEW method \in {"each_row", "each_column"}, NEW kwargs,
         NEW parsed \in parse_read_args(method, kwargs)
  PROVE  parse_read_args(method, create_enumerator(method, parsed)) =
           {[parsed EXCEPT !.strict = TRUE]}
  <1>. DEFINE strict == IF parsed.strict THEN TRUE ELSE None
  <1>1. strict \in {TRUE, None}
    OBVIOUS
  <1>2. CASE method = "each_row"
    <2>. DEFINE options == [result_type |-> parsed.result_type, columns |-> parsed.columns,
                            strict |-> strict,
                            string_storage |-> string_storage_kwarg(parsed.string_storage),
                            logger |-> parsed.logger]
    <2>1. create_enumerator(method, parsed) = Given(options)
      BY <1>2 DEF create_enumerator, create_row_enumerator
    <2>2. DOMAIN options = Keywords(method)
      BY <1>2 DEF Keywords
    <2>3. /\ options.result_type = parsed.result_type /\ options.columns = parsed.columns
          /\ method = "each_column" => options.batch_size = parsed.batch_size
          /\ options.strict \in {TRUE, None}
          /\ options.string_storage = string_storage_kwarg(parsed.string_storage)
          /\ options.logger = parsed.logger
      BY <1>1, <1>2
    <2>. HIDE DEF options
    <2>. QED BY <2>1, <2>2, <2>3, ParsedAgain
  <1>3. CASE method = "each_column"
    <2>. DEFINE options == [result_type |-> parsed.result_type, columns |-> parsed.columns,
                            batch_size |-> parsed.batch_size, strict |-> strict,
                            string_storage |-> string_storage_kwarg(parsed.string_storage),
                            logger |-> parsed.logger]
    <2>1. create_enumerator(method, parsed) = Given(options)
      BY <1>3 DEF create_enumerator, create_column_enumerator
    <2>2. DOMAIN options = Keywords(method)
      BY <1>3 DEF Keywords
    <2>3. /\ options.result_type = parsed.result_type /\ options.columns = parsed.columns
          /\ method = "each_column" => options.batch_size = parsed.batch_size
          /\ options.strict \in {TRUE, None}
          /\ options.string_storage = string_storage_kwarg(parsed.string_storage)
          /\ options.logger = parsed.logger
      BY <1>1, <1>3
    <2>. HIDE DEF options
    <2>. QED BY <2>1, <2>2, <2>3, ParsedAgain
  <1>. QED BY <1>2, <1>3

-----------------------------------------------------------------------------
(* Sessions.                                                               *)

\* What an enumerator holds, and what a read goes by, was parsed from the call.
CallIsKept ==
  LET parses == parse_read_args(session.method, session.kwargs)
  IN  /\ session.method \in {"each_row", "each_column"}
      /\ stage # "repeat refused"
      /\ stage = "enumerator" => args \in parses
      /\ stage = "reading" =>
           \E parsed \in parses : [args EXCEPT !.strict = parsed.strict] = parsed

\* To put a field of what was parsed back is to change nothing, or to undo a change.
LEMMA StrictRestored ==
  ASSUME NEW method, NEW kwargs, NEW parsed \in parse_read_args(method, kwargs)
  PROVE  /\ [parsed EXCEPT !.strict = parsed.strict] = parsed
         /\ [[parsed EXCEPT !.strict = TRUE] EXCEPT !.strict = parsed.strict] = parsed
  <1>1. PICK r, c, b, s, t, l :
          parsed = [result_type |-> r, columns |-> c, batch_size |-> b, strict |-> s,
                    string_storage |-> t, logger |-> l]
    BY DEF parse_read_args
  <1>. QED BY <1>1

LEMMA CallIsKeptAtFirst == NewSession => CallIsKept
  BY SessionAssumption DEF NewSession, CallIsKept

LEMMA CallIsKeptByStep ==
  ASSUME CallIsKept, [SessionStep]_session_vars
  PROVE  CallIsKept'
  <1>1. CASE ParseSchema
    BY <1>1 DEF ParseSchema, CallIsKept
  <1>2. CASE ConvertCell
    <2>1. UNCHANGED <<session, args>> /\ stage' \in {stage, "row refused"}
      BY <1>2 DEF ConvertCell
    <2>. QED BY <2>1 DEF CallIsKept
  <1>3. CASE WriteRow
    BY <1>3 DEF WriteRow, CallIsKept
  <1>4. CASE Call
    <2>1. session' = session /\ session.method \in {"each_row", "each_column"}
      BY <1>4 DEF Call, CallIsKept
    <2>2. CASE stage' = "read refused"
      BY <2>1, <2>2 DEF CallIsKept
    <2>3. CASE stage' # "read refused"
      <3>1. /\ stage' \in {"reading", "enumerator"}
            /\ args' \in parse_read_args(session.method, session.kwargs)
        BY <1>4, <2>3 DEF Call
      <3>2. [args' EXCEPT !.strict = args'.strict] = args'
        BY <3>1, StrictRestored
      <3>. QED BY <2>1, <3>1, <3>2 DEF CallIsKept
    <2>. QED BY <2>2, <2>3
  <1>5. CASE Each
    <2>1. /\ session' = session /\ session.method \in {"each_row", "each_column"}
          /\ args \in parse_read_args(session.method, session.kwargs)
      BY <1>5 DEF Each, CallIsKept
    <2>2. parse_read_args(session.method, create_enumerator(session.method, args)) =
            {[args EXCEPT !.strict = TRUE]}
      BY <2>1, EnumeratorsRepeatCalls
    <2>3. stage' = "reading" /\ args' = [args EXCEPT !.strict = TRUE]
      BY <1>5, <2>2 DEF Each
    <2>4. [args' EXCEPT !.strict = args.strict] = args
      BY <2>1, <2>3, StrictRestored
    <2>. QED BY <2>1, <2>3, <2>4 DEF CallIsKept
  <1>6. CASE ReadValue
    BY <1>6 DEF ReadValue, CallIsKept
  <1>7. CASE UNCHANGED session_vars
    BY <1>7 DEF session_vars, CallIsKept
  <1>. QED
    BY <1>1, <1>2, <1>3, <1>4, <1>5, <1>6, <1>7 DEF SessionStep

\* Whatever a session is about, and whatever its schema, its cells and its values
\* become: a read through an enumerator is never refused, and goes by what the call
\* that made the enumerator was given, as create_row_enumerator and
\* create_column_enumerator rebuild it.
THEOREM EnumeratorsReadTheSame == SessionSpec => []EnumeratorRepeatsTheCall
  <1>1. NewSession => CallIsKept
    BY CallIsKeptAtFirst
  <1>2. CallIsKept /\ [SessionStep]_session_vars => CallIsKept'
    BY CallIsKeptByStep
  <1>3. CallIsKept => EnumeratorRepeatsTheCall
    BY DEF CallIsKept, EnumeratorRepeatsTheCall
  <1>. QED
    BY <1>1, <1>2, <1>3, PTL DEF SessionSpec

-----------------------------------------------------------------------------
(* Times.                                                                  *)

\* Division and remainder are the only ones with a remainder below the divisor.
LEMMA DivisionIsUnique ==
  ASSUME NEW a \in Int, NEW b \in Nat \ {0}, NEW q \in Int, NEW r \in 0 .. b - 1,
         a = q * b + r
  PROVE  a \div b = q /\ a % b = r
  <1>1. \A x \in Int : \A y \in Int : x + 1 <= y => x * b + b <= y * b
    OBVIOUS
  <1>2. /\ a \div b \in Int /\ a % b \in 0 .. b - 1
        /\ a = (a \div b) * b + (a % b)
    OBVIOUS
  <1>. DEFINE p == a \div b
              s == a % b
  <1>3. p * b \in Int /\ q * b \in Int
    OBVIOUS
  <1>. HIDE DEF p, s
  <1>4. p \in Int /\ s \in 0 .. b - 1 /\ p * b + s = q * b + r
    BY <1>2 DEF p, s
  <1>5. ~(p + 1 <= q) /\ ~(q + 1 <= p)
    BY <1>1, <1>3, <1>4
  <1>6. p = q
    BY <1>4, <1>5
  <1>7. s = r
    BY <1>3, <1>4, <1>6
  <1>. QED BY <1>6, <1>7 DEF p, s

\* A sum of whole multiples and a rest below the multiple.
LEMMA BelowTheNext ==
  ASSUME NEW b \in Nat \ {0}, NEW n \in Nat, NEW q \in 0 .. n - 1, NEW r \in 0 .. b - 1
  PROVE  q * b + r \in 0 .. n * b - 1
  <1>1. \A x \in Nat : \A y \in Nat : x + 1 <= y => x * b + b <= y * b
    OBVIOUS
  <1>2. q \in Nat /\ q + 1 <= n
    OBVIOUS
  <1>3. q * b + b <= n * b
    BY <1>1, <1>2
  <1>4. q * b \in Nat /\ n * b \in Nat
    BY <1>2
  <1>. QED BY <1>3, <1>4

\* A second is so many units of so many nanoseconds.
LEMMA UnitsOfASecond ==
  ASSUME NEW unit \in DOMAIN Per
  PROVE  /\ Nanos \in Nat \ {0}
         /\ Per[unit] \in Nat \ {0} /\ Tick(unit) \in Nat \ {0}
         /\ Per[unit] * Tick(unit) = Nanos
         /\ Nanos \div Per[unit] = Tick(unit)
  <1>1. K \in Nat \ {0} /\ K * K \in Nat \ {0}
    BY TimesAssumption
  <1>2. /\ K * K * K \in Nat \ {0}
        /\ K * K * K = (K * K) * K /\ K * K * K = K * (K * K)
    BY <1>1
  <1>. DEFINE S == [s |-> Nanos, ms |-> K * K, us |-> K, ns |-> 1]
  <1>3. /\ Per[unit] \in Nat \ {0} /\ S[unit] \in Nat \ {0}
        /\ S[unit] * Per[unit] = Nanos /\ Per[unit] * S[unit] = Nanos
    BY <1>1, <1>2 DEF Per, Nanos
  <1>4. Nanos \in Nat \ {0}
    BY <1>2 DEF Nanos
  <1>. HIDE DEF S
  <1>5. S[unit] \in Int /\ 0 \in 0 .. Per[unit] - 1 /\ Nanos = S[unit] * Per[unit] + 0
    BY <1>3, <1>4
  <1>6. Nanos \div Per[unit] = S[unit]
    BY <1>3, <1>4, <1>5, DivisionIsUnique
  <1>. QED BY <1>3, <1>4, <1>6 DEF Tick

\* An instant in whole ticks: those of its seconds and those of the rest.
LEMMA TicksOfAnInstant ==
  ASSUME NEW unit \in DOMAIN Per, NEW secs \in Int, NEW nsec \in 0 .. Nanos - 1
  PROVE  /\ nsec \div Tick(unit) \in 0 .. Per[unit] - 1
         /\ (secs * Nanos + nsec) \div Tick(unit)
              = secs * Per[unit] + nsec \div Tick(unit)
  <1>. DEFINE P == Per[unit]
              S == Tick(unit)
              q == nsec \div S
              r == nsec % S
  <1>1. P \in Nat \ {0} /\ S \in Nat \ {0} /\ P * S = Nanos /\ Nanos \in Nat \ {0}
    BY UnitsOfASecond
  <1>2. nsec \in Nat
    BY <1>1
  <1>. HIDE DEF P, S
  <1>3. q \in Nat /\ r \in 0 .. S - 1 /\ nsec = q * S + r
    BY <1>1, <1>2
  <1>. HIDE DEF q, r
  <1>4. q \in 0 .. P - 1
    <2>1. \A x \in Nat : \A y \in Nat : x <= y => x * S <= y * S
      BY <1>1
    <2>2. P <= q => P * S <= q * S
      BY <1>1, <1>3, <2>1
    <2>3. q * S \in Nat
      BY <1>1, <1>3
    <2>4. ~(P <= q)
      BY <1>1, <1>2, <1>3, <2>2, <2>3
    <2>. QED BY <1>1, <1>3, <2>4
  <1>5. secs * Nanos + nsec = (secs * P + q) * S + r
    <2>1. (secs * P + q) * S = secs * (P * S) + q * S
      BY <1>1, <1>3
    <2>2. q * S \in Int /\ secs * Nanos \in Int
      BY <1>1, <1>3
    <2>. QED BY <1>1, <1>3, <2>1, <2>2
  <1>6. secs * P + q \in Int /\ secs * Nanos + nsec \in Int
    BY <1>1, <1>2, <1>3
  <1>7. (secs * Nanos + nsec) \div S = secs * P + q
    BY <1>1, <1>3, <1>5, <1>6, DivisionIsUnique
  <1>. QED BY <1>4, <1>7 DEF P, S, q

\* What a two's complement integer can hold does not wrap.
LEMMA NoWrapOf ==
  ASSUME NEW half \in Nat \ {0}, NEW n \in Int, Representable(n, half)
  PROVE  Signed(n, half) = n
  <1>1. /\ 2 * half \in Nat \ {0}
        /\ n + half \in 0 .. 2 * half - 1
        /\ n + half \in Int /\ n + half = 0 * (2 * half) + (n + half)
    BY DEF Representable
  <1>2. (n + half) % (2 * half) = n + half
    BY <1>1, DivisionIsUnique
  <1>. QED BY <1>1, <1>2 DEF Signed

\* Seconds and a part of one, of either sign, are together all the ticks there are.
LEMMA TicksAgain ==
  ASSUME NEW unit \in DOMAIN Per, NEW v \in Int
  PROVE  read_timestamp(v, unit) = v * Tick(unit)
  <1>. DEFINE P == Per[unit]
              S == Tick(unit)
              q == Quotient(v, P)
  <1>1. P \in Nat \ {0} /\ S \in Nat \ {0} /\ P * S = Nanos
        /\ Nanos \div P = S
    BY UnitsOfASecond
  <1>. HIDE DEF P, S
  <1>2. q \in Int
    BY <1>1 DEF Quotient, Abs
  <1>3. read_timestamp(v, unit) = q * (P * S) + (v - P * q) * S
    BY <1>1 DEF read_timestamp, Remainder, P
  <1>. HIDE DEF q
  <1>4. q * (P * S) + (v - P * q) * S = v * S
    BY <1>1, <1>2
  <1>. QED BY <1>3, <1>4 DEF S

\* A Time as its nanosecond.
Instant(t) == t.secs * Nanos + t.nsec

Times == {t \in [secs : Int, nsec : Nat] : t.nsec < Nanos}

LEMMA TimeParts ==
  ASSUME NEW t \in Times
  PROVE  t.secs \in Int /\ t.nsec \in 0 .. Nanos - 1
  <1>1. Nanos \in Nat \ {0}
    BY UnitsOfASecond DEF Per
  <1>. QED BY <1>1 DEF Times

\* A Time that can be counted in the unit of its timestamp column comes back as the
\* same instant up to that unit, before 1970 too: timestamp_of and read_timestamp
\* round the same way.
THEOREM TimestampsComeBack ==
  ASSUME NEW t \in Times, NEW unit \in DOMAIN Per,
         Representable(Instant(t) \div Tick(unit), TimeHalf)
  PROVE  read_timestamp(timestamp_of(t, unit), unit) = Floor(Instant(t), Tick(unit))
  <1>. DEFINE v == t.secs * Per[unit] + t.nsec \div Tick(unit)
  <1>1. t.secs \in Int /\ t.nsec \in 0 .. Nanos - 1
    BY TimeParts
  <1>2. /\ Per[unit] \in Nat \ {0} /\ Tick(unit) \in Nat \ {0}
        /\ Nanos \div Per[unit] = Tick(unit)
    BY UnitsOfASecond
  <1>3. /\ t.nsec \div Tick(unit) \in 0 .. Per[unit] - 1
        /\ Instant(t) \div Tick(unit) = v
    BY <1>1, TicksOfAnInstant DEF Instant
  <1>4. v \in Int
    BY <1>1, <1>2, <1>3
  <1>5. timestamp_of(t, unit) = Signed(v, TimeHalf)
    BY <1>2 DEF timestamp_of
  <1>. HIDE DEF v
  <1>6. timestamp_of(t, unit) = v
    BY <1>3, <1>4, <1>5, NoWrapOf, TimesAssumption
  <1>. QED BY <1>3, <1>4, <1>6, TicksAgain DEF Floor

\* A Time in a time column comes back as the time of day that it was in its own
\* zone, up to the unit of the column.
THEOREM TimesOfDayComeBack ==
  ASSUME NEW t \in Times, NEW unit \in DOMAIN Per, NEW zone \in Int
  PROVE  read_time(time_of_day(t, zone, unit), unit) =
           Floor((Instant(t) + zone * Nanos) % (Day * Nanos), Tick(unit))
  <1>. DEFINE P == Per[unit]
              S == Tick(unit)
              q == t.nsec \div S
              s == t.secs + zone
              d == s % Day
              e == s \div Day
              v == d * P + q
              m == d * Nanos + t.nsec
  <1>1. t.secs \in Int /\ t.nsec \in 0 .. Nanos - 1 /\ Day \in Nat \ {0} /\ s \in Int
    BY TimeParts, TimesAssumption
  <1>2. /\ P \in Nat \ {0} /\ S \in Nat \ {0} /\ Nanos \in Nat \ {0}
        /\ Nanos \div P = S
    BY UnitsOfASecond
  <1>3. d \in 0 .. Day - 1 /\ e \in Int /\ s = e * Day + d
    <2>. HIDE DEF s
    <2>. QED BY <1>1
  <1>4. q \in 0 .. P - 1 /\ m \div S = v
    <2>1. d \in Int
      BY <1>3
    <2>. HIDE DEF d
    <2>. QED BY <1>1, <2>1, TicksOfAnInstant
  <1>5. time_of_day(t, zone, unit) = v
    BY <1>2 DEF time_of_day
  <1>6. Day * P \in Nat \ {0} /\ Day * Nanos \in Nat \ {0}
    BY <1>1, <1>2
  <1>. HIDE DEF P, S, q, d, e
  <1>7. v \in 0 .. Day * P - 1 /\ m \in 0 .. Day * Nanos - 1
    BY <1>1, <1>2, <1>3, <1>4, BelowTheNext
  <1>8. read_time(v, unit) = v * S
    <2>. HIDE DEF v
    <2>1. v \in Int /\ 0 \in Int /\ v = 0 * (Day * P) + v
      BY <1>6, <1>7
    <2>2. v % (Day * P) = v
      BY <1>6, <1>7, <2>1, DivisionIsUnique
    <2>. QED BY <1>2, <2>2 DEF read_time, P
  <1>9. (Instant(t) + zone * Nanos) % (Day * Nanos) = m
    <2>1. Instant(t) + zone * Nanos = s * Nanos + t.nsec
      <3>1. PICK a \in Int, b \in Int, n \in Int :
              a = t.secs /\ b = zone /\ n = Nanos
        BY <1>1, <1>2
      <3>2. (a + b) * n = a * n + b * n /\ a * n \in Int /\ b * n \in Int
        OBVIOUS
      <3>. QED BY <1>1, <3>1, <3>2 DEF Instant
    <2>. HIDE DEF s
    <2>2. s * Nanos = e * (Day * Nanos) + d * Nanos
      <3>1. (e * Day + d) * Nanos = e * (Day * Nanos) + d * Nanos
        BY <1>1, <1>2, <1>3
      <3>. QED BY <1>3, <3>1
    <2>3. e * (Day * Nanos) \in Int /\ d * Nanos \in Int /\ t.nsec \in Int
      BY <1>1, <1>2, <1>3, <1>6
    <2>. DEFINE a == Instant(t) + zone * Nanos
    <2>4. a = e * (Day * Nanos) + m /\ a \in Int
      BY <2>1, <2>2, <2>3
    <2>. HIDE DEF a, m
    <2>5. a % (Day * Nanos) = m
      BY <1>3, <1>6, <1>7, <2>4, DivisionIsUnique
    <2>. QED BY <2>5 DEF a
  <1>. HIDE DEF v, m
  <1>. QED BY <1>4, <1>5, <1>8, <1>9 DEF Floor, S

\* A Time comes back from a date column as its day in UTC, if that is not before
\* 1970 and the day is an i32, and from a date64 column as its second, if its
\* milliseconds are an i64.
THEOREM DatesComeBack ==
  ASSUME NEW secs \in Int
  PROVE  /\ secs >= 0 /\ Representable(secs \div Day, DayHalf) =>
              date32_of(secs) = secs \div Day
         /\ Representable(secs * K, TimeHalf) => read_date64(date64_of(secs)) = secs * Nanos
  <1>1. K \in Nat \ {0} /\ Day \in Nat \ {0}
    BY TimesAssumption
  <1>2. ASSUME secs >= 0, Representable(secs \div Day, DayHalf)
        PROVE  date32_of(secs) = secs \div Day
    <2>1. Quotient(secs, Day) = secs \div Day /\ secs \div Day \in Int
      BY <1>1, <1>2 DEF Quotient, Abs
    <2>2. DayHalf \in Nat \ {0}
      BY TimesAssumption
    <2>. QED BY <1>2, <2>1, <2>2, NoWrapOf DEF date32_of
  <1>3. ASSUME Representable(secs * K, TimeHalf)
        PROVE  read_date64(date64_of(secs)) = secs * Nanos
    <2>. DEFINE v == secs * K
    <2>1. v \in Int
      BY <1>1
    <2>2. date64_of(secs) = v
      BY <1>3, <2>1, NoWrapOf, TimesAssumption DEF date64_of
    <2>3. Quotient(v, K) = secs
      <3>1. CASE secs < 0
        <4>1. -secs \in Int /\ 0 \in 0 .. K - 1 /\ (-secs) * K \in Int /\ (-secs) * K = -v
              /\ (-secs) * K = (-secs) * K + 0 /\ v < 0
          BY <1>1, <3>1
        <4>2. (-v) \div K = -secs
          BY <1>1, <4>1, DivisionIsUnique
        <4>. HIDE DEF v
        <4>. QED BY <1>1, <2>1, <4>1, <4>2 DEF Quotient, Abs
      <3>2. CASE secs >= 0
        <4>1. 0 \in 0 .. K - 1 /\ v = secs * K + 0 /\ v >= 0
          BY <1>1, <3>2
        <4>2. v \div K = secs
          BY <1>1, <2>1, <4>1, DivisionIsUnique
        <4>. HIDE DEF v
        <4>. QED BY <1>1, <2>1, <4>1, <4>2 DEF Quotient, Abs
      <3>. QED BY <3>1, <3>2
    <2>4. Remainder(v, K) = 0
      <3>1. v - K * secs = 0
        BY <1>1
      <3>. QED BY <2>3, <3>1 DEF Remainder
    <2>. HIDE DEF v
    <2>5. read_date64(v) = secs * Nanos
      <3>1. 0 * K * K * K = 0 /\ secs * Nanos \in Int
        BY <1>1 DEF Nanos
      <3>. QED BY <2>3, <2>4, <3>1 DEF read_date64
    <2>. QED BY <2>2, <2>5
  <1>. QED BY <1>2, <1>3
=============================================================================
