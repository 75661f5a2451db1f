---------------------------- MODULE ChunkReader ----------------------------
(***************************************************************************)
(* Where the bytes of a read come from: a path that is opened for every    *)
(* call, a Ruby IO whose cursor all clones share, a temporary copy of an   *)
(* IO that cannot seek, whose cursor they share too, or bytes in memory.   *)
(* Metadata is read from such an IO, or from anything else's string, by a  *)
(* reader of its own, without the ranges of the others.                    *)
(*                                                                         *)
(* A byte is known by the version of the content it is from and its offset *)
(* there.  Positions are u64 and wrap, as a release build does.            *)
(***************************************************************************)
EXTENDS Integers, Sequences

CONSTANTS
  Clones,    \* clones of one CloneableChunkReader
  Versions,  \* contents of the path or the IO
  Size,      \* [Versions -> Nat]
  Starts,    \* where calls start; the Parquet reader takes it from the file
  Lengths,   \* how much they ask for
  U64,       \* 2^64
  NoFile,    \* there is no file at the path
  NoSource   \* the reader was not made yet

ASSUME ChunkAssumption ==
  /\ NoFile \notin Versions
  /\ U64 \in Nat \ {0}
  /\ Size \in [Versions -> Nat]
  /\ Starts \subseteq Nat /\ Lengths \subseteq Nat
  /\ \A v \in Versions : Size[v] < U64
  /\ \A s \in Starts : s < U64

VARIABLES
  disk,    \* the version at the path, or NoFile
  source,  \* [kind, direct, content, len]: the reader that clones are made of;
           \* direct is a ThreadSafeRubyIOReader as it is
  cursor,  \* of the shared IO
  op       \* per clone its call, in progress or ended

vars == <<disk, source, cursor, op>>

-----------------------------------------------------------------------------
(* Contents.                                                               *)

Lesser(m, n) == IF m < n THEN m ELSE n

\* A content is a version from some offset on: a copied IO lacks what had been
\* read of it.
Whole(v) == [version |-> v, base |-> 0]
Length(content) == Size[content.version] - content.base
Byte(content, pos) == <<content.version, content.base + pos>>
Bytes(content, pos, n) == [i \in 1 .. n |-> Byte(content, pos + i - 1)]
Available(content, pos) == IF pos < Length(content) THEN Length(content) - pos ELSE 0

-----------------------------------------------------------------------------
(* Sources.                                                                *)

Kinds == {"file", "io", "proxy", "string", "bytes"}
HasCursor == source.kind \in {"io", "proxy", "string"}

NoCall == [call |-> "none", step |-> "ended", start |-> 0, length |-> 0, end |-> 0,
           content |-> NoFile, pos |-> 0, got |-> <<>>, result |-> "none"]

Init ==
  /\ disk \in Versions \union {NoFile}
  /\ source = NoSource
  /\ cursor \in UNION {0 .. Size[v] : v \in Versions}
  /\ op = [c \in Clones |-> NoCall]

\* FileChunkReader::new keeps the path and the length the file has now.
OpenPath ==
  /\ disk # NoFile
  /\ source' = [kind |-> "file", direct |-> FALSE, content |-> NoFile, len |-> Size[disk]]
  /\ UNCHANGED <<disk, cursor, op>>

\* from_ruby_io: the length is where the end is, and the cursor goes back to
\* the start.
OpenSeekable(v) ==
  /\ source' = [kind |-> "io", direct |-> FALSE, content |-> Whole(v), len |-> Size[v]]
  /\ cursor' = 0
  /\ UNCHANGED <<disk, op>>

\* RubyIOReader::new copies an IO that cannot seek from where it stands.
OpenPlain(v) ==
  /\ cursor <= Size[v]
  /\ \E direct \in BOOLEAN :
       source' = [kind |-> "proxy", direct |-> direct,
                  content |-> [version |-> v, base |-> cursor], len |-> Size[v] - cursor]
  /\ cursor' = 0
  /\ UNCHANGED <<disk, op>>

OpenBytes(v) ==
  /\ source' = [kind |-> "bytes", direct |-> FALSE, content |-> Whole(v),
                len |-> Size[v]]
  /\ UNCHANGED <<disk, cursor, op>>

\* parse_metadata: RubyIOReader::len goes to the end of an IO and back to where
\* it was; if a step of that fails the length is 0, and the cursor may stay at
\* the end.
OpenDirect(v) ==
  /\ \/ /\ source' = [kind |-> "io", direct |-> TRUE, content |-> Whole(v), len |-> Size[v]]
        /\ UNCHANGED cursor
     \/ /\ source' = [kind |-> "io", direct |-> TRUE, content |-> Whole(v), len |-> 0]
        /\ cursor' \in {cursor, Size[v]}
  /\ UNCHANGED <<disk, op>>

\* What can neither be read nor sought is asked for its string.
OpenString(v) ==
  /\ source' = [kind |-> "string", direct |-> TRUE, content |-> Whole(v), len |-> Size[v]]
  /\ cursor' = 0
  /\ UNCHANGED <<disk, op>>

Open ==
  /\ source = NoSource
  /\ \/ OpenPath
     \/ \E v \in Versions :
          \/ OpenSeekable(v) \/ OpenPlain(v) \/ OpenBytes(v)
          \/ OpenDirect(v) \/ OpenString(v)

-----------------------------------------------------------------------------
(* Calls.                                                                  *)

Busy(c) == op[c].step # "ended"

\* Clones that share a cursor take turns: a read, and so each call of its clones,
\* runs on the one Ruby thread that holds the GVL.
MayBegin(c) ==
  /\ source # NoSource
  /\ ~Busy(c)
  /\ HasCursor => \A d \in Clones : ~Busy(d)

\* RangeReader::new(_, start, self.len - start)
RangeEnd(start) == (start + ((source.len - start) % U64)) % U64

Asked(call, start, length) ==
  [call |-> call, step |-> "ended", start |-> start, length |-> length,
   end |-> IF call = "range" THEN RangeEnd(start) ELSE start + length,
   content |-> NoFile, pos |-> start, got |-> <<>>, result |-> "none"]

Ended(o, result) == [o EXCEPT !.step = "ended", !.result = result]

\* Slip: the bytes are read from where the cursor happens to be.
BeginOnCursor_unsought(c, o) ==
  op' = [op EXCEPT ![c] = [o EXCEPT !.content = source.content, !.step = "read"]]

\* Ruby IO and temporary copy: each seek and each read locks for itself.
BeginOnCursor(c, o) ==
  op' = [op EXCEPT ![c] = [o EXCEPT !.content = source.content, !.step = "seek"]]

\* File: whatever is at the path is opened, for this call only, and sought.
BeginOnFile(c, o) ==
  op' = [op EXCEPT ![c] = IF disk = NoFile
                          THEN Ended(o, "error")
                          ELSE [o EXCEPT !.content = Whole(disk), !.step = "read"]]

\* Bytes: a slice at once, which ends where the bytes end; beyond them
\* get_read returns an error and get_bytes panics.
BeginOnBytes(c, o) ==
  LET end == IF o.call = "range" THEN source.len ELSE Lesser(o.start + o.length, source.len)
  IN op' = [op EXCEPT ![c] =
       IF o.start > source.len
       THEN Ended(o, "error")
       ELSE Ended([o EXCEPT !.content = source.content,
                            !.got = Bytes(source.content, o.start, end - o.start)], "ok")]

Begin(c, o) ==
  /\ MayBegin(c)
  /\ \/ HasCursor /\ BeginOnCursor(c, o)
     \/ source.kind = "file" /\ BeginOnFile(c, o)
     \/ source.kind = "bytes" /\ BeginOnBytes(c, o)
  /\ UNCHANGED <<disk, source, cursor>>

GetBytes(c) == \E start \in Starts, length \in Lengths : Begin(c, Asked("bytes", start, length))

\* A direct reader is buffered, and has no end but that of the content.
GetRead(c) ==
  \E start \in Starts :
    Begin(c, Asked(IF source.direct THEN "buffered" ELSE "range", start, 0))

\* A string keeps the cursor within itself.
SoughtTo(o) ==
  IF source.kind = "string" THEN Lesser(o.start, Length(o.content)) ELSE o.start

\* get_read seeks twice, itself and in RangeReader::new.
Seek(c) ==
  /\ op[c].step \in {"seek", "seek_again"}
  /\ cursor' = SoughtTo(op[c])
  /\ op' = [op EXCEPT ![c].step =
       IF @ = "seek" /\ op[c].call = "range" THEN "seek_again" ELSE "read"]
  /\ UNCHANGED <<disk, source>>

\* Where the next byte comes from: files have a cursor per call.
Position(o) == IF HasCursor THEN cursor ELSE o.pos

\* Slip: what was asked for does not bound a read.
Remaining_unbounded(o) == Available(o.content, Position(o))

\* What get_bytes still wants, what RangeReader::read would take, and what there is.
Remaining(o) ==
  CASE o.call = "bytes" -> o.length - Len(o.got)
    [] o.call = "range" -> (o.end - (o.start + Len(o.got))) % U64
    [] OTHER -> Available(o.content, Position(o))

\* One read: any number of bytes that are wanted and there.
ReadSome(c) ==
  LET o == op[c]
      most == Lesser(Remaining(o), Available(o.content, Position(o)))
  IN /\ o.step = "read"
     /\ \E n \in 1 .. most :
          /\ op' = [op EXCEPT ![c] =
               [o EXCEPT !.got = @ \o Bytes(o.content, Position(o), n), !.pos = @ + n]]
          /\ cursor' = IF HasCursor THEN cursor + n ELSE cursor
     /\ UNCHANGED <<disk, source>>

\* Slip: nothing to read is taken for nothing to read yet.
ReadEnds_retrying(c) ==
  LET o == op[c]
  IN /\ o.step = "read"
     /\ Remaining(o) = 0
     /\ op' = [op EXCEPT ![c] = Ended(o, "ok")]
     /\ UNCHANGED <<disk, source, cursor>>

\* All is read, or there is no more: an error for get_bytes, and the end of
\* the range for the caller of get_read.
ReadEnds(c) ==
  LET o == op[c]
  IN /\ o.step = "read"
     /\ Remaining(o) = 0 \/ Available(o.content, Position(o)) = 0
     /\ op' = [op EXCEPT ![c] =
          Ended(o, IF o.call = "range" \/ Remaining(o) = 0 THEN "ok" ELSE "error")]
     /\ UNCHANGED <<disk, source, cursor>>

\* A seek or read fails, or the caller of get_read has read enough.
GiveUp(c) ==
  /\ Busy(c)
  /\ op' = [op EXCEPT ![c] = Ended(@, "error")]
  /\ UNCHANGED <<disk, source, cursor>>

Step(c) == Seek(c) \/ ReadSome(c) \/ ReadEnds(c)

-----------------------------------------------------------------------------
(* Others.                                                                 *)

\* Another process renames a file to the path, or removes it.
Replace ==
  /\ \E v \in Versions \union {NoFile} : v # disk /\ disk' = v
  /\ UNCHANGED <<source, cursor, op>>

\* Ruby code moves the cursor of its IO: a block, between two rows.  A
\* temporary copy is out of its reach.
MoveCursor ==
  /\ source # NoSource /\ source.kind = "io"
  /\ \A c \in Clones : ~Busy(c)
  /\ \E pos \in Starts : pos # cursor /\ cursor' = pos
  /\ UNCHANGED <<disk, source, op>>

Next ==
  \/ Open \/ Replace \/ MoveCursor
  \/ \E c \in Clones : GetBytes(c) \/ GetRead(c) \/ Step(c) \/ GiveUp(c)

Spec == Init /\ [][Next]_vars

\* A call runs on until it has what it wants; calls on other files and other
\* processes can come in between, not stop it.
FairSpec == Spec /\ \A c \in Clones : WF_vars(Step(c))

-----------------------------------------------------------------------------
(* Properties.                                                             *)

\* The sets the state ranges over; no read takes more than was asked for.
TypeOK ==
  /\ disk \in Versions \union {NoFile}
  /\ source # NoSource => source.len < U64 /\ source.kind \in Kinds
  /\ cursor \in 0 .. U64 - 1
  /\ \A c \in Clones :
       /\ op[c].step \in {"ended", "seek", "seek_again", "read"}
       /\ op[c].call = "bytes" => Len(op[c].got) <= op[c].length

\* Every byte so far is the one asked for, all of one version.
InRange(o) == \A i \in DOMAIN o.got : o.got[i] = Byte(o.content, o.start + i - 1)

\* A call that returns bytes returns those of its range, all of them and of
\* one version of the content, whoever moved the cursor or replaced the file
\* before.  Bytes in memory are the exception: a range that goes beyond them
\* is cut short without an error.
AnswersAreTheirRanges ==
  \A c \in Clones :
    LET o == op[c]
    IN o.call = "bytes" /\ o.result = "ok" =>
         /\ InRange(o)
         /\ Len(o.got) = o.length \/ source.kind = "bytes"

\* A RangeReader that starts in the content delivers it in order, and never
\* goes beyond the length the reader was made with, even if another file with
\* more bytes has taken the place of the first.  What get_read of a direct reader
\* delivers is in order too, wherever it starts.
RangeReadersStayInside ==
  \A c \in Clones :
    LET o == op[c]
    IN /\ o.call = "range" /\ o.start <= source.len =>
            InRange(o) /\ o.start + Len(o.got) <= source.len
       /\ o.call = "buffered" => InRange(o)

\* A call ends, also where a content is shorter than its caller believes.
CallsEnd == \A c \in Clones : Busy(c) ~> ~Busy(c)
=============================================================================
