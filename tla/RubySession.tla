----------------------------- MODULE RubySession -----------------------------
(***************************************************************************)
(* One file through the Ruby side of the gem: a schema is parsed, a row    *)
(* converted cell by cell, checked and written, and read by a call that    *)
(* has a block or goes through an enumerator first, value by value.        *)
(*                                                                         *)
(* These are the steps, in their order and with what makes each of them    *)
(* fail.  What a schema is parsed to, a cell converted to and a value read *)
(* as are operators here, which RubyBoundary gives; parsing the arguments  *)
(* of a read is from RubyArguments.                                        *)
(***************************************************************************)
EXTENDS RubyArguments, Sequences

CONSTANTS
  Topics,              \* kinds of sessions
  Sessions(_),         \* Sessions(topic): what users do, see the variable session
  Schemas(_),          \* of a session: what its schema is parsed to, {} for an error
  Convert(_, _, _, _), \* of a cell, the Times, a node of the schema and the zones:
                       \* [value, zones] after it, {} for an error
  Takes(_, _),         \* whether the core writer takes a value for a node
  FromParquet(_)       \* what a value is read as

ASSUME SessionAssumption ==
  \A topic \in Topics : \A s \in Sessions(topic) : s.method \in {"each_row", "each_column"}

VARIABLES
  session,   \* [form, columns, row, times, zones, method, kwargs, block]
  stage,     \* what comes next, or what raised
  root,      \* the parsed schema
  zones,     \* zones of the Time objects
  stored,    \* values converted so far, those of the file in the end
  args,      \* the arguments a read goes by
  read       \* values read so far

session_vars == <<session, stage, root, zones, stored, args, read>>
----------------------------------------------------------------------------
NewSession ==
  /\ \E topic \in Topics : session \in Sessions(topic)
  /\ stage = "schema"
  /\ root = <<>>
  /\ zones = session.zones
  /\ stored = <<>>
  /\ args = <<>>
  /\ read = <<>>

ParseSchema ==
  /\ stage = "schema"
  /\ LET schemas == Schemas(session)
     IN  IF schemas = {} THEN stage' = "schema refused" /\ UNCHANGED root
         ELSE stage' = "row" /\ root' \in schemas
  /\ UNCHANGED <<session, zones, stored, args, read>>

\* The next cell of the row, by the type the schema gives its column.
ConvertCell ==
  /\ stage = "row"
  /\ Len(stored) < Len(session.row)
  /\ LET i == Len(stored) + 1
         outcomes == Convert(session.row[i], session.times, root.fields[i], zones)
     IN  IF outcomes = {} THEN stage' = "row refused" /\ UNCHANGED <<zones, stored>>
         ELSE \E o \in outcomes : /\ stored' = Append(stored, o.value)
                                  /\ zones' = o.zones
                                  /\ UNCHANGED stage
  /\ UNCHANGED <<session, root, args, read>>

\* The core writer checks the row and the file is closed.
WriteRow ==
  /\ stage = "row"
  /\ Len(stored) = Len(session.row)
  /\ stage' = IF \A i \in DOMAIN stored : Takes(stored[i], root.fields[i])
              THEN "written" ELSE "row refused"
  /\ UNCHANGED <<session, root, zones, stored, args, read>>

\* A read is called with a block, or an enumerator is made, ...
Call ==
  /\ stage = "written"
  /\ LET parsed == parse_read_args(session.method, session.kwargs)
     IN  IF parsed = {} THEN stage' = "read refused" /\ UNCHANGED args
         ELSE /\ stage' = IF session.block THEN "reading" ELSE "enumerator"
              /\ args' \in parsed
  /\ UNCHANGED <<session, root, zones, stored, read>>

\* ... which calls the method with a block and arguments of its own making.
Each ==
  /\ stage = "enumerator"
  /\ LET parsed == parse_read_args(session.method,
                                   create_enumerator(session.method, args))
     IN  IF parsed = {} THEN stage' = "repeat refused" /\ UNCHANGED args
         ELSE stage' = "reading" /\ args' \in parsed
  /\ UNCHANGED <<session, root, zones, stored, read>>

ReadValue ==
  /\ stage = "reading"
  /\ Len(read) < Len(stored)
  /\ read' = Append(read, FromParquet(stored[Len(read) + 1]))
  /\ UNCHANGED <<session, stage, root, zones, stored, args>>

SessionStep == ParseSchema \/ ConvertCell \/ WriteRow \/ Call \/ Each \/ ReadValue

SessionSpec == NewSession /\ [][SessionStep]_session_vars
----------------------------------------------------------------------------
\* An enumerator reads as the call that made it would have with a block, and never
\* refuses what that call accepted.  Only strict: false is forgotten, which no
\* read looks at.
EnumeratorRepeatsTheCall ==
  /\ stage # "repeat refused"
  /\ stage = "reading" =>
       \E parsed \in parse_read_args(session.method, session.kwargs) :
         [args EXCEPT !.strict = parsed.strict] = parsed
============================================================================
