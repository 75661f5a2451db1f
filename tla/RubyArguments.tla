---------------------------- MODULE RubyArguments ----------------------------
(***************************************************************************)
(* The keyword arguments of each_row and each_column,                      *)
(* ext/parquet/src/adapter_ffi.rs, and the enumerator that a call without  *)
(* a block returns, ext/parquet-ruby-adapter/src/utils.rs: it calls the    *)
(* method again, with keyword arguments rebuilt from those parsed before.  *)
(*                                                                         *)
(* Keyword arguments and hashes are functions from the keys that are there *)
(* to their values, which may be Nil; the keys of a string_storage hash    *)
(* are <<"symbol", key>> or <<"string", key>>.  An operator that may fail  *)
(* returns a set: its result, or {} for an error.                          *)
(***************************************************************************)
EXTENDS Integers

CONSTANTS
  Nil,                            \* nil
  None,                           \* an argument left out
  DEFAULT_SHARED_MAX_ENTRIES,
  DEFAULT_SHARED_MAX_VALUE_BYTES

StringStorageMode == {"copy", "intern", "shared"}

\* nil is no value of an argument, and neither is what stands for one left out.
ASSUME ArgumentsAssumption ==
  /\ {DEFAULT_SHARED_MAX_ENTRIES, DEFAULT_SHARED_MAX_VALUE_BYTES} \subseteq Nat \ {0}
  /\ \A no \in {Nil, None} :
       /\ no \notin {"hash", "array"} /\ no \notin BOOLEAN
       /\ no \notin Nat
       /\ no \notin [name : StringStorageMode]
       /\ no \notin [hash : [{"symbol"} \X {"mode", "max_entries", "max_value_bytes"}
                                -> StringStorageMode \cup Nat]]

from_mode(mode) ==
  [mode |-> mode, shared_max_entries |-> DEFAULT_SHARED_MAX_ENTRIES,
   shared_max_value_bytes |-> DEFAULT_SHARED_MAX_VALUE_BYTES]

DefaultConfig == from_mode("copy")
----------------------------------------------------------------------------
(* Parsing. *)

\* Only symbols are looked up, though strings are known keys too.
Got(hash, key) ==
  IF <<"symbol", key>> \in DOMAIN hash THEN hash[<<"symbol", key>>] ELSE Nil

parse_storage_mode(name) == {name} \cap StringStorageMode

positive_usize(value, default) ==
  IF value = Nil THEN {default} ELSE {value} \cap (Nat \ {0})

parse_string_storage_hash(hash) ==
  LET entries == Got(hash, "max_entries")
      bytes   == Got(hash, "max_value_bytes")
  IN  {[mode |-> m, shared_max_entries |-> e, shared_max_value_bytes |-> b] :
         m \in {mode \in parse_storage_mode(Got(hash, "mode")) :
                  /\ {k[2] : k \in DOMAIN hash}
                       \subseteq {"mode", "max_entries", "max_value_bytes"}
                  /\ mode = "shared" \/ (entries = Nil /\ bytes = Nil)},
         e \in positive_usize(entries, DEFAULT_SHARED_MAX_ENTRIES),
         b \in positive_usize(bytes, DEFAULT_SHARED_MAX_VALUE_BYTES)}

\* value is None, [name |-> mode] or [hash |-> hash].
parse_string_storage(value) ==
  IF value = None THEN {DefaultConfig}
  ELSE IF "hash" \in DOMAIN value THEN parse_string_storage_hash(value.hash)
  ELSE {from_mode(m) : m \in parse_storage_mode(value.name)}

\* A keyword argument that is nil counts as left out.
Option(kwargs, key) ==
  IF key \in DOMAIN kwargs /\ kwargs[key] # Nil THEN kwargs[key] ELSE None

OrElse(option, default) == IF option = None THEN default ELSE option

Keywords(method) ==
  {"result_type", "columns", "strict", "string_storage", "logger"}
    \cup (IF method = "each_column" THEN {"batch_size"} ELSE {})

Strict(kwargs) == OrElse(Option(kwargs, "strict"), TRUE)

\* What a call of each_row or each_column does is determined by this.
parse_read_args(method, kwargs) ==
  {[result_type |-> r, columns |-> Option(kwargs, "columns"),
    batch_size |-> Option(kwargs, "batch_size"),
    strict |-> Strict(kwargs),
    string_storage |-> s, logger |-> Option(kwargs, "logger")] :
     r \in {type \in {"hash", "array"} :
              /\ DOMAIN kwargs \subseteq Keywords(method)
              /\ type = OrElse(Option(kwargs, "result_type"), "hash")
              /\ Option(kwargs, "batch_size") # 0},
     s \in parse_string_storage(Option(kwargs, "string_storage"))}
----------------------------------------------------------------------------
(* The enumerator. *)

\* A slip: one default is enough to leave the budget out.
DefaultBudget_either(c) ==
  \/ c.shared_max_entries = DEFAULT_SHARED_MAX_ENTRIES
  \/ c.shared_max_value_bytes = DEFAULT_SHARED_MAX_VALUE_BYTES

DefaultBudget(c) ==
  /\ c.shared_max_entries = DEFAULT_SHARED_MAX_ENTRIES
  /\ c.shared_max_value_bytes = DEFAULT_SHARED_MAX_VALUE_BYTES

string_storage_kwarg(c) ==
  LET budget == [mode |-> c.mode, max_entries |-> c.shared_max_entries,
                 max_value_bytes |-> c.shared_max_value_bytes]
  IN  IF c = DefaultConfig THEN None
      ELSE IF c.mode = "shared" /\ ~DefaultBudget(c)
      THEN [hash |-> [k \in {"symbol"} \X DOMAIN budget |-> budget[k[2]]]]
      ELSE [name |-> c.mode]

\* The options that are not left out.
Given(options) ==
  [key \in {k \in DOMAIN options : options[k] # None} |-> options[key]]

create_row_enumerator(args) ==
  Given([result_type |-> args.result_type, columns |-> args.columns,
         strict |-> IF args.strict THEN TRUE ELSE None,
         string_storage |-> string_storage_kwarg(args.string_storage),
         logger |-> args.logger])

create_column_enumerator(args) ==
  Given([result_type |-> args.result_type, columns |-> args.columns,
         batch_size |-> args.batch_size,
         strict |-> IF args.strict THEN TRUE ELSE None,
         string_storage |-> string_storage_kwarg(args.string_storage),
         logger |-> args.logger])

create_enumerator(method, args) ==
  IF method = "each_row" THEN create_row_enumerator(args)
                         ELSE create_column_enumerator(args)
============================================================================
