---------------------------- MODULE StringStorage ----------------------------
(***************************************************************************)
(* How the strings of a read become Ruby strings                           *)
(* (ext/parquet-ruby-adapter/src/string_storage.rs).  Every read has a     *)
(* StringStorage of its own; in :shared mode the reads of the process      *)
(* share a registry, behind a mutex, of buffers that are leaked so that    *)
(* Ruby strings may point at them for ever.  Budgets of the read and       *)
(* ceilings of the process bound what is leaked.                           *)
(*                                                                         *)
(* A slice (&'static str) is the index in heap of the leaked buffer it     *)
(* points at; a HashSet of slices is looked up by content.                 *)
(***************************************************************************)
EXTENDS Integers, Sequences, FiniteSets, FiniteSetsExt

CONSTANTS
  Reads,             \* reads that may run at a time, in their own threads
  Strings,           \* distinct string values
  Names,             \* struct field names
  Size,              \* bytes of a string
  Budgets,           \* <<shared_max_entries, shared_max_value_bytes>> passed
  NoString,          \* no call waits for the registry
  SHARED_PROCESS_MAX_ENTRIES,
  SHARED_PROCESS_MAX_BYTES,
  SHARED_FALLBACK_CACHE_ENTRY_COUNT_MAX,
  SHARED_FALLBACK_CACHE_RETAINED_BYTES_MAX,
  INTERN_VALUE_CACHE_ENTRY_COUNT_MAX,
  KEY_CACHE_ENTRY_COUNT_MAX,
  UsizeMax           \* usize::MAX

ASSUME StorageAssumption ==
  /\ Size \in [Strings -> Nat]
  /\ Budgets \subseteq (Nat \ {0}) \X (Nat \ {0})
  /\ NoString \notin Strings
  /\ {SHARED_PROCESS_MAX_ENTRIES, SHARED_PROCESS_MAX_BYTES,
      SHARED_FALLBACK_CACHE_ENTRY_COUNT_MAX,
      SHARED_FALLBACK_CACHE_RETAINED_BYTES_MAX,
      INTERN_VALUE_CACHE_ENTRY_COUNT_MAX,
      KEY_CACHE_ENTRY_COUNT_MAX, UsizeMax} \subseteq Nat
  /\ SHARED_PROCESS_MAX_BYTES < UsizeMax
  /\ SHARED_FALLBACK_CACHE_RETAINED_BYTES_MAX < UsizeMax

VARIABLES
  heap,      \* leaked buffers, never freed: heap[slice] is the content
  registry,  \* SharedLeakRegistry
  storage,   \* the StringStorage of each read
  waiting,   \* the string a read is about to look up in the registry
  answer     \* history: what each read got for each string last

vars == <<heap, registry, storage, waiting, answer>>

Slices == 1 .. Len(heap)

\* The slice among entries with this content, if any (HashSet::get).
Get(entries, s) == {slice \in entries : heap[slice] = s}

Lesser(a, b) == IF a <= b THEN a ELSE b
saturating_add(a, b) == Lesser(a + b, UsizeMax)
saturating_mul(a, b) == Lesser(a * b, UsizeMax)
----------------------------------------------------------------------------
(* SharedLeakRegistry *)

\* Slips: no ceiling; a product that wraps; a lookup that never finds; a NUL
\* that is not counted.
entry_limit_unlimited(max_entries) == max_entries
wrapping_byte_limit(max_entries, max_value_bytes) ==
  Lesser((max_entries * (max_value_bytes + 1)) % (UsizeMax + 1),
         SHARED_PROCESS_MAX_BYTES)
NotLookedUp(s) == {}
Leaked_uncounted_nul(s) ==
  [entries      |-> registry.entries \cup {Len(heap) + 1},
   leaked_bytes |-> registry.leaked_bytes + Size[s]]

entry_limit(max_entries) == Lesser(max_entries, SHARED_PROCESS_MAX_ENTRIES)

byte_limit(max_entries, max_value_bytes) ==
  Lesser(saturating_mul(max_entries, saturating_add(max_value_bytes, 1)),
         SHARED_PROCESS_MAX_BYTES)

\* The bytes of a leaked buffer: the content and its NUL.
entry_bytes(s) == Size[s] + 1

Registered(s) == Get(registry.entries, s)

Admits(s, max_entries, max_value_bytes) ==
  /\ Cardinality(registry.entries) < entry_limit(max_entries)
  /\ saturating_add(registry.leaked_bytes, entry_bytes(s)) <=
       byte_limit(max_entries, max_value_bytes)

\* The slice that leak_nul_terminated returns, and the registry with it.
LeakedSlice(s) == Len(heap) + 1

Leaked(s) ==
  [entries      |-> registry.entries \cup {LeakedSlice(s)},
   leaked_bytes |-> registry.leaked_bytes + entry_bytes(s)]
----------------------------------------------------------------------------
(* The StringStorage of a read *)

NewStorage(mode, budget) ==
  [mode |-> mode, entries |-> {}, fallbacks |-> {}, fallback_bytes |-> 0,
   max_entries |-> budget[1], max_value_bytes |-> budget[2],
   cache |-> {}, keys |-> {}]

\* No read.
Ended == NewStorage("ended", <<1, 1>>)

remember_fallback(st, s) ==
  IF \/ Size[s] > st.max_value_bytes
     \/ Cardinality(st.fallbacks) >= SHARED_FALLBACK_CACHE_ENTRY_COUNT_MAX
     \/ saturating_add(st.fallback_bytes, Size[s]) >
          SHARED_FALLBACK_CACHE_RETAINED_BYTES_MAX
  THEN st
  ELSE [st EXCEPT !.fallbacks = @ \cup {s},
                  !.fallback_bytes = IF s \in st.fallbacks THEN @ ELSE @ + Size[s]]

\* InternCache::intern_cached: a string found or added stays; a full cache
\* takes no more.
Cached(cache, capacity, s) ==
  IF s \notin cache /\ Cardinality(cache) < capacity THEN cache \cup {s} ELSE cache

Answer(kind, slice) == [kind |-> kind, slice |-> slice]
NoAnswer == Answer("none", 0)
Copied == Answer("frozen_copy", 0)

\* What a read can answer without the registry, in the order it is tried.
\* Slip: the size is only checked for strings that were leaked by this read.
LocalAnswer_unsized(st, s) ==
  IF Get(st.entries, s) # {} THEN {Answer("static", slice) : slice \in Get(st.entries, s)}
  ELSE IF s \in st.fallbacks THEN {Copied}
  ELSE {}

\* Slip: a full budget is noticed before the strings already given.
LocalAnswer_full_first(st, s) ==
  IF Cardinality(st.entries) >= st.max_entries THEN {Copied}
  ELSE {Answer("static", slice) : slice \in Get(st.entries, s)}

LocalAnswer(st, s) ==
  IF Get(st.entries, s) # {} THEN {Answer("static", slice) : slice \in Get(st.entries, s)}
  ELSE IF \/ s \in st.fallbacks
          \/ Size[s] > st.max_value_bytes
          \/ Cardinality(st.entries) >= st.max_entries
  THEN {Copied}
  ELSE {}

\* A string that is not given because the read's entries are used up is
\* remembered; one that is known, or too long, is not.
LocalStorage(st, s) ==
  IF /\ Get(st.entries, s) = {}
     /\ Cardinality(st.entries) >= st.max_entries
  THEN remember_fallback(st, s)
  ELSE st
----------------------------------------------------------------------------
Init ==
  /\ heap = <<>>
  /\ registry = [entries |-> {}, leaked_bytes |-> 0]
  /\ storage = [r \in Reads |-> Ended]
  /\ waiting = [r \in Reads |-> NoString]
  /\ answer = [r \in Reads |-> [s \in Strings |-> NoAnswer]]

Gives(r, s, a) == answer' = [answer EXCEPT ![r][s] = a]

\* Between calls of a running read.
Running(r) == storage[r].mode # "ended" /\ waiting[r] = NoString

\* each_row or each_column begins.  Only :shared reads look at the budget.
Begin(r) ==
  /\ storage[r].mode = "ended"
  /\ \/ \E mode \in {"copy", "intern"} :
          storage' = [storage EXCEPT ![r] = NewStorage(mode, <<1, 1>>)]
     \/ \E budget \in Budgets :
          storage' = [storage EXCEPT ![r] = NewStorage("shared", budget)]
  /\ UNCHANGED <<heap, registry, waiting, answer>>

\* ruby_string in :copy mode: a fresh mutable string.
Copy(r, s) ==
  /\ Running(r)
  /\ storage[r].mode = "copy"
  /\ Gives(r, s, Answer("copy", 0))
  /\ UNCHANGED <<heap, registry, storage, waiting>>

\* ruby_string in :intern mode.
Intern(r, s) ==
  LET cache == Cached(storage[r].cache, INTERN_VALUE_CACHE_ENTRY_COUNT_MAX, s)
  IN  /\ Running(r)
      /\ storage[r].mode = "intern"
      /\ storage' = [storage EXCEPT ![r].cache = cache]
      /\ Gives(r, s, IF s \in cache THEN Answer("interned", 0) ELSE Copied)
      /\ UNCHANGED <<heap, registry, waiting>>

\* ruby_string in :shared mode, answered by the read itself.
ShareLocally(r, s) ==
  /\ Running(r)
  /\ storage[r].mode = "shared"
  /\ \E a \in LocalAnswer(storage[r], s) : Gives(r, s, a)
  /\ storage' = [storage EXCEPT ![r] = LocalStorage(@, s)]
  /\ UNCHANGED <<heap, registry, waiting>>

\* ruby_string in :shared mode, up to the lock of the registry.
Share(r, s) ==
  /\ Running(r)
  /\ storage[r].mode = "shared"
  /\ LocalAnswer(storage[r], s) = {}
  /\ waiting' = [waiting EXCEPT ![r] = s]
  /\ UNCHANGED <<heap, registry, storage, answer>>

\* The rest of that call, under the lock: the string is registered, by this
\* read or another one.
ShareRegistered(r) ==
  LET s == waiting[r]
  IN  /\ s # NoString
      /\ \E slice \in Registered(s) :
           /\ storage' = [storage EXCEPT ![r].entries = @ \cup {slice}]
           /\ Gives(r, s, Answer("static", slice))
      /\ waiting' = [waiting EXCEPT ![r] = NoString]
      /\ UNCHANGED <<heap, registry>>

\* ... it is leaked now ...
ShareLeaked(r) ==
  LET s == waiting[r]
  IN  /\ s # NoString
      /\ Registered(s) = {}
      /\ Admits(s, storage[r].max_entries, storage[r].max_value_bytes)
      /\ heap' = Append(heap, s)
      /\ registry' = Leaked(s)
      /\ storage' = [storage EXCEPT ![r].entries = @ \cup {LeakedSlice(s)}]
      /\ Gives(r, s, Answer("static", LeakedSlice(s)))
      /\ waiting' = [waiting EXCEPT ![r] = NoString]

\* ... or there is no room and it is copied.
ShareRefused(r) ==
  LET s == waiting[r]
  IN  /\ s # NoString
      /\ Registered(s) = {}
      /\ ~Admits(s, storage[r].max_entries, storage[r].max_value_bytes)
      /\ storage' = [storage EXCEPT ![r] = remember_fallback(@, s)]
      /\ Gives(r, s, Copied)
      /\ waiting' = [waiting EXCEPT ![r] = NoString]
      /\ UNCHANGED <<heap, registry>>

\* ruby_key: interned whether or not the cache has room.
Key(r, name) ==
  /\ Running(r)
  /\ storage' = [storage EXCEPT ![r].keys = Cached(@, KEY_CACHE_ENTRY_COUNT_MAX, name)]
  /\ UNCHANGED <<heap, registry, waiting, answer>>

\* The read ends; its strings live on in Ruby, its caches do not.
End(r) ==
  /\ Running(r)
  /\ storage' = [storage EXCEPT ![r] = Ended]
  /\ answer' = [answer EXCEPT ![r] = [s \in Strings |-> NoAnswer]]
  /\ UNCHANGED <<heap, registry, waiting>>

Next ==
  \E r \in Reads :
    \/ Begin(r) \/ End(r)
    \/ ShareRegistered(r) \/ ShareLeaked(r) \/ ShareRefused(r)
    \/ \E s \in Strings :
         Copy(r, s) \/ Intern(r, s) \/ ShareLocally(r, s) \/ Share(r, s)
    \/ \E name \in Names : Key(r, name)

Spec == Init /\ [][Next]_vars
----------------------------------------------------------------------------
StorageType ==
  [mode : {"ended", "copy", "intern", "shared"},
   entries : SUBSET Slices, fallbacks : SUBSET Strings, fallback_bytes : Nat,
   max_entries : Nat \ {0}, max_value_bytes : Nat \ {0},
   cache : SUBSET Strings, keys : SUBSET Names]

AnswerType ==
  [kind : {"none", "copy", "interned", "static", "frozen_copy"},
   slice : Slices \cup {0}]

\* Slices point into the leaked memory; only a :shared read waits.
TypeOK ==
  /\ heap \in Seq(Strings)
  /\ registry \in [entries : SUBSET Slices, leaked_bytes : Nat]
  /\ storage \in [Reads -> StorageType]
  /\ waiting \in [Reads -> Strings \cup {NoString}]
  /\ answer \in [Reads -> [Strings -> AnswerType]]
  /\ \A r \in Reads : waiting[r] # NoString => storage[r].mode = "shared"
----------------------------------------------------------------------------
(* Properties. *)

\* What the process has leaked, over all its reads, stays below its ceilings
\* whatever budgets the reads ask for, and the registry counts all of it.
RegistryBelowCeilings ==
  /\ registry.entries = Slices
  /\ Len(heap) <= SHARED_PROCESS_MAX_ENTRIES
  /\ registry.leaked_bytes <= SHARED_PROCESS_MAX_BYTES

\* Equal strings share one leaked buffer, whichever reads asked for them and
\* however their calls interleave; a string given without a copy has the
\* content that was asked for.
LeakedOnce ==
  /\ \A i, j \in Slices : heap[i] = heap[j] => i = j
  /\ \A r \in Reads, s \in Strings :
       answer[r][s].kind = "static" => heap[answer[r][s].slice] = s

\* Strings a read gave without a copy.
Given(r) == {s \in Strings : answer[r][s].kind = "static"}

\* A read's own budget bounds what it gives without a copy, strings that a
\* larger read leaked before included.
ReadBudgetHolds ==
  \A r \in Reads :
    /\ Cardinality(Given(r)) <= storage[r].max_entries
    /\ \A s \in Given(r) : Size[s] <= storage[r].max_value_bytes

\* The counts that admission relies on, kept up step by step, are the bytes really
\* leaked and the bytes really remembered; what a read remembers stays within its
\* limits, the key cache being an InternCache like the one of :intern values.
HeldBytesAreCounted ==
  /\ registry.leaked_bytes = MapThenSumSet(LAMBDA i : entry_bytes(heap[i]), Slices)
  /\ \A r \in Reads :
       /\ storage[r].fallback_bytes =
            MapThenSumSet(LAMBDA s : Size[s], storage[r].fallbacks)
       /\ storage[r].fallback_bytes <= SHARED_FALLBACK_CACHE_RETAINED_BYTES_MAX
       /\ Cardinality(storage[r].fallbacks) <= SHARED_FALLBACK_CACHE_ENTRY_COUNT_MAX
       /\ Cardinality(storage[r].cache) <= INTERN_VALUE_CACHE_ENTRY_COUNT_MAX

\* A larger budget admits whatever a smaller one admits.
AdmissionIsMonotone ==
  \A s \in Strings : \A small, large \in Budgets :
    /\ small[1] <= large[1] /\ small[2] <= large[2]
    /\ Admits(s, small[1], small[2])
    => Admits(s, large[1], large[2])

\* Within a read equal values keep their representation, so that a column does
\* not mix zero-copy strings and copies of one value: only a string that was
\* copied and could not be remembered may be shared later.
AnswersAreStable ==
  [][\A r \in Reads, s \in Strings :
       /\ answer[r][s] # NoAnswer
       /\ storage'[r].mode # "ended"
       => \/ answer'[r][s] = answer[r][s]
          \/ storage[r].mode = "shared" /\ answer[r][s] = Copied
               /\ s \notin storage[r].fallbacks]_vars
============================================================================
