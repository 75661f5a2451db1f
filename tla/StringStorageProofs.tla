------------------------- MODULE StringStorageProofs -------------------------
(***************************************************************************)
(* The bounds on what :shared strings leak hold for any number of reads,   *)
(* any strings, budgets and ceilings, equal strings share one buffer, and   *)
(* the values of a read keep their representation.                         *)
(***************************************************************************)
EXTENDS StringStorage, DataFacts

\* What holds of a read, its last answers and the string it waits for: every
\* slice it was given is within its budget, and a read that waits has room.
Fits(st, ans, w) ==
  /\ st \in StorageType
  /\ ans \in [Strings -> AnswerType]
  /\ w \in Strings \cup {NoString}
  /\ st.mode = "ended" => st.entries = {}
  /\ IsFiniteSet(st.entries)
  /\ Cardinality(st.entries) <= st.max_entries
  /\ \A slice \in st.entries : Size[heap[slice]] <= st.max_value_bytes
  /\ \A s \in Strings : ans[s].kind = "static" =>
       ans[s].slice \in st.entries /\ heap[ans[s].slice] = s
  /\ w # NoString =>
       /\ st.mode = "shared"
       /\ Cardinality(st.entries) < st.max_entries
       /\ Size[w] <= st.max_value_bytes

NoTwoAlike == \A i, j \in Slices : heap[i] = heap[j] => i = j

IInv ==
  /\ TypeOK
  /\ RegistryBelowCeilings
  /\ NoTwoAlike
  /\ \A r \in Reads : Fits(storage[r], answer[r], waiting[r])

LEMMA EndedStorage ==
  ASSUME NEW mode \in {"ended", "copy", "intern", "shared"},
         NEW budget \in (Nat \ {0}) \X (Nat \ {0})
  PROVE  /\ NewStorage(mode, budget) \in StorageType
         /\ NewStorage(mode, budget).entries = {}
         /\ NewStorage(mode, budget).mode = mode
         /\ NewStorage(mode, budget).max_entries \in Nat
  BY DEF NewStorage, StorageType

\* Remembering a string touches the fallbacks only.
LEMMA Remembered ==
  ASSUME NEW st \in StorageType, NEW s \in Strings
  PROVE  /\ remember_fallback(st, s) \in StorageType
         /\ remember_fallback(st, s).entries = st.entries
         /\ remember_fallback(st, s).mode = st.mode
         /\ remember_fallback(st, s).max_entries = st.max_entries
         /\ remember_fallback(st, s).max_value_bytes = st.max_value_bytes
  <1>. DEFINE all == st.fallbacks \cup {s}
              bytes == IF s \in st.fallbacks THEN st.fallback_bytes
                                             ELSE st.fallback_bytes + Size[s]
              more == [st EXCEPT !.fallbacks = all, !.fallback_bytes = bytes]
  <1>1. all \in SUBSET Strings /\ bytes \in Nat
    BY StorageAssumption DEF StorageType
  <1>2. remember_fallback(st, s) \in {st, more}
    BY DEF remember_fallback
  <1>. HIDE DEF all, bytes
  <1>3. more \in StorageType
    BY <1>1 DEF StorageType
  <1>4. /\ more.entries = st.entries /\ more.mode = st.mode
        /\ more.max_entries = st.max_entries
        /\ more.max_value_bytes = st.max_value_bytes
    BY DEF StorageType
  <1>. QED
    BY <1>2, <1>3, <1>4

\* A step of one read: the other reads keep what they have, since leaked
\* memory only grows.
LEMMA ReadStep ==
  ASSUME IInv, NEW r \in Reads, NEW st, NEW ans, NEW w,
         storage' = [storage EXCEPT ![r] = st],
         answer' = [answer EXCEPT ![r] = ans],
         waiting' = [waiting EXCEPT ![r] = w],
         heap' \in Seq(Strings), Slices \subseteq Slices',
         \A i \in Slices : heap'[i] = heap[i],
         registry' \in [entries : SUBSET Slices', leaked_bytes : Nat],
         RegistryBelowCeilings', NoTwoAlike',
         Fits(st, ans, w)'
  PROVE  IInv'
  <1>1. /\ storage \in [Reads -> StorageType]
        /\ waiting \in [Reads -> Strings \cup {NoString}]
        /\ answer \in [Reads -> [Strings -> AnswerType]]
    BY DEF IInv, TypeOK
  <1>2. StorageType \subseteq StorageType' /\ AnswerType \subseteq AnswerType'
    BY DEF StorageType, AnswerType
  <1>3. [Strings -> AnswerType] \subseteq [Strings -> AnswerType']
    BY <1>2
  <1>4. ASSUME NEW q \in Reads
        PROVE  Fits(storage[q], answer[q], waiting[q])'
    <2>1. CASE q = r
      <3>1. storage'[q] = st /\ answer'[q] = ans /\ waiting'[q] = w
        BY <1>1, <2>1
      <3>. QED BY <3>1 DEF Fits
    <2>2. CASE q # r
      <3>1. storage'[q] = storage[q] /\ answer'[q] = answer[q] /\ waiting'[q] = waiting[q]
        BY <1>1, <2>2
      <3>2. Fits(storage[q], answer[q], waiting[q])
        BY DEF IInv
      <3>3. \A slice \in storage[q].entries : slice \in Slices
        BY <1>1 DEF StorageType
      <3>. QED BY <1>2, <1>3, <3>1, <3>2, <3>3 DEF Fits
    <2>. QED BY <2>1, <2>2
  <1>5. storage' \in [Reads -> StorageType'] /\ waiting' \in [Reads -> Strings \cup {NoString}]
    BY <1>1, <1>2 DEF Fits
  <1>6. answer' \in [Reads -> [Strings -> AnswerType']]
    BY <1>1, <1>3 DEF Fits
  <1>7. \A q \in Reads : waiting'[q] # NoString => storage'[q].mode = "shared"
    BY <1>4 DEF Fits
  <1>8. TypeOK'
    BY <1>5, <1>6, <1>7 DEF TypeOK
  <1>. QED
    BY <1>4, <1>8 DEF IInv

\* The same for a step that leaks nothing.
LEMMA QuietStep ==
  ASSUME IInv, NEW r \in Reads, NEW st, NEW ans, NEW w,
         storage' = [storage EXCEPT ![r] = st],
         answer' = [answer EXCEPT ![r] = ans],
         waiting' = [waiting EXCEPT ![r] = w],
         heap' = heap, registry' = registry,
         Fits(st, ans, w)
  PROVE  IInv'
  <1>1. /\ heap' \in Seq(Strings) /\ Slices' = Slices
        /\ registry' \in [entries : SUBSET Slices', leaked_bytes : Nat]
        /\ Slices \subseteq Slices'
        /\ \A i \in Slices : heap'[i] = heap[i]
    BY DEF IInv, TypeOK, Slices
  <1>2. RegistryBelowCeilings' /\ NoTwoAlike'
    BY <1>1 DEF IInv, RegistryBelowCeilings, NoTwoAlike
  <1>3. StorageType' = StorageType /\ AnswerType' = AnswerType
    BY <1>1 DEF StorageType, AnswerType
  <1>4. Fits(st, ans, w)'
    BY <1>3 DEF Fits
  <1>. QED
    BY <1>1, <1>2, <1>4, ReadStep

\* What is known of one read.
LEMMA OneRead ==
  ASSUME IInv, NEW r \in Reads
  PROVE  /\ Fits(storage[r], answer[r], waiting[r])
         /\ storage = [storage EXCEPT ![r] = storage[r]]
         /\ waiting = [waiting EXCEPT ![r] = waiting[r]]
         /\ answer = [answer EXCEPT ![r] = answer[r]]
         /\ \A s, a : [answer EXCEPT ![r][s] = a] =
                        [answer EXCEPT ![r] = [answer[r] EXCEPT ![s] = a]]
  BY DEF IInv, TypeOK

\* Caches that hold no slice may change.
LEMMA SameSlices ==
  ASSUME NEW old, NEW ans, Fits(old, ans, NoString),
         NEW st \in StorageType, st.mode = old.mode, st.entries = old.entries,
         st.max_entries = old.max_entries, st.max_value_bytes = old.max_value_bytes
  PROVE  Fits(st, ans, NoString)
  BY DEF Fits

\* An answer that is a copy, or a slice of the read.
LEMMA Answered ==
  ASSUME NEW st, NEW ans, Fits(st, ans, NoString), NEW s \in Strings,
         NEW a \in AnswerType,
         a.kind = "static" => a.slice \in st.entries /\ heap[a.slice] = s
  PROVE  Fits(st, [ans EXCEPT ![s] = a], NoString)
  <1>. DEFINE new == [ans EXCEPT ![s] = a]
  <1>1. new \in [Strings -> AnswerType]
    BY DEF Fits
  <1>2. \A t \in Strings : new[t] = IF t = s THEN a ELSE ans[t]
    BY DEF Fits
  <1>. HIDE DEF new
  <1>. QED
    BY <1>1, <1>2 DEF Fits, new

LEMMA CopyStep ==
  ASSUME IInv, NEW r \in Reads, NEW s \in Strings, Copy(r, s)
  PROVE  IInv'
  <1>. DEFINE a == Answer("copy", 0)
  <1>1. a \in AnswerType /\ a.kind # "static"
    BY DEF Answer, AnswerType
  <1>. HIDE DEF a
  <1>2. Fits(storage[r], [answer[r] EXCEPT ![s] = a], NoString)
    BY <1>1, OneRead, Answered DEF Copy, Running
  <1>3. /\ answer' = [answer EXCEPT ![r] = [answer[r] EXCEPT ![s] = a]]
        /\ waiting' = [waiting EXCEPT ![r] = NoString]
        /\ storage' = [storage EXCEPT ![r] = storage[r]]
        /\ heap' = heap /\ registry' = registry
    BY OneRead DEF Copy, Running, Gives, a
  <1>. QED
    BY <1>2, <1>3, QuietStep

LEMMA CacheChanges ==
  ASSUME NEW old \in StorageType, NEW cache \in SUBSET Strings,
         NEW keys \in SUBSET Names, NEW st,
         st \in {[old EXCEPT !.cache = cache], [old EXCEPT !.keys = keys]}
  PROVE  /\ st \in StorageType /\ st.mode = old.mode /\ st.entries = old.entries
         /\ st.max_entries = old.max_entries
         /\ st.max_value_bytes = old.max_value_bytes
  BY DEF StorageType

LEMMA InternStep ==
  ASSUME IInv, NEW r \in Reads, NEW s \in Strings, Intern(r, s)
  PROVE  IInv'
  <1>. DEFINE cache == Cached(storage[r].cache, INTERN_VALUE_CACHE_ENTRY_COUNT_MAX, s)
              st == [storage[r] EXCEPT !.cache = cache]
              a == IF s \in cache THEN Answer("interned", 0) ELSE Copied
  <1>1. Fits(storage[r], answer[r], NoString)
    BY OneRead DEF Intern, Running
  <1>2. cache \in SUBSET Strings /\ storage[r] \in StorageType
    BY <1>1 DEF Fits, StorageType, Cached
  <1>3. a \in AnswerType /\ a.kind # "static"
    BY DEF Answer, AnswerType, Copied
  <1>4. /\ storage' = [storage EXCEPT ![r] = st]
        /\ answer' = [answer EXCEPT ![r] = [answer[r] EXCEPT ![s] = a]]
        /\ waiting' = [waiting EXCEPT ![r] = NoString]
        /\ heap' = heap /\ registry' = registry
    <2>1. storage' = [storage EXCEPT ![r] = st]
      BY DEF Intern
    <2>2. answer' = [answer EXCEPT ![r][s] = a]
      BY DEF Intern, Gives
    <2>. HIDE DEF a, st
    <2>. QED BY <2>1, <2>2, OneRead DEF Intern, Running
  <1>. HIDE DEF cache, a
  <1>5. Fits(st, answer[r], NoString)
    BY <1>1, <1>2, CacheChanges, SameSlices
  <1>. HIDE DEF st
  <1>6. Fits(st, [answer[r] EXCEPT ![s] = a], NoString)
    BY <1>3, <1>5, Answered
  <1>. QED
    BY <1>4, <1>6, QuietStep

LEMMA KeyStep ==
  ASSUME IInv, NEW r \in Reads, NEW name \in Names, Key(r, name)
  PROVE  IInv'
  <1>. DEFINE keys == Cached(storage[r].keys, KEY_CACHE_ENTRY_COUNT_MAX, name)
              st == [storage[r] EXCEPT !.keys = keys]
  <1>1. Fits(storage[r], answer[r], NoString)
    BY OneRead DEF Key, Running
  <1>2. keys \in SUBSET Names /\ storage[r] \in StorageType
    BY <1>1 DEF Fits, StorageType, Cached
  <1>3. storage' = [storage EXCEPT ![r] = st]
    BY DEF Key
  <1>4. /\ answer' = [answer EXCEPT ![r] = answer[r]]
        /\ waiting' = [waiting EXCEPT ![r] = NoString]
        /\ heap' = heap /\ registry' = registry
    BY OneRead DEF Key, Running
  <1>. HIDE DEF keys
  <1>5. Fits(st, answer[r], NoString)
    BY <1>1, <1>2, CacheChanges, SameSlices
  <1>. HIDE DEF st
  <1>. QED
    BY <1>3, <1>4, <1>5, QuietStep

LEMMA ShareLocallyStep ==
  ASSUME IInv, NEW r \in Reads, NEW s \in Strings, ShareLocally(r, s)
  PROVE  IInv'
  <1>. DEFINE st == LocalStorage(storage[r], s)
  <1>1. PICK a \in LocalAnswer(storage[r], s) : answer' = [answer EXCEPT ![r][s] = a]
    BY DEF ShareLocally, Gives
  <1>2. Fits(storage[r], answer[r], NoString)
    BY OneRead DEF ShareLocally, Running
  <1>3. /\ st \in StorageType
        /\ st.mode = storage[r].mode /\ st.entries = storage[r].entries
        /\ st.max_entries = storage[r].max_entries
        /\ st.max_value_bytes = storage[r].max_value_bytes
    BY <1>2, Remembered DEF LocalStorage, Fits
  <1>4. /\ a \in AnswerType
        /\ a.kind = "static" => a.slice \in storage[r].entries /\ heap[a.slice] = s
    <2>1. CASE a = Copied
      BY <2>1 DEF Copied, Answer, AnswerType
    <2>2. CASE \E slice \in Get(storage[r].entries, s) : a = Answer("static", slice)
      BY <1>2, <2>2 DEF Answer, AnswerType, StorageType, Get, Fits
    <2>. QED BY <1>1, <2>1, <2>2 DEF LocalAnswer
  <1>5. /\ storage' = [storage EXCEPT ![r] = st]
        /\ heap' = heap /\ registry' = registry
    BY DEF ShareLocally
  <1>6. /\ waiting' = [waiting EXCEPT ![r] = NoString]
        /\ answer' = [answer EXCEPT ![r] = [answer[r] EXCEPT ![s] = a]]
    BY <1>1, OneRead DEF ShareLocally, Running
  <1>. HIDE DEF st
  <1>7. Fits(st, answer[r], NoString)
    BY <1>2, <1>3, SameSlices
  <1>8. Fits(st, [answer[r] EXCEPT ![s] = a], NoString)
    BY <1>3, <1>4, <1>7, Answered
  <1>. QED
    BY <1>5, <1>6, <1>8, QuietStep

\* A read without slices and without answers fits any budget.
LEMMA FreshRead ==
  ASSUME NEW mode \in {"ended", "copy", "intern", "shared"},
         NEW budget \in (Nat \ {0}) \X (Nat \ {0}),
         NEW ans \in [Strings -> AnswerType],
         \A s \in Strings : ans[s].kind # "static"
  PROVE  Fits(NewStorage(mode, budget), ans, NoString)
  <1>. DEFINE st == NewStorage(mode, budget)
  <1>1. /\ st \in StorageType /\ st.entries = {} /\ st.max_entries \in Nat
    BY EndedStorage
  <1>. HIDE DEF st
  <1>2. IsFiniteSet(st.entries) /\ Cardinality(st.entries) <= st.max_entries
    BY <1>1, FS_EmptySet
  <1>3. Fits(st, ans, NoString)
    BY <1>1, <1>2 DEF Fits
  <1>. QED
    BY <1>3 DEF st

LEMMA BeginStep ==
  ASSUME IInv, NEW r \in Reads, Begin(r)
  PROVE  IInv'
  <1>1. PICK mode \in {"copy", "intern", "shared"}, budget \in (Nat \ {0}) \X (Nat \ {0}) :
          storage' = [storage EXCEPT ![r] = NewStorage(mode, budget)]
    <2>1. <<1, 1>> \in (Nat \ {0}) \X (Nat \ {0})
      OBVIOUS
    <2>. QED BY <2>1, StorageAssumption DEF Begin
  <1>2. /\ Fits(storage[r], answer[r], waiting[r]) /\ storage[r].mode = "ended"
        /\ heap' = heap /\ registry' = registry
        /\ waiting' = [waiting EXCEPT ![r] = waiting[r]]
        /\ answer' = [answer EXCEPT ![r] = answer[r]]
    BY OneRead DEF Begin
  <1>3. /\ waiting[r] = NoString /\ answer[r] \in [Strings -> AnswerType]
        /\ \A s \in Strings : answer[r][s].kind # "static"
    BY <1>2 DEF Fits
  <1>4. Fits(NewStorage(mode, budget), answer[r], NoString)
    BY <1>3, FreshRead
  <1>. QED
    BY <1>1, <1>2, <1>3, <1>4, QuietStep

LEMMA EndStep ==
  ASSUME IInv, NEW r \in Reads, End(r)
  PROVE  IInv'
  <1>. DEFINE none == [s \in Strings |-> NoAnswer]
  <1>1. /\ heap' = heap /\ registry' = registry
        /\ storage' = [storage EXCEPT ![r] = Ended]
        /\ waiting' = [waiting EXCEPT ![r] = NoString]
        /\ answer' = [answer EXCEPT ![r] = none]
    BY OneRead DEF End, Running
  <1>2. none \in [Strings -> AnswerType] /\ \A s \in Strings : none[s].kind # "static"
    BY DEF NoAnswer, Answer, AnswerType
  <1>. HIDE DEF none
  <1>3. Fits(Ended, none, NoString)
    <2>1. <<1, 1>> \in (Nat \ {0}) \X (Nat \ {0})
      OBVIOUS
    <2>. QED BY <1>2, <2>1, FreshRead DEF Ended
  <1>. QED
    BY <1>1, <1>3, QuietStep

LEMMA ShareStep ==
  ASSUME IInv, NEW r \in Reads, NEW s \in Strings, Share(r, s)
  PROVE  IInv'
  <1>1. /\ heap' = heap /\ registry' = registry
        /\ storage' = [storage EXCEPT ![r] = storage[r]]
        /\ waiting' = [waiting EXCEPT ![r] = s]
        /\ answer' = [answer EXCEPT ![r] = answer[r]]
    BY OneRead DEF Share
  <1>2. /\ Fits(storage[r], answer[r], NoString) /\ storage[r].mode = "shared"
    BY OneRead DEF Share, Running
  <1>3. /\ ~(Size[s] > storage[r].max_value_bytes)
        /\ ~(Cardinality(storage[r].entries) >= storage[r].max_entries)
    BY DEF Share, LocalAnswer
  <1>4. /\ Size[s] \in Nat /\ storage[r].max_value_bytes \in Nat
        /\ storage[r].max_entries \in Nat /\ Cardinality(storage[r].entries) \in Nat
    BY <1>2, StorageAssumption, FS_CardinalityType DEF Fits, StorageType
  <1>5. Fits(storage[r], answer[r], s)
    BY <1>2, <1>3, <1>4 DEF Fits
  <1>. QED
    BY <1>1, <1>5, QuietStep

\* A read that waited gets a slice with the string it waited for.
GivenOneMore ==
  \A old, ans : \A s \in Strings, slice \in Slices :
    Fits(old, ans, s) /\ s # NoString /\ heap[slice] = s =>
      Fits([old EXCEPT !.entries = old.entries \cup {slice}],
           [ans EXCEPT ![s] = Answer("static", slice)], NoString)

LEMMA SliceAdded == GivenOneMore
  <1> SUFFICES ASSUME NEW old, NEW ans, NEW s \in Strings, NEW slice \in Slices,
                      Fits(old, ans, s), s # NoString, heap[slice] = s
               PROVE  Fits([old EXCEPT !.entries = old.entries \cup {slice}],
                           [ans EXCEPT ![s] = Answer("static", slice)], NoString)
    BY DEF GivenOneMore
  <1>. DEFINE entries == old.entries \cup {slice}
              st == [old EXCEPT !.entries = entries]
  <1>1. old \in StorageType /\ entries \in SUBSET Slices
    BY DEF Fits, StorageType
  <1>2. /\ IsFiniteSet(old.entries) /\ Cardinality(old.entries) < old.max_entries
        /\ Size[s] <= old.max_value_bytes /\ old.mode = "shared"
        /\ old.max_entries \in Nat
    BY <1>1 DEF Fits, StorageType
  <1>3. /\ IsFiniteSet(entries)
        /\ Cardinality(entries) <= old.max_entries
    <2>1. Cardinality(old.entries) \in Nat
      BY <1>2, FS_CardinalityType
    <2>2. /\ IsFiniteSet(entries)
          /\ \/ Cardinality(entries) = Cardinality(old.entries)
             \/ Cardinality(entries) = Cardinality(old.entries) + 1
      BY <1>2, FS_AddElement
    <2>. QED BY <1>2, <2>1, <2>2
  <1>4. \A i \in entries : Size[heap[i]] <= old.max_value_bytes
    BY <1>2 DEF Fits
  <1>5. old.entries \subseteq entries /\ slice \in entries
    OBVIOUS
  <1>. HIDE DEF entries
  <1>6. /\ st \in StorageType /\ st.entries = entries /\ st.mode = "shared"
        /\ st.max_entries = old.max_entries
        /\ st.max_value_bytes = old.max_value_bytes
    BY <1>1, <1>2 DEF StorageType, entries
  <1>7. Fits(st, ans, NoString)
    BY <1>3, <1>4, <1>5, <1>6 DEF Fits
  <1>. DEFINE a == Answer("static", slice)
  <1>8. a \in AnswerType /\ a.slice = slice
    BY DEF Answer, AnswerType
  <1>9. a.slice \in st.entries /\ heap[a.slice] = s
    BY <1>5, <1>6, <1>8
  <1>. HIDE DEF a, st
  <1>10. Fits(st, [ans EXCEPT ![s] = a], NoString)
    BY <1>7, <1>8, <1>9, Answered
  <1>. QED
    BY <1>10 DEF a, st, entries

\* The same in the next state.
LEMMA SliceAddedNext == GivenOneMore'
  BY SliceAdded, PTL

LEMMA WaitingRead ==
  ASSUME IInv, NEW r \in Reads, waiting[r] # NoString
  PROVE  waiting[r] \in Strings /\ Fits(storage[r], answer[r], waiting[r])
  BY OneRead DEF Fits

LEMMA ShareRegisteredStep ==
  ASSUME IInv, NEW r \in Reads, ShareRegistered(r)
  PROVE  IInv'
  <1>. DEFINE s == waiting[r]
  <1>1. s \in Strings /\ s # NoString /\ Fits(storage[r], answer[r], s)
    BY WaitingRead DEF ShareRegistered
  <1>2. PICK slice \in Registered(s) :
          /\ storage' = [storage EXCEPT ![r].entries = @ \cup {slice}]
          /\ Gives(r, s, Answer("static", slice))
    BY DEF ShareRegistered
  <1>3. slice \in Slices /\ heap[slice] = s
    BY <1>2 DEF Registered, Get, IInv, TypeOK
  <1>. DEFINE st == [storage[r] EXCEPT !.entries = storage[r].entries \cup {slice}]
              a == Answer("static", slice)
  <1>4. storage' = [storage EXCEPT ![r] = st] /\ answer' = [answer EXCEPT ![r][s] = a]
    BY <1>2 DEF Gives
  <1>5. Fits(st, [answer[r] EXCEPT ![s] = a], NoString)
    BY <1>1, <1>3, SliceAdded DEF GivenOneMore
  <1>. HIDE DEF a, st
  <1>6. answer' = [answer EXCEPT ![r] = [answer[r] EXCEPT ![s] = a]]
    BY <1>4, OneRead
  <1>7. /\ heap' = heap /\ registry' = registry
        /\ waiting' = [waiting EXCEPT ![r] = NoString]
    BY DEF ShareRegistered
  <1>. HIDE DEF s
  <1>. QED
    BY <1>4, <1>5, <1>6, <1>7, QuietStep

LEMMA ShareRefusedStep ==
  ASSUME IInv, NEW r \in Reads, ShareRefused(r)
  PROVE  IInv'
  <1>. DEFINE s == waiting[r]
              st == remember_fallback(storage[r], s)
  <1>1. s \in Strings /\ Fits(storage[r], answer[r], s)
    BY WaitingRead DEF ShareRefused
  <1>2. /\ storage' = [storage EXCEPT ![r] = st]
        /\ answer' = [answer EXCEPT ![r][s] = Copied]
        /\ heap' = heap /\ registry' = registry
        /\ waiting' = [waiting EXCEPT ![r] = NoString]
    BY DEF ShareRefused, Gives
  <1>3. Fits(storage[r], answer[r], NoString) /\ storage[r] \in StorageType
    BY <1>1 DEF Fits
  <1>4. /\ st \in StorageType /\ st.mode = storage[r].mode
        /\ st.entries = storage[r].entries
        /\ st.max_entries = storage[r].max_entries
        /\ st.max_value_bytes = storage[r].max_value_bytes
    BY <1>1, <1>3, Remembered
  <1>. HIDE DEF st, s
  <1>5. Fits(st, answer[r], NoString)
    BY <1>3, <1>4, SameSlices
  <1>6. Copied \in AnswerType /\ Copied.kind # "static"
    BY DEF Copied, Answer, AnswerType
  <1>7. Fits(st, [answer[r] EXCEPT ![s] = Copied], NoString)
    BY <1>1, <1>5, <1>6, Answered
  <1>8. answer' = [answer EXCEPT ![r] = [answer[r] EXCEPT ![s] = Copied]]
    BY <1>2, OneRead
  <1>. QED
    BY <1>2, <1>7, <1>8, QuietStep

LEMMA UpToN ==
  ASSUME NEW n \in Nat
  PROVE  IsFiniteSet(1 .. n) /\ Cardinality(1 .. n) = n
  <1>1. /\ IsFiniteSet(1 .. n)
        /\ Cardinality(1 .. n) = IF 1 > n THEN 0 ELSE n - 1 + 1
    BY FS_Interval
  <1>2. CASE n = 0
    BY <1>1, <1>2
  <1>3. CASE n # 0
    BY <1>1, <1>3
  <1>. QED BY <1>2, <1>3

\* The step that leaks: the ceilings leave room and the string is new.
LEMMA ShareLeakedStep ==
  ASSUME IInv, NEW r \in Reads, ShareLeaked(r)
  PROVE  IInv'
  <1>0. PICK old, ans, s, slice : /\ old = storage[r] /\ ans = answer[r]
                                  /\ s = waiting[r] /\ slice = Len(heap) + 1
    OBVIOUS
  <1>. DEFINE st == [old EXCEPT !.entries = old.entries \cup {slice}]
              a == Answer("static", slice)
              new == [ans EXCEPT ![s] = a]
  <1>1. s \in Strings /\ s # NoString /\ Fits(old, ans, s)
    BY <1>0, WaitingRead DEF ShareLeaked
  <1>2. /\ heap \in Seq(Strings)
        /\ registry \in [entries : SUBSET Slices, leaked_bytes : Nat]
        /\ registry.entries = Slices
        /\ Len(heap) \in Nat
    BY DEF IInv, TypeOK, RegistryBelowCeilings
  <1>3. heap' = Append(heap, s)
    BY <1>0 DEF ShareLeaked
  <1>4. /\ heap' \in Seq(Strings) /\ Len(heap') = Len(heap) + 1
        /\ heap'[slice] = s
        /\ \A i \in Slices : heap'[i] = heap[i]
    BY <1>0, <1>1, <1>2, <1>3 DEF Slices
  <1>5. Slices' = Slices \cup {slice} /\ slice \notin Slices
    BY <1>0, <1>2, <1>4 DEF Slices
  <1>6. /\ registry'.entries = registry.entries \cup {slice}
        /\ registry'.leaked_bytes = registry.leaked_bytes + entry_bytes(s)
        /\ registry' \in [entries : SUBSET Slices', leaked_bytes : Nat]
    <2>1. entry_bytes(s) \in Nat
      BY <1>1, StorageAssumption DEF entry_bytes
    <2>2. registry' = [entries |-> registry.entries \cup {slice},
                       leaked_bytes |-> registry.leaked_bytes + entry_bytes(s)]
      BY <1>0 DEF ShareLeaked, Leaked, LeakedSlice
    <2>3. registry.leaked_bytes + entry_bytes(s) \in Nat
      BY <1>2, <2>1
    <2>4. registry.entries \cup {slice} \in SUBSET Slices'
      BY <1>2, <1>5
    <2>. QED BY <2>2, <2>3, <2>4
  <1>7. RegistryBelowCeilings'
    <2>1. Admits(s, old.max_entries, old.max_value_bytes)
      BY <1>0 DEF ShareLeaked
    <2>2. IsFiniteSet(Slices) /\ Cardinality(Slices) = Len(heap)
      <3>. PICK n \in Nat : n = Len(heap)
        BY <1>2
      <3>1. IsFiniteSet(1 .. n) /\ Cardinality(1 .. n) = n
        BY UpToN
      <3>. QED BY <3>1 DEF Slices
    <2>3. Len(heap) < SHARED_PROCESS_MAX_ENTRIES
      <3>1. Len(heap) < Lesser(old.max_entries, SHARED_PROCESS_MAX_ENTRIES)
        BY <1>2, <2>1, <2>2 DEF Admits, entry_limit
      <3>2. old.max_entries \in Nat /\ SHARED_PROCESS_MAX_ENTRIES \in Nat
        BY <1>1, StorageAssumption DEF Fits, StorageType
      <3>. QED BY <1>2, <3>1, <3>2 DEF Lesser
    <2>4. registry.leaked_bytes + entry_bytes(s) <= SHARED_PROCESS_MAX_BYTES
      <3>. DEFINE b == saturating_mul(old.max_entries,
                                      saturating_add(old.max_value_bytes, 1))
      <3>1. saturating_add(registry.leaked_bytes, entry_bytes(s)) <=
              Lesser(b, SHARED_PROCESS_MAX_BYTES)
        BY <2>1 DEF Admits, byte_limit
      <3>2. /\ entry_bytes(s) \in Nat /\ registry.leaked_bytes \in Nat
            /\ SHARED_PROCESS_MAX_BYTES \in Nat /\ UsizeMax \in Nat
            /\ SHARED_PROCESS_MAX_BYTES < UsizeMax
        BY <1>1, <1>2, StorageAssumption DEF entry_bytes
      <3>3. b \in Int
        BY <1>1, <3>2 DEF saturating_mul, saturating_add, Lesser, Fits, StorageType
      <3>. HIDE DEF b
      <3>4. Lesser(b, SHARED_PROCESS_MAX_BYTES) <= SHARED_PROCESS_MAX_BYTES
        BY <3>2, <3>3 DEF Lesser
      <3>. QED BY <3>1, <3>2, <3>3, <3>4 DEF saturating_add, Lesser
    <2>. QED
      BY <1>2, <1>4, <1>5, <1>6, <2>3, <2>4, StorageAssumption DEF RegistryBelowCeilings
  <1>8. NoTwoAlike'
    <2>1. \A i \in Slices : heap[i] # s
      BY <1>0, <1>2 DEF ShareLeaked, Registered, Get
    <2>2. \A i, j \in Slices : heap[i] = heap[j] => i = j
      BY DEF IInv, NoTwoAlike
    <2>. QED BY <1>4, <1>5, <2>1, <2>2 DEF NoTwoAlike
  <1>9. Fits(st, new, NoString)'
    <2>1. Fits(old, ans, s)'
      <3>1. StorageType \subseteq StorageType' /\ AnswerType \subseteq AnswerType'
        BY <1>5 DEF StorageType, AnswerType
      <3>2. [Strings -> AnswerType] \subseteq [Strings -> AnswerType']
        BY <3>1
      <3>3. \A i \in old.entries : i \in Slices
        BY <1>1 DEF Fits, StorageType
      <3>4. \A i \in old.entries : heap'[i] = heap[i]
        BY <1>4, <3>3
      <3>. QED BY <1>1, <3>1, <3>2, <3>4 DEF Fits
    <2>2. slice \in Slices'
      BY <1>5
    <2>. QED BY <1>1, <1>4, <2>1, <2>2, SliceAddedNext DEF GivenOneMore
  <1>10. /\ storage' = [storage EXCEPT ![r] = st]
         /\ waiting' = [waiting EXCEPT ![r] = NoString]
    BY <1>0 DEF ShareLeaked, LeakedSlice
  <1>11. answer' = [answer EXCEPT ![r] = new]
    <2>1. answer' = [answer EXCEPT ![r][s] = a]
      BY <1>0 DEF ShareLeaked, LeakedSlice, Gives
    <2>. QED BY <1>0, <2>1, OneRead
  <1>12. Slices \subseteq Slices'
    BY <1>5
  <1>. HIDE DEF new, st
  <1>. QED
    BY <1>4, <1>6, <1>7, <1>8, <1>9, <1>10, <1>11, <1>12, ReadStep

LEMMA InitEstablishes == Init => IInv
  <1> SUFFICES ASSUME Init PROVE IInv
    OBVIOUS
  <1>1. Slices = {} /\ Len(heap) = 0 /\ heap \in Seq(Strings)
    BY EmptySeq DEF Init, Slices
  <1>. DEFINE none == [s \in Strings |-> NoAnswer]
  <1>2. none \in [Strings -> AnswerType] /\ \A s \in Strings : none[s].kind # "static"
    BY DEF NoAnswer, Answer, AnswerType
  <1>3. \A r \in Reads : /\ answer[r] = none /\ storage[r] = Ended
                         /\ waiting[r] = NoString
    BY DEF Init
  <1>. HIDE DEF none
  <1>4. Fits(Ended, none, NoString)
    BY <1>2, FreshRead DEF Ended
  <1>5. \A r \in Reads : Fits(storage[r], answer[r], waiting[r])
    BY <1>3, <1>4
  <1>6. RegistryBelowCeilings /\ NoTwoAlike
    BY <1>1, StorageAssumption DEF Init, RegistryBelowCeilings, NoTwoAlike
  <1>7. TypeOK
    <2>1. registry \in [entries : SUBSET Slices, leaked_bytes : Nat]
      BY DEF Init
    <2>2. Ended \in StorageType
      BY <1>4 DEF Fits
    <2>3. /\ storage \in [Reads -> StorageType]
          /\ waiting \in [Reads -> Strings \cup {NoString}]
      BY <2>2 DEF Init
    <2>4. answer \in [Reads -> [Strings -> AnswerType]]
      BY <1>2 DEF Init, none
    <2>. QED
      BY <1>1, <1>3, <2>1, <2>3, <2>4 DEF TypeOK
  <1>. QED
    BY <1>5, <1>6, <1>7 DEF IInv

LEMMA StepPreserves == IInv /\ [Next]_vars => IInv'
  <1> SUFFICES ASSUME IInv, [Next]_vars PROVE IInv'
    OBVIOUS
  <1>1. ASSUME NEW r \in Reads, Begin(r) PROVE IInv'
    BY <1>1, BeginStep
  <1>2. ASSUME NEW r \in Reads, End(r) PROVE IInv'
    BY <1>2, EndStep
  <1>3. ASSUME NEW r \in Reads, ShareRegistered(r) PROVE IInv'
    BY <1>3, ShareRegisteredStep
  <1>4. ASSUME NEW r \in Reads, ShareLeaked(r) PROVE IInv'
    BY <1>4, ShareLeakedStep
  <1>5. ASSUME NEW r \in Reads, ShareRefused(r) PROVE IInv'
    BY <1>5, ShareRefusedStep
  <1>6. ASSUME NEW r \in Reads, NEW s \in Strings,
               Copy(r, s) \/ Intern(r, s) \/ ShareLocally(r, s) \/ Share(r, s)
        PROVE  IInv'
    BY <1>6, CopyStep, InternStep, ShareLocallyStep, ShareStep
  <1>7. ASSUME NEW r \in Reads, NEW name \in Names, Key(r, name) PROVE IInv'
    BY <1>7, KeyStep
  <1>8. CASE UNCHANGED vars
    BY <1>8 DEF vars, IInv, TypeOK, RegistryBelowCeilings, NoTwoAlike, Fits,
                Slices, StorageType, AnswerType
  <1>. QED
    BY <1>1, <1>2, <1>3, <1>4, <1>5, <1>6, <1>7, <1>8 DEF Next

LEMMA Invariance == Spec => []IInv
  BY InitEstablishes, StepPreserves, PTL DEF Spec
----------------------------------------------------------------------------
\* Every slice points into leaked memory and only a :shared read waits for the
\* registry.
THEOREM TypeCorrect == Spec => []TypeOK
  <1>1. IInv => TypeOK
    BY DEF IInv
  <1>. QED
    BY <1>1, Invariance, PTL

\* Whatever budgets the reads of a process ask for, what it leaks stays below
\* the ceilings of the process.
THEOREM LeaksAreBounded == Spec => []RegistryBelowCeilings
  <1>1. IInv => RegistryBelowCeilings
    BY DEF IInv
  <1>. QED
    BY <1>1, Invariance, PTL

\* Reads that race for one string end up with one buffer, and each string given
\* without a copy is the one that was asked for.
THEOREM StringsLeakOnce == Spec => []LeakedOnce
  <1>1. IInv => LeakedOnce
    BY DEF IInv, NoTwoAlike, Fits, LeakedOnce
  <1>. QED
    BY <1>1, Invariance, PTL

\* A read gives no more strings without a copy, and no longer ones, than its
\* own budget says: distinct strings have distinct slices among its entries.
THEOREM BudgetsHold == Spec => []ReadBudgetHolds
  <1>1. ASSUME IInv, NEW r \in Reads
        PROVE  /\ Cardinality(Given(r)) <= storage[r].max_entries
               /\ \A s \in Given(r) : Size[s] <= storage[r].max_value_bytes
    <2>. DEFINE E == storage[r].entries
                f == [s \in Given(r) |-> answer[r][s].slice]
    <2>1. Fits(storage[r], answer[r], waiting[r])
      BY <1>1 DEF IInv
    <2>2. \A s \in Given(r) : answer[r][s].slice \in E /\ heap[answer[r][s].slice] = s
      BY <2>1 DEF Fits, Given
    <2>3. f \in [Given(r) -> E] /\ \A s, t \in Given(r) : f[s] = f[t] => s = t
      BY <2>2
    <2>4. f \in Injection(Given(r), E)
      BY <2>3 DEF Injection, IsInjective
    <2>5. IsFiniteSet(E) /\ Cardinality(E) <= storage[r].max_entries
      BY <2>1 DEF Fits
    <2>6. IsFiniteSet(Given(r)) /\ Cardinality(Given(r)) <= Cardinality(E)
      BY <2>4, <2>5, FS_Injection
    <2>7. /\ Cardinality(Given(r)) \in Nat /\ Cardinality(E) \in Nat
          /\ storage[r].max_entries \in Nat
      BY <2>1, <2>5, <2>6, FS_CardinalityType DEF Fits, StorageType
    <2>8. \A s \in Given(r) : Size[s] <= storage[r].max_value_bytes
      BY <2>1, <2>2 DEF Fits
    <2>. QED
      BY <2>5, <2>6, <2>7, <2>8
  <1>2. IInv => ReadBudgetHolds
    BY <1>1 DEF ReadBudgetHolds
  <1>. QED
    BY <1>2, Invariance, PTL
----------------------------------------------------------------------------
(* A larger budget admits more. *)

LEMMA ProductMonotone ==
  ASSUME NEW a \in Nat, NEW b \in Nat, NEW c \in Nat, NEW d \in Nat, a <= c, b <= d
  PROVE  a * b \in Nat /\ c * d \in Nat /\ a * b <= c * d
  <1>1. PICK k \in Nat, l \in Nat : c = a + k /\ d = b + l
    <2>1. c - a \in Nat /\ d - b \in Nat /\ c = a + (c - a) /\ d = b + (d - b)
      OBVIOUS
    <2>. QED BY <2>1
  <1>2. c * d = a * b + a * l + k * b + k * l
    BY <1>1
  <1>3. a * b \in Nat /\ a * l \in Nat /\ k * b \in Nat /\ k * l \in Nat
    OBVIOUS
  <1>. QED BY <1>2, <1>3

\* The byte limit grows with either part of the budget, saturation included.
LEMMA ByteLimitMonotone ==
  ASSUME NEW e \in Nat, NEW v \in Nat, NEW f \in Nat, NEW w \in Nat, e <= f, v <= w
  PROVE  /\ byte_limit(e, v) \in Int /\ byte_limit(f, w) \in Int
         /\ byte_limit(e, v) <= byte_limit(f, w)
  <1>. DEFINE p == saturating_add(v, 1)
              q == saturating_add(w, 1)
  <1>1. UsizeMax \in Nat /\ SHARED_PROCESS_MAX_BYTES \in Nat
    BY StorageAssumption
  <1>2. p \in Nat /\ q \in Nat /\ p <= q
    BY <1>1 DEF saturating_add, Lesser
  <1>. HIDE DEF p, q
  <1>3. e * p \in Nat /\ f * q \in Nat /\ e * p <= f * q
    BY <1>2, ProductMonotone
  <1>. DEFINE x == e * p
              y == f * q
  <1>4. x \in Int /\ y \in Int /\ x <= y
    BY <1>3
  <1>5. /\ byte_limit(e, v) = Lesser(Lesser(x, UsizeMax), SHARED_PROCESS_MAX_BYTES)
        /\ byte_limit(f, w) = Lesser(Lesser(y, UsizeMax), SHARED_PROCESS_MAX_BYTES)
    BY DEF byte_limit, saturating_mul, p, q
  <1>. HIDE DEF x, y
  <1>. QED BY <1>1, <1>4, <1>5 DEF Lesser

\* A larger budget admits whatever a smaller one admits, in every state of the
\* registry and at the ceilings of usize and of the process too.
THEOREM LargerBudgetsAdmitMore == Spec => []AdmissionIsMonotone
  <1>1. ASSUME IInv, NEW s \in Strings, NEW small \in Budgets, NEW large \in Budgets,
               small[1] <= large[1], small[2] <= large[2],
               Admits(s, small[1], small[2])
        PROVE  Admits(s, large[1], large[2])
    <2>1. /\ small[1] \in Nat /\ small[2] \in Nat /\ large[1] \in Nat /\ large[2] \in Nat
          /\ SHARED_PROCESS_MAX_ENTRIES \in Nat /\ UsizeMax \in Nat
          /\ Size[s] \in Nat
      BY StorageAssumption
    <2>2. Cardinality(registry.entries) \in Nat /\ registry.leaked_bytes \in Nat
      <3>1. registry.entries = Slices /\ Len(heap) \in Nat /\ registry.leaked_bytes \in Nat
        BY <1>1 DEF IInv, TypeOK, RegistryBelowCeilings
      <3>. PICK n \in Nat : n = Len(heap)
        BY <3>1
      <3>2. Cardinality(1 .. n) = n
        BY UpToN
      <3>. QED BY <3>1, <3>2 DEF Slices
    <2>3. /\ byte_limit(small[1], small[2]) \in Int
          /\ byte_limit(large[1], large[2]) \in Int
          /\ byte_limit(small[1], small[2]) <= byte_limit(large[1], large[2])
      BY <1>1, <2>1, ByteLimitMonotone
    <2>4. /\ entry_limit(small[1]) \in Int /\ entry_limit(large[1]) \in Int
          /\ entry_limit(small[1]) <= entry_limit(large[1])
      BY <1>1, <2>1 DEF entry_limit, Lesser
    <2>5. saturating_add(registry.leaked_bytes, entry_bytes(s)) \in Int
      BY <2>1, <2>2 DEF saturating_add, entry_bytes, Lesser
    <2>. QED
      BY <1>1, <2>2, <2>3, <2>4, <2>5 DEF Admits
  <1>2. IInv => AdmissionIsMonotone
    BY <1>1 DEF AdmissionIsMonotone
  <1>. QED
    BY <1>2, Invariance, PTL
----------------------------------------------------------------------------
(* Answers are stable. *)

\* What the answers of a read tell of its caches: a string that was interned is in
\* the cache, one that was copied is in no cache that could give it now, and a
\* string that a read waits for is not known to it.
Consistent(st, ans, w) ==
  /\ st.mode = "ended" => \A s \in Strings : ans[s] = NoAnswer
  /\ st.mode = "copy" => \A s \in Strings : ans[s] \in {NoAnswer, Answer("copy", 0)}
  /\ st.mode = "intern" => \A s \in Strings :
       \/ ans[s] = NoAnswer
       \/ ans[s] = Answer("interned", 0) /\ s \in st.cache
       \/ /\ ans[s] = Copied /\ s \notin st.cache
          /\ ~(Cardinality(st.cache) < INTERN_VALUE_CACHE_ENTRY_COUNT_MAX)
  /\ st.mode = "shared" => \A s \in Strings :
       \/ ans[s] = NoAnswer
       \/ \E slice \in st.entries : ans[s] = Answer("static", slice)
       \/ ans[s] = Copied /\ Get(st.entries, s) = {}
  /\ w # NoString => Get(st.entries, w) = {} /\ w \notin st.fallbacks

AllConsistent == \A r \in Reads : Consistent(storage[r], answer[r], waiting[r])

\* A read that was in st with answers ans has the answers new now.
Keep(st, ans, new) ==
  \A s \in Strings : ans[s] # NoAnswer =>
    \/ new[s] = ans[s]
    \/ st.mode = "shared" /\ ans[s] = Copied /\ s \notin st.fallbacks

\* What AnswersAreStable says of a step.
Stay ==
  \A r \in Reads, s \in Strings :
    /\ answer[r][s] # NoAnswer
    /\ storage'[r].mode # "ended"
    => \/ answer'[r][s] = answer[r][s]
       \/ storage[r].mode = "shared" /\ answer[r][s] = Copied
            /\ s \notin storage[r].fallbacks

\* A step of one read leaves the others' answers and slices alone.
LEMMA OneReadStays ==
  ASSUME IInv, AllConsistent, NEW r \in Reads, NEW st, NEW ans, NEW w,
         storage' = [storage EXCEPT ![r] = st],
         answer' = [answer EXCEPT ![r] = ans],
         waiting' = [waiting EXCEPT ![r] = w],
         \A i \in Slices : heap'[i] = heap[i],
         Consistent(st, ans, w)',
         st.mode # "ended" => Keep(storage[r], answer[r], ans)
  PROVE  AllConsistent' /\ Stay
  <1>1. /\ storage \in [Reads -> StorageType]
        /\ waiting \in [Reads -> Strings \cup {NoString}]
        /\ answer \in [Reads -> [Strings -> AnswerType]]
    BY DEF IInv, TypeOK
  <1>2. /\ storage'[r] = st /\ answer'[r] = ans /\ waiting'[r] = w
        /\ \A q \in Reads \ {r} : /\ storage'[q] = storage[q] /\ answer'[q] = answer[q]
                                  /\ waiting'[q] = waiting[q]
    BY <1>1
  <1>3. ASSUME NEW q \in Reads
        PROVE  Consistent(storage[q], answer[q], waiting[q])'
    <2>1. CASE q = r
      BY <1>2, <2>1 DEF Consistent
    <2>2. CASE q # r
      <3>1. Consistent(storage[q], answer[q], waiting[q])
        BY DEF AllConsistent
      <3>2. \A slice \in storage[q].entries : slice \in Slices
        BY <1>1 DEF StorageType
      <3>3. \A s \in Strings : Get(storage[q].entries, s) = {}
                                 => Get(storage[q].entries, s)' = {}
        BY <1>2, <2>2, <3>2 DEF Get
      <3>4. waiting[q] # NoString => waiting[q] \in Strings
        BY <1>1
      <3>5. storage'[q] = storage[q] /\ answer'[q] = answer[q] /\ waiting'[q] = waiting[q]
        BY <1>2, <2>2
      <3>. QED BY <3>1, <3>3, <3>4, <3>5 DEF Consistent
    <2>. QED BY <2>1, <2>2
  <1>4. Stay
    BY <1>2 DEF Stay, Keep
  <1>. QED BY <1>3, <1>4 DEF AllConsistent

\* The same for a step that leaks nothing.
LEMMA QuietStays ==
  ASSUME IInv, AllConsistent, NEW r \in Reads, NEW st, NEW ans, NEW w,
         storage' = [storage EXCEPT ![r] = st],
         answer' = [answer EXCEPT ![r] = ans],
         waiting' = [waiting EXCEPT ![r] = w],
         heap' = heap,
         Consistent(st, ans, w),
         st.mode # "ended" => Keep(storage[r], answer[r], ans)
  PROVE  AllConsistent' /\ Stay
  <1>1. Consistent(st, ans, w)'
    BY DEF Consistent, Get
  <1>2. \A i \in Slices : heap'[i] = heap[i]
    OBVIOUS
  <1>. QED BY <1>1, <1>2, OneReadStays

LEMMA ThisRead ==
  ASSUME IInv, AllConsistent, NEW r \in Reads
  PROVE  /\ Consistent(storage[r], answer[r], waiting[r])
         /\ storage[r] \in StorageType
         /\ answer[r] \in [Strings -> AnswerType]
         /\ waiting[r] \in Strings \cup {NoString}
  BY DEF IInv, TypeOK, AllConsistent

LEMMA BeginStays ==
  ASSUME IInv, AllConsistent, NEW r \in Reads, Begin(r)
  PROVE  AllConsistent' /\ Stay
  <1>1. PICK mode, budget :
          storage' = [storage EXCEPT ![r] = NewStorage(mode, budget)]
    BY DEF Begin
  <1>2. /\ heap' = heap
        /\ waiting' = [waiting EXCEPT ![r] = waiting[r]]
        /\ answer' = [answer EXCEPT ![r] = answer[r]]
        /\ waiting[r] = NoString
        /\ \A s \in Strings : answer[r][s] = NoAnswer
    BY OneRead, ThisRead DEF Begin, Consistent, Fits
  <1>3. Consistent(NewStorage(mode, budget), answer[r], waiting[r])
    BY <1>2 DEF Consistent, NewStorage
  <1>4. Keep(storage[r], answer[r], answer[r])
    BY DEF Keep
  <1>. QED BY <1>1, <1>2, <1>3, <1>4, QuietStays

LEMMA EndStays ==
  ASSUME IInv, AllConsistent, NEW r \in Reads, End(r)
  PROVE  AllConsistent' /\ Stay
  <1>. DEFINE none == [s \in Strings |-> NoAnswer]
  <1>1. /\ heap' = heap
        /\ storage' = [storage EXCEPT ![r] = Ended]
        /\ waiting' = [waiting EXCEPT ![r] = NoString]
        /\ answer' = [answer EXCEPT ![r] = none]
    BY OneRead DEF End, Running
  <1>2. \A s \in Strings : none[s] = NoAnswer
    OBVIOUS
  <1>. HIDE DEF none
  <1>3. Consistent(Ended, none, NoString) /\ Ended.mode = "ended"
    BY <1>2 DEF Consistent, Ended, NewStorage
  <1>. QED BY <1>1, <1>3, QuietStays

LEMMA CopyStays ==
  ASSUME IInv, AllConsistent, NEW r \in Reads, NEW s \in Strings, Copy(r, s)
  PROVE  AllConsistent' /\ Stay
  <1>. DEFINE a == Answer("copy", 0)
              new == [answer[r] EXCEPT ![s] = a]
  <1>1. /\ answer' = [answer EXCEPT ![r] = new]
        /\ waiting' = [waiting EXCEPT ![r] = NoString]
        /\ storage' = [storage EXCEPT ![r] = storage[r]]
        /\ heap' = heap
        /\ storage[r].mode = "copy" /\ waiting[r] = NoString
    BY OneRead DEF Copy, Running, Gives
  <1>2. \A t \in Strings : new[t] = IF t = s THEN a ELSE answer[r][t]
    BY ThisRead
  <1>3. \A t \in Strings : answer[r][t] \in {NoAnswer, a}
    BY <1>1, ThisRead DEF Consistent
  <1>. HIDE DEF a, new
  <1>4. Keep(storage[r], answer[r], new)
    BY <1>2, <1>3 DEF Keep
  <1>5. Consistent(storage[r], new, NoString)
    BY <1>1, <1>2, <1>3 DEF Consistent, a
  <1>. QED BY <1>1, <1>4, <1>5, QuietStays

LEMMA KeyStays ==
  ASSUME IInv, AllConsistent, NEW r \in Reads, NEW name \in Names, Key(r, name)
  PROVE  AllConsistent' /\ Stay
  <1>. DEFINE keys == Cached(storage[r].keys, KEY_CACHE_ENTRY_COUNT_MAX, name)
              st == [storage[r] EXCEPT !.keys = keys]
  <1>1. storage' = [storage EXCEPT ![r] = st]
    BY DEF Key
  <1>2. /\ answer' = [answer EXCEPT ![r] = answer[r]]
        /\ waiting' = [waiting EXCEPT ![r] = NoString]
        /\ heap' = heap /\ waiting[r] = NoString
    BY OneRead DEF Key, Running
  <1>. HIDE DEF keys
  <1>3. /\ st.mode = storage[r].mode /\ st.entries = storage[r].entries
        /\ st.cache = storage[r].cache
    BY ThisRead DEF StorageType
  <1>. HIDE DEF st
  <1>4. Consistent(st, answer[r], NoString)
    BY <1>2, <1>3, ThisRead DEF Consistent
  <1>5. Keep(storage[r], answer[r], answer[r])
    BY DEF Keep
  <1>. QED BY <1>1, <1>2, <1>4, <1>5, QuietStays

\* A string found in the cache or added to it was not copied before, since a
\* cache that has room copies nothing.
LEMMA InternStays ==
  ASSUME IInv, AllConsistent, NEW r \in Reads, NEW s \in Strings, Intern(r, s)
  PROVE  AllConsistent' /\ Stay
  <1>. DEFINE old == storage[r].cache
              cache == Cached(old, INTERN_VALUE_CACHE_ENTRY_COUNT_MAX, s)
              st == [storage[r] EXCEPT !.cache = cache]
              a == IF s \in cache THEN Answer("interned", 0) ELSE Copied
              new == [answer[r] EXCEPT ![s] = a]
  <1>1. /\ storage' = [storage EXCEPT ![r] = st]
        /\ waiting' = [waiting EXCEPT ![r] = NoString]
        /\ heap' = heap
        /\ storage[r].mode = "intern" /\ waiting[r] = NoString
    BY OneRead DEF Intern, Running
  <1>2. answer' = [answer EXCEPT ![r] = new]
    <2>1. answer' = [answer EXCEPT ![r][s] = a]
      BY DEF Intern, Gives
    <2>. HIDE DEF a
    <2>. QED BY <2>1, OneRead
  <1>3. \A t \in Strings : new[t] = IF t = s THEN a ELSE answer[r][t]
    BY ThisRead
  <1>4. \A t \in Strings :
          \/ answer[r][t] = NoAnswer
          \/ answer[r][t] = Answer("interned", 0) /\ t \in old
          \/ /\ answer[r][t] = Copied /\ t \notin old
             /\ ~(Cardinality(old) < INTERN_VALUE_CACHE_ENTRY_COUNT_MAX)
    BY <1>1, ThisRead DEF Consistent
  <1>5. \/ s \notin old /\ Cardinality(old) < INTERN_VALUE_CACHE_ENTRY_COUNT_MAX
             /\ cache = old \cup {s}
        \/ s \in old /\ cache = old
        \/ s \notin old /\ cache = old
             /\ ~(Cardinality(old) < INTERN_VALUE_CACHE_ENTRY_COUNT_MAX)
    BY DEF Cached
  <1>6. st.mode = "intern" /\ st.cache = cache
    BY <1>1, ThisRead DEF StorageType
  <1>7. a = IF s \in cache THEN Answer("interned", 0) ELSE Copied
    OBVIOUS
  <1>. HIDE DEF old, cache, st, a, new
  <1>8. Keep(storage[r], answer[r], new)
    BY <1>3, <1>4, <1>5, <1>7 DEF Keep
  <1>9. Consistent(st, new, NoString)
    <2>1. ASSUME NEW t \in Strings
          PROVE  \/ new[t] = NoAnswer
                 \/ new[t] = Answer("interned", 0) /\ t \in cache
                 \/ /\ new[t] = Copied /\ t \notin cache
                    /\ ~(Cardinality(cache) < INTERN_VALUE_CACHE_ENTRY_COUNT_MAX)
      BY <1>3, <1>4, <1>5, <1>7
    <2>. QED BY <1>6, <2>1 DEF Consistent
  <1>. QED BY <1>1, <1>2, <1>8, <1>9, QuietStays

LEMMA RememberedEntries ==
  ASSUME NEW st \in StorageType, NEW s
  PROVE  /\ remember_fallback(st, s).entries = st.entries
         /\ remember_fallback(st, s).mode = st.mode
  BY DEF remember_fallback, StorageType

\* The slices of a :shared read and its answers, with one more answer.
LEMMA SharedAnswer ==
  ASSUME NEW old \in StorageType, NEW ans \in [Strings -> AnswerType],
         Consistent(old, ans, NoString), old.mode = "shared",
         NEW s \in Strings, NEW st, st.mode = "shared", st.entries = old.entries,
         NEW a,
         \/ \E slice \in old.entries : a = Answer("static", slice)
         \/ a = Copied /\ Get(old.entries, s) = {}
  PROVE  Consistent(st, [ans EXCEPT ![s] = a], NoString)
  <1>. DEFINE new == [ans EXCEPT ![s] = a]
  <1>1. \A t \in Strings : new[t] = IF t = s THEN a ELSE ans[t]
    OBVIOUS
  <1>2. \A t \in Strings :
          \/ ans[t] = NoAnswer
          \/ \E slice \in old.entries : ans[t] = Answer("static", slice)
          \/ ans[t] = Copied /\ Get(old.entries, t) = {}
    BY DEF Consistent
  <1>. HIDE DEF new
  <1>3. ASSUME NEW t \in Strings
        PROVE  \/ new[t] = NoAnswer
               \/ \E slice \in st.entries : new[t] = Answer("static", slice)
               \/ new[t] = Copied /\ Get(st.entries, t) = {}
    BY <1>1, <1>2
  <1>4. Consistent(st, new, NoString)
    BY <1>3 DEF Consistent
  <1>. QED BY <1>4 DEF new

\* The kind of an answer tells a slice from a copy.
LEMMA KindsDiffer ==
  ASSUME NEW slice
  PROVE  /\ Answer("static", slice).kind = "static"
         /\ Answer("static", slice).slice = slice
         /\ Copied.kind = "frozen_copy" /\ NoAnswer.kind = "none"
         /\ Answer("static", slice) # Copied /\ Answer("static", slice) # NoAnswer
         /\ Copied # NoAnswer
  BY DEF Answer, Copied, NoAnswer

\* The read gives the slice it gave before, there being only one with the string, or
\* a copy of a string of which it has no slice.
LEMMA ShareLocallyStays ==
  ASSUME IInv, AllConsistent, NEW r \in Reads, NEW s \in Strings, ShareLocally(r, s)
  PROVE  AllConsistent' /\ Stay
  <1>. DEFINE st == LocalStorage(storage[r], s)
  <1>1. PICK a \in LocalAnswer(storage[r], s) : answer' = [answer EXCEPT ![r][s] = a]
    BY DEF ShareLocally, Gives
  <1>. DEFINE new == [answer[r] EXCEPT ![s] = a]
  <1>2. /\ storage' = [storage EXCEPT ![r] = st] /\ heap' = heap
        /\ storage[r].mode = "shared" /\ waiting[r] = NoString
        /\ waiting' = [waiting EXCEPT ![r] = NoString]
        /\ answer' = [answer EXCEPT ![r] = new]
    BY <1>1, OneRead DEF ShareLocally, Running
  <1>3. /\ Consistent(storage[r], answer[r], NoString)
        /\ Fits(storage[r], answer[r], NoString)
        /\ storage[r] \in StorageType /\ answer[r] \in [Strings -> AnswerType]
    BY <1>2, ThisRead, OneRead
  <1>4. st.mode = "shared" /\ st.entries = storage[r].entries
    BY <1>2, <1>3, RememberedEntries DEF LocalStorage
  <1>5. \/ \E slice \in Get(storage[r].entries, s) : a = Answer("static", slice)
        \/ a = Copied /\ Get(storage[r].entries, s) = {}
    BY <1>1 DEF LocalAnswer
  <1>6. \A slice \in Get(storage[r].entries, s) :
          slice \in storage[r].entries /\ slice \in Slices /\ heap[slice] = s
    BY <1>3 DEF Get, StorageType
  <1>. HIDE DEF st
  <1>7. Consistent(st, new, NoString)
    BY <1>2, <1>3, <1>4, <1>5, <1>6, SharedAnswer
  <1>8. \A t \in Strings : new[t] = IF t = s THEN a ELSE answer[r][t]
    BY <1>3
  <1>9. answer[r][s] # NoAnswer => a = answer[r][s]
    <2>1. \/ answer[r][s] = NoAnswer
          \/ \E slice \in storage[r].entries : answer[r][s] = Answer("static", slice)
          \/ answer[r][s] = Copied /\ Get(storage[r].entries, s) = {}
      BY <1>2, <1>3 DEF Consistent
    <2>2. CASE answer[r][s] = Copied /\ Get(storage[r].entries, s) = {}
      BY <1>5, <2>2
    <2>3. CASE \E slice \in storage[r].entries : answer[r][s] = Answer("static", slice)
      <3>1. PICK given \in storage[r].entries : answer[r][s] = Answer("static", given)
        BY <2>3
      <3>2. heap[given] = s /\ given \in Slices
        <4>1. answer[r][s].kind = "static" /\ answer[r][s].slice = given
          BY <3>1, KindsDiffer
        <4>. QED BY <1>3, <3>1, <4>1 DEF Fits, StorageType
      <3>3. given \in Get(storage[r].entries, s)
        BY <3>1, <3>2 DEF Get
      <3>4. PICK slice \in Get(storage[r].entries, s) : a = Answer("static", slice)
        BY <1>5, <3>3
      <3>5. slice = given
        BY <1>6, <3>2, <3>4 DEF IInv, NoTwoAlike
      <3>. QED BY <3>1, <3>4, <3>5
    <2>. QED BY <2>1, <2>2, <2>3
  <1>. HIDE DEF new
  <1>10. Keep(storage[r], answer[r], new)
    BY <1>8, <1>9 DEF Keep
  <1>. QED BY <1>2, <1>7, <1>10, QuietStays

LEMMA ShareStays ==
  ASSUME IInv, AllConsistent, NEW r \in Reads, NEW s \in Strings, Share(r, s)
  PROVE  AllConsistent' /\ Stay
  <1>1. /\ heap' = heap
        /\ storage' = [storage EXCEPT ![r] = storage[r]]
        /\ waiting' = [waiting EXCEPT ![r] = s]
        /\ answer' = [answer EXCEPT ![r] = answer[r]]
    BY OneRead DEF Share
  <1>2. Get(storage[r].entries, s) = {} /\ s \notin storage[r].fallbacks
    BY DEF Share, LocalAnswer
  <1>3. Consistent(storage[r], answer[r], s)
    BY <1>2, ThisRead DEF Consistent
  <1>4. Keep(storage[r], answer[r], answer[r])
    BY DEF Keep
  <1>. QED BY <1>1, <1>3, <1>4, QuietStays

\* A string that is waited for was never given by this read as a slice, nor as a
\* copy that was remembered.
LEMMA NotGivenYet ==
  ASSUME IInv, AllConsistent, NEW r \in Reads, waiting[r] # NoString
  PROVE  /\ waiting[r] \in Strings /\ storage[r].mode = "shared"
         /\ Get(storage[r].entries, waiting[r]) = {}
         /\ waiting[r] \notin storage[r].fallbacks
         /\ Consistent(storage[r], answer[r], NoString)
         /\ answer[r][waiting[r]] \in {NoAnswer, Copied}
  <1>. DEFINE s == waiting[r]
  <1>1. /\ s \in Strings /\ storage[r].mode = "shared" /\ Get(storage[r].entries, s) = {}
        /\ s \notin storage[r].fallbacks /\ Consistent(storage[r], answer[r], NoString)
    BY ThisRead, WaitingRead DEF Fits, Consistent
  <1>2. ~ \E slice \in storage[r].entries : answer[r][s] = Answer("static", slice)
    <2> SUFFICES ASSUME NEW slice \in storage[r].entries,
                        answer[r][s] = Answer("static", slice)
                 PROVE  FALSE
      OBVIOUS
    <2>1. answer[r][s].kind = "static" /\ answer[r][s].slice = slice
      BY KindsDiffer
    <2>2. heap[slice] = s
      BY <1>1, <2>1, WaitingRead DEF Fits
    <2>. QED BY <1>1, <2>2 DEF Get
  <1>3. \/ answer[r][s] = NoAnswer
        \/ \E slice \in storage[r].entries : answer[r][s] = Answer("static", slice)
        \/ answer[r][s] = Copied
    BY <1>1 DEF Consistent
  <1>. QED BY <1>1, <1>2, <1>3

\* The answers when the string that was waited for has a slice now.
LEMMA SharedSlice ==
  ASSUME IInv, AllConsistent, NEW r \in Reads, waiting[r] # NoString,
         NEW slice, NEW st, NEW new,
         \A i \in Slices : heap'[i] = heap[i], heap'[slice] = waiting[r],
         st = [storage[r] EXCEPT !.entries = storage[r].entries \cup {slice}],
         new = [answer[r] EXCEPT ![waiting[r]] = Answer("static", slice)]
  PROVE  Consistent(st, new, NoString)' /\ Keep(storage[r], answer[r], new)
  <1>. DEFINE s == waiting[r]
              a == Answer("static", slice)
  <1>1. /\ s \in Strings /\ storage[r].mode = "shared"
        /\ s \notin storage[r].fallbacks /\ Consistent(storage[r], answer[r], NoString)
        /\ answer[r][s] \in {NoAnswer, Copied}
        /\ storage[r] \in StorageType /\ answer[r] \in [Strings -> AnswerType]
    BY NotGivenYet, ThisRead
  <1>2. \A t \in Strings : new[t] = IF t = s THEN a ELSE answer[r][t]
    BY <1>1
  <1>3. st.mode = "shared" /\ st.entries = storage[r].entries \cup {slice}
    BY <1>1 DEF StorageType
  <1>4. \A i \in storage[r].entries : heap'[i] = heap[i]
    BY <1>1 DEF StorageType
  <1>5. Keep(storage[r], answer[r], new)
    BY <1>1, <1>2 DEF Keep
  <1>6. ASSUME NEW t \in Strings
        PROVE  \/ new[t] = NoAnswer
               \/ \E i \in st.entries : new[t] = Answer("static", i)
               \/ new[t] = Copied /\ Get(st.entries, t)' = {}
    <2>1. CASE t = s
      BY <1>2, <1>3, <2>1
    <2>2. CASE t # s
      <3>1. new[t] = answer[r][t]
        BY <1>2, <2>2
      <3>2. Get(storage[r].entries, t) = {} => Get(st.entries, t)' = {}
        BY <1>3, <1>4, <2>2 DEF Get
      <3>3. \/ answer[r][t] = NoAnswer
            \/ \E i \in storage[r].entries : answer[r][t] = Answer("static", i)
            \/ answer[r][t] = Copied /\ Get(storage[r].entries, t) = {}
        BY <1>1 DEF Consistent
      <3>. QED BY <1>3, <3>1, <3>2, <3>3
    <2>. QED BY <2>1, <2>2
  <1>7. Consistent(st, new, NoString)'
    BY <1>3, <1>6 DEF Consistent
  <1>. QED BY <1>5, <1>7

LEMMA ShareRegisteredStays ==
  ASSUME IInv, AllConsistent, NEW r \in Reads, ShareRegistered(r)
  PROVE  AllConsistent' /\ Stay
  <1>. DEFINE s == waiting[r]
  <1>1. s \in Strings /\ s # NoString
    BY WaitingRead DEF ShareRegistered
  <1>2. PICK slice \in Registered(s) :
          /\ storage' = [storage EXCEPT ![r].entries = @ \cup {slice}]
          /\ Gives(r, s, Answer("static", slice))
    BY DEF ShareRegistered
  <1>3. heap[slice] = s
    BY <1>2 DEF Registered, Get
  <1>. DEFINE a == Answer("static", slice)
  <1>. PICK st, new :
         /\ st = [storage[r] EXCEPT !.entries = storage[r].entries \cup {slice}]
         /\ new = [answer[r] EXCEPT ![s] = a]
    OBVIOUS
  <1>4. /\ storage' = [storage EXCEPT ![r] = st]
        /\ waiting' = [waiting EXCEPT ![r] = NoString]
        /\ heap' = heap
    BY <1>2 DEF ShareRegistered
  <1>5. answer' = [answer EXCEPT ![r] = new]
    <2>1. answer' = [answer EXCEPT ![r][s] = a]
      BY <1>2 DEF Gives
    <2>. HIDE DEF a, s
    <2>. QED BY <2>1, OneRead
  <1>6. \A i \in Slices : heap'[i] = heap[i]
    BY <1>4
  <1>7. heap'[slice] = s
    BY <1>3, <1>4
  <1>8. Consistent(st, new, NoString)' /\ Keep(storage[r], answer[r], new)
    BY <1>1, <1>6, <1>7, SharedSlice
  <1>. QED BY <1>4, <1>5, <1>6, <1>8, OneReadStays

LEMMA ShareLeakedStays ==
  ASSUME IInv, AllConsistent, NEW r \in Reads, ShareLeaked(r)
  PROVE  AllConsistent' /\ Stay
  <1>0. PICK slice, s : slice = LeakedSlice(s) /\ s = waiting[r]
    OBVIOUS
  <1>1. s \in Strings /\ s # NoString
    BY <1>0, WaitingRead DEF ShareLeaked
  <1>. DEFINE a == Answer("static", slice)
  <1>. PICK st, new :
         /\ st = [storage[r] EXCEPT !.entries = storage[r].entries \cup {slice}]
         /\ new = [answer[r] EXCEPT ![s] = a]
    OBVIOUS
  <1>2. /\ storage' = [storage EXCEPT ![r] = st]
        /\ waiting' = [waiting EXCEPT ![r] = NoString]
        /\ heap' = Append(heap, s)
        /\ answer' = [answer EXCEPT ![r][s] = a]
    BY <1>0 DEF ShareLeaked, Gives, LeakedSlice
  <1>3. answer' = [answer EXCEPT ![r] = new]
    <2>. HIDE DEF a
    <2>. QED BY <1>0, <1>2, OneRead
  <1>4. heap \in Seq(Strings)
    BY DEF IInv, TypeOK
  <1>5. \A i \in Slices : heap'[i] = heap[i]
    BY <1>1, <1>2, <1>4 DEF Slices
  <1>6. heap'[slice] = s
    BY <1>0, <1>1, <1>2, <1>4 DEF LeakedSlice
  <1>7. Consistent(st, new, NoString)' /\ Keep(storage[r], answer[r], new)
    BY <1>0, <1>1, <1>5, <1>6, SharedSlice
  <1>. QED BY <1>2, <1>3, <1>5, <1>7, OneReadStays

LEMMA ShareRefusedStays ==
  ASSUME IInv, AllConsistent, NEW r \in Reads, ShareRefused(r)
  PROVE  AllConsistent' /\ Stay
  <1>. DEFINE s == waiting[r]
              st == remember_fallback(storage[r], s)
              new == [answer[r] EXCEPT ![s] = Copied]
  <1>1. /\ s \in Strings /\ storage[r].mode = "shared" /\ Get(storage[r].entries, s) = {}
        /\ Consistent(storage[r], answer[r], NoString)
        /\ answer[r][s] \in {NoAnswer, Copied}
        /\ storage[r] \in StorageType /\ answer[r] \in [Strings -> AnswerType]
    BY NotGivenYet, ThisRead DEF ShareRefused
  <1>2. /\ storage' = [storage EXCEPT ![r] = st]
        /\ answer' = [answer EXCEPT ![r][s] = Copied]
        /\ heap' = heap
        /\ waiting' = [waiting EXCEPT ![r] = NoString]
    BY DEF ShareRefused, Gives
  <1>3. answer' = [answer EXCEPT ![r] = new]
    <2>. HIDE DEF s
    <2>. QED BY <1>2, OneRead
  <1>4. st.entries = storage[r].entries /\ st.mode = "shared"
    BY <1>1, RememberedEntries
  <1>5. \A t \in Strings : new[t] = IF t = s THEN Copied ELSE answer[r][t]
    BY <1>1
  <1>. HIDE DEF st, s
  <1>6. Consistent(st, new, NoString)
    BY <1>1, <1>4, SharedAnswer
  <1>. HIDE DEF new
  <1>7. Keep(storage[r], answer[r], new)
    BY <1>1, <1>5 DEF Keep
  <1>. QED BY <1>2, <1>3, <1>6, <1>7, QuietStays

LEMMA EveryStepStays == IInv /\ AllConsistent /\ [Next]_vars => AllConsistent' /\ Stay
  <1> SUFFICES ASSUME IInv, AllConsistent, [Next]_vars PROVE AllConsistent' /\ Stay
    OBVIOUS
  <1>1. ASSUME NEW r \in Reads, Begin(r) PROVE AllConsistent' /\ Stay
    BY <1>1, BeginStays
  <1>2. ASSUME NEW r \in Reads, End(r) PROVE AllConsistent' /\ Stay
    BY <1>2, EndStays
  <1>3. ASSUME NEW r \in Reads, ShareRegistered(r) PROVE AllConsistent' /\ Stay
    BY <1>3, ShareRegisteredStays
  <1>4. ASSUME NEW r \in Reads, ShareLeaked(r) PROVE AllConsistent' /\ Stay
    BY <1>4, ShareLeakedStays
  <1>5. ASSUME NEW r \in Reads, ShareRefused(r) PROVE AllConsistent' /\ Stay
    BY <1>5, ShareRefusedStays
  <1>6. ASSUME NEW r \in Reads, NEW s \in Strings,
               Copy(r, s) \/ Intern(r, s) \/ ShareLocally(r, s) \/ Share(r, s)
        PROVE  AllConsistent' /\ Stay
    BY <1>6, CopyStays, InternStays, ShareLocallyStays, ShareStays
  <1>7. ASSUME NEW r \in Reads, NEW name \in Names, Key(r, name)
        PROVE  AllConsistent' /\ Stay
    BY <1>7, KeyStays
  <1>8. CASE UNCHANGED vars
    BY <1>8 DEF vars, AllConsistent, Consistent, Get, Stay
  <1>. QED
    BY <1>1, <1>2, <1>3, <1>4, <1>5, <1>6, <1>7, <1>8 DEF Next

LEMMA InitConsistent == Init => AllConsistent
  BY DEF Init, AllConsistent, Consistent, Ended, NewStorage

\* Within a read equal values keep their representation, unless the read has
\* forgotten that it copied one.
THEOREM RepresentationsAreStable == Spec => AnswersAreStable
  <1>1. IInv /\ AllConsistent /\ [Next]_vars => AllConsistent'
    BY EveryStepStays
  <1>2. Spec => []AllConsistent
    BY <1>1, InitConsistent, Invariance, PTL DEF Spec
  <1>3. IInv /\ AllConsistent /\ [Next]_vars =>
          [\A r \in Reads, s \in Strings :
             /\ answer[r][s] # NoAnswer
             /\ storage'[r].mode # "ended"
             => \/ answer'[r][s] = answer[r][s]
                \/ storage[r].mode = "shared" /\ answer[r][s] = Copied
                     /\ s \notin storage[r].fallbacks]_vars
    BY EveryStepStays DEF Stay
  <1>. QED
    BY <1>2, <1>3, Invariance, PTL DEF Spec, AnswersAreStable
----------------------------------------------------------------------------
(* The counts are exact. *)

\* What a read counts of its caches.
Counted(st) ==
  /\ IsFiniteSet(st.fallbacks) /\ IsFiniteSet(st.cache)
  /\ st.fallback_bytes = SumOf(Size, st.fallbacks)
  /\ st.fallback_bytes <= SHARED_FALLBACK_CACHE_RETAINED_BYTES_MAX
  /\ Cardinality(st.fallbacks) <= SHARED_FALLBACK_CACHE_ENTRY_COUNT_MAX
  /\ Cardinality(st.cache) <= INTERN_VALUE_CACHE_ENTRY_COUNT_MAX

LeakedBytes == [i \in Slices |-> entry_bytes(heap[i])]

AllCounted ==
  /\ registry.leaked_bytes = SumOf(LeakedBytes, Slices)
  /\ \A r \in Reads : Counted(storage[r])

\* What the sums of HeldBytesAreCounted stand for.
LEMMA FallbackSum ==
  ASSUME NEW S, IsFiniteSet(S)
  PROVE  MapThenSumSet(LAMBDA s : Size[s], S) = SumOf(Size, S)
  <1>. DEFINE Rest(f, s) == IF s = {} THEN 0 ELSE
                Size[CHOOSE x \in s : TRUE] + f[s \ {CHOOSE x \in s : TRUE}]
              f == CHOOSE f : f = [s \in SUBSET S |-> Rest(f, s)]
  <1>1. MapThenSumSet(LAMBDA s : Size[s], S) = f[S]
    BY DEF MapThenSumSet, MapThenFoldSet
  <1>2. PICK g : Sums(g, S, Size)
    BY SumsExist
  <1>3. g = [s \in SUBSET S |-> Rest(g, s)]
    BY <1>2 DEF Sums, AnElement
  <1>4. f = [s \in SUBSET S |-> Rest(f, s)]
    BY <1>3
  <1>. HIDE DEF f
  <1>5. Sums(f, S, Size)
    BY <1>4 DEF Sums, AnElement
  <1>. QED BY <1>1, <1>5, SumIs

LEMMA LeakedSum ==
  ASSUME IsFiniteSet(Slices)
  PROVE  MapThenSumSet(LAMBDA i : entry_bytes(heap[i]), Slices)
           = SumOf(LeakedBytes, Slices)
  <1>. DEFINE Rest(f, s) == IF s = {} THEN 0 ELSE
                entry_bytes(heap[CHOOSE x \in s : TRUE])
                  + f[s \ {CHOOSE x \in s : TRUE}]
              f == CHOOSE f : f = [s \in SUBSET Slices |-> Rest(f, s)]
  <1>0. PICK S : S = Slices
    OBVIOUS
  <1>1. MapThenSumSet(LAMBDA i : entry_bytes(heap[i]), Slices) = f[Slices]
    BY DEF MapThenSumSet, MapThenFoldSet
  <1>2. PICK g : Sums(g, Slices, LeakedBytes)
    BY SumsExist
  <1>3. \A s \in SUBSET Slices : s # {} =>
          LeakedBytes[CHOOSE x \in s : TRUE] = entry_bytes(heap[CHOOSE x \in s : TRUE])
    <2>. HIDE DEF Slices
    <2>1. \A s \in SUBSET Slices : s # {} => (CHOOSE x \in s : TRUE) \in Slices
      OBVIOUS
    <2>. QED BY <2>1 DEF LeakedBytes
  <1>4. g = [s \in SUBSET Slices |-> Rest(g, s)]
    BY <1>2, <1>3 DEF Sums, AnElement
  <1>5. f = [s \in SUBSET Slices |-> Rest(f, s)]
    BY <1>4
  <1>. HIDE DEF f
  <1>6. Sums(f, Slices, LeakedBytes)
    BY <1>3, <1>5 DEF Sums, AnElement
  <1>. QED BY <1>1, <1>6, SumIs

\* Remembering a string counts it once, and only if it fits.
LEMMA RememberedCounts ==
  ASSUME NEW st \in StorageType, Counted(st), NEW s \in Strings
  PROVE  Counted(remember_fallback(st, s))
  <1>. DEFINE all == st.fallbacks \cup {s}
              bytes == IF s \in st.fallbacks THEN st.fallback_bytes
                                             ELSE st.fallback_bytes + Size[s]
              more == [st EXCEPT !.fallbacks = all, !.fallback_bytes = bytes]
  <1>1. CASE remember_fallback(st, s) = st
    BY <1>1
  <1>2. CASE remember_fallback(st, s) # st
    <2>1. /\ remember_fallback(st, s) = more
          /\ ~(Cardinality(st.fallbacks) >= SHARED_FALLBACK_CACHE_ENTRY_COUNT_MAX)
          /\ ~(saturating_add(st.fallback_bytes, Size[s]) >
                 SHARED_FALLBACK_CACHE_RETAINED_BYTES_MAX)
      BY <1>2 DEF remember_fallback
    <2>2. /\ more.fallbacks = all /\ more.fallback_bytes = bytes
          /\ more.cache = st.cache
      BY DEF StorageType
    <2>3. /\ IsFiniteSet(st.fallbacks) /\ IsFiniteSet(st.cache)
          /\ st.fallbacks \subseteq Strings /\ st.fallback_bytes \in Nat
          /\ st.fallback_bytes = SumOf(Size, st.fallbacks)
          /\ st.fallback_bytes <= SHARED_FALLBACK_CACHE_RETAINED_BYTES_MAX
          /\ Cardinality(st.fallbacks) <= SHARED_FALLBACK_CACHE_ENTRY_COUNT_MAX
          /\ Cardinality(st.cache) <= INTERN_VALUE_CACHE_ENTRY_COUNT_MAX
      BY DEF Counted, StorageType
    <2>4. /\ Size[s] \in Nat /\ UsizeMax \in Nat
          /\ SHARED_FALLBACK_CACHE_RETAINED_BYTES_MAX \in Nat
          /\ SHARED_FALLBACK_CACHE_ENTRY_COUNT_MAX \in Nat
          /\ SHARED_FALLBACK_CACHE_RETAINED_BYTES_MAX < UsizeMax
          /\ \A t \in Strings : Size[t] \in Nat
      BY StorageAssumption
    <2>5. st.fallback_bytes + Size[s] <= SHARED_FALLBACK_CACHE_RETAINED_BYTES_MAX
      BY <2>1, <2>3, <2>4 DEF saturating_add, Lesser
    <2>6. /\ IsFiniteSet(all)
          /\ Cardinality(all) <= SHARED_FALLBACK_CACHE_ENTRY_COUNT_MAX
      <3>1. Cardinality(st.fallbacks) \in Nat
        BY <2>3, FS_CardinalityType
      <3>2. /\ IsFiniteSet(all)
            /\ \/ Cardinality(all) = Cardinality(st.fallbacks)
               \/ Cardinality(all) = Cardinality(st.fallbacks) + 1
        BY <2>3, FS_AddElement
      <3>. QED BY <2>1, <2>4, <3>1, <3>2
    <2>7. bytes = SumOf(Size, all)
      <3>1. CASE s \in st.fallbacks
        <4>1. all = st.fallbacks
          BY <3>1
        <4>. QED BY <2>3, <3>1, <4>1
      <3>2. CASE s \notin st.fallbacks
        <4>1. /\ SumOf(Size, st.fallbacks) \in Nat
              /\ SumOf(Size, st.fallbacks \cup {s}) = Size[s] + SumOf(Size, st.fallbacks)
          <5>1. \A y \in st.fallbacks \cup {s} : Size[y] \in Nat
            BY <2>3, <2>4
          <5>2. PICK u, S : u = Size /\ S = st.fallbacks
            OBVIOUS
          <5>3. /\ IsFiniteSet(S) /\ s \notin S /\ \A y \in S \cup {s} : Size[y] \in Nat
                /\ \A y \in S : u[y] = Size[y]
            BY <2>3, <3>2, <5>1, <5>2
          <5>4. SumOf(u, S) \in Nat /\ SumOf(Size, S \cup {s}) = Size[s] + SumOf(u, S)
            BY <5>3, SumOfOneMore
          <5>. QED BY <5>2, <5>4
        <4>. QED BY <2>3, <2>4, <3>2, <4>1
      <3>. QED BY <3>1, <3>2
    <2>8. bytes <= SHARED_FALLBACK_CACHE_RETAINED_BYTES_MAX
      BY <2>3, <2>5
    <2>. HIDE DEF all, bytes, more
    <2>. QED BY <2>1, <2>2, <2>3, <2>6, <2>7, <2>8 DEF Counted
  <1>. QED BY <1>1, <1>2

LEMMA CachedCounts ==
  ASSUME NEW st \in StorageType, Counted(st), NEW s \in Strings
  PROVE  Counted([st EXCEPT !.cache =
                    Cached(st.cache, INTERN_VALUE_CACHE_ENTRY_COUNT_MAX, s)])
  <1>. DEFINE cache == Cached(st.cache, INTERN_VALUE_CACHE_ENTRY_COUNT_MAX, s)
              new == [st EXCEPT !.cache = cache]
  <1>1. IsFiniteSet(st.cache) /\ Cardinality(st.cache) \in Nat
    BY FS_CardinalityType DEF Counted
  <1>2. INTERN_VALUE_CACHE_ENTRY_COUNT_MAX \in Nat
    BY StorageAssumption
  <1>3. /\ IsFiniteSet(cache)
        /\ Cardinality(cache) <= INTERN_VALUE_CACHE_ENTRY_COUNT_MAX
    <2>1. CASE cache = st.cache
      BY <1>1, <2>1 DEF Counted
    <2>2. CASE /\ s \notin st.cache /\ cache = st.cache \cup {s}
               /\ Cardinality(st.cache) < INTERN_VALUE_CACHE_ENTRY_COUNT_MAX
      <3>1. /\ IsFiniteSet(st.cache \cup {s})
            /\ Cardinality(st.cache \cup {s}) = Cardinality(st.cache) + 1
        BY <1>1, <2>2, FS_AddElement
      <3>. HIDE DEF cache
      <3>. QED BY <1>1, <1>2, <2>2, <3>1
    <2>. QED BY <2>1, <2>2 DEF Cached
  <1>. HIDE DEF cache
  <1>4. /\ new.cache = cache /\ new.fallbacks = st.fallbacks
        /\ new.fallback_bytes = st.fallback_bytes
    BY DEF StorageType
  <1>. HIDE DEF new
  <1>5. Counted(new)
    BY <1>3, <1>4 DEF Counted
  <1>. QED BY <1>5 DEF new, cache

LEMMA NewCounts == \A mode, budget : Counted(NewStorage(mode, budget))
  <1>. SUFFICES ASSUME NEW mode, NEW budget PROVE Counted(NewStorage(mode, budget))
    OBVIOUS
  <1>1. /\ SHARED_FALLBACK_CACHE_RETAINED_BYTES_MAX \in Nat
        /\ SHARED_FALLBACK_CACHE_ENTRY_COUNT_MAX \in Nat
        /\ INTERN_VALUE_CACHE_ENTRY_COUNT_MAX \in Nat
    BY StorageAssumption
  <1>2. IsFiniteSet({}) /\ Cardinality({}) = 0 /\ SumOf(Size, {}) = 0
    BY FS_EmptySet, SumOfNone
  <1>. QED BY <1>1, <1>2 DEF Counted, NewStorage

\* A step of one read.
LEMMA OneReadCounts ==
  ASSUME IInv, AllCounted, NEW r \in Reads, NEW st,
         storage' = [storage EXCEPT ![r] = st], Counted(st),
         registry'.leaked_bytes = SumOf(LeakedBytes, Slices)'
  PROVE  AllCounted'
  <1>1. \A q \in Reads : storage'[q] = IF q = r THEN st ELSE storage[q]
    BY DEF IInv, TypeOK
  <1>2. \A q \in Reads : Counted(storage'[q])
    BY <1>1 DEF AllCounted
  <1>. QED BY <1>2 DEF AllCounted

LEMMA QuietCounts ==
  ASSUME IInv, AllCounted, NEW r \in Reads, NEW st,
         storage' = [storage EXCEPT ![r] = st], Counted(st),
         heap' = heap, registry' = registry
  PROVE  AllCounted'
  <1>1. Slices' = Slices /\ LeakedBytes' = LeakedBytes
    BY DEF Slices, LeakedBytes
  <1>2. registry'.leaked_bytes = SumOf(LeakedBytes, Slices)'
    BY <1>1 DEF AllCounted
  <1>. QED BY <1>2, OneReadCounts

LEMMA ThisReadCounts ==
  ASSUME IInv, AllCounted, NEW r \in Reads
  PROVE  storage[r] \in StorageType /\ Counted(storage[r])
  BY DEF IInv, TypeOK, AllCounted

\* Caches that are not counted may change.
LEMMA SameCounts ==
  ASSUME NEW st \in StorageType, Counted(st), NEW new,
         \/ \E entries : new = [st EXCEPT !.entries = entries]
         \/ \E keys : new = [st EXCEPT !.keys = keys]
  PROVE  Counted(new)
  <1>1. /\ new.fallbacks = st.fallbacks /\ new.cache = st.cache
        /\ new.fallback_bytes = st.fallback_bytes
    BY DEF StorageType
  <1>. QED BY <1>1 DEF Counted

\* A leaked string and its NUL are counted when it joins the heap.
LEMMA LeakCounts ==
  ASSUME IInv, AllCounted, NEW r \in Reads, ShareLeaked(r)
  PROVE  AllCounted'
  <1>0. PICK s, slice, S, T, u, v, b :
          /\ s = waiting[r] /\ slice = Len(heap) + 1 /\ S = Slices /\ T = Slices'
          /\ u = LeakedBytes /\ v = LeakedBytes' /\ b = entry_bytes(s)
    OBVIOUS
  <1>1. /\ s \in Strings /\ heap' = Append(heap, s)
        /\ storage' = [storage EXCEPT
             ![r] = [storage[r] EXCEPT !.entries = storage[r].entries \cup {slice}]]
    BY <1>0, WaitingRead DEF ShareLeaked, LeakedSlice
  <1>2. registry'.leaked_bytes = registry.leaked_bytes + b
    BY <1>0 DEF ShareLeaked, Leaked
  <1>3. heap \in Seq(Strings) /\ Len(heap) \in Nat
    BY DEF IInv, TypeOK
  <1>4. T = S \cup {slice} /\ slice \notin S
    BY <1>0, <1>1, <1>3 DEF Slices
  <1>5. IsFiniteSet(S)
    <2>. PICK n \in Nat : n = Len(heap)
      BY <1>3
    <2>1. IsFiniteSet(1 .. n)
      BY UpToN
    <2>. QED BY <1>0, <2>1 DEF Slices
  <1>6. /\ \A i \in S : u[i] = v[i] /\ v[i] \in Nat
        /\ v[slice] = b /\ b \in Nat
    <2>1. \A t \in Strings : entry_bytes(t) \in Nat
      BY StorageAssumption DEF entry_bytes
    <2>2. /\ \A i \in S : u[i] = entry_bytes(heap[i])
          /\ \A i \in T : v[i] = entry_bytes(heap'[i])
      <3>1. u = [i \in S |-> entry_bytes(heap[i])]
        BY <1>0 DEF LeakedBytes
      <3>2. v = [i \in T |-> entry_bytes(heap'[i])]
        BY <1>0 DEF LeakedBytes, entry_bytes
      <3>. QED BY <3>1, <3>2
    <2>3. \A i \in S : heap'[i] = heap[i] /\ heap[i] \in Strings
      BY <1>0, <1>1, <1>3 DEF Slices
    <2>4. heap'[slice] = s
      BY <1>0, <1>1, <1>3
    <2>5. slice \in T /\ S \subseteq T /\ b = entry_bytes(s)
      BY <1>0, <1>4
    <2>. QED BY <1>1, <2>1, <2>2, <2>3, <2>4, <2>5
  <1>7. SumOf(u, S) \in Nat /\ SumOf(v, S \cup {slice}) = v[slice] + SumOf(u, S)
    <2>1. \A y \in S \cup {slice} : v[y] \in Nat
      BY <1>6
    <2>2. \A y \in S : u[y] = v[y]
      BY <1>6
    <2>. QED BY <1>4, <1>5, <2>1, <2>2, SumOfOneMore
  <1>8. registry.leaked_bytes = SumOf(u, S)
    BY <1>0 DEF AllCounted
  <1>9. registry'.leaked_bytes = SumOf(v, T)
    BY <1>2, <1>4, <1>6, <1>7, <1>8
  <1>10. Counted([storage[r] EXCEPT !.entries = storage[r].entries \cup {slice}])
    BY ThisReadCounts, SameCounts
  <1>. QED BY <1>0, <1>1, <1>9, <1>10, OneReadCounts

LEMMA EveryStepCounts == IInv /\ AllCounted /\ [Next]_vars => AllCounted'
  <1> SUFFICES ASSUME IInv, AllCounted, [Next]_vars PROVE AllCounted'
    OBVIOUS
  <1>1. ASSUME NEW r \in Reads, Begin(r) \/ End(r) PROVE AllCounted'
    <2>1. /\ heap' = heap /\ registry' = registry
          /\ \E mode, budget :
               storage' = [storage EXCEPT ![r] = NewStorage(mode, budget)]
      BY <1>1 DEF Begin, End, Ended
    <2>. QED BY <2>1, NewCounts, QuietCounts
  <1>2. ASSUME NEW r \in Reads, ShareRegistered(r) PROVE AllCounted'
    <2>1. /\ heap' = heap /\ registry' = registry
          /\ \E slice : storage' = [storage EXCEPT
               ![r] = [storage[r] EXCEPT !.entries = storage[r].entries \cup {slice}]]
      BY <1>2 DEF ShareRegistered
    <2>. QED BY <2>1, ThisReadCounts, SameCounts, QuietCounts
  <1>3. ASSUME NEW r \in Reads, ShareLeaked(r) PROVE AllCounted'
    BY <1>3, LeakCounts
  <1>4. ASSUME NEW r \in Reads, ShareRefused(r) PROVE AllCounted'
    <2>1. /\ heap' = heap /\ registry' = registry /\ waiting[r] \in Strings
          /\ storage' = [storage EXCEPT ![r] = remember_fallback(storage[r], waiting[r])]
      BY <1>4, WaitingRead DEF ShareRefused
    <2>. QED BY <2>1, ThisReadCounts, RememberedCounts, QuietCounts
  <1>5. ASSUME NEW r \in Reads, NEW s \in Strings, Copy(r, s) \/ Share(r, s)
        PROVE  AllCounted'
    <2>1. /\ heap' = heap /\ registry' = registry
          /\ storage' = [storage EXCEPT ![r] = storage[r]]
      BY <1>5, OneRead DEF Copy, Share
    <2>. QED BY <2>1, ThisReadCounts, QuietCounts
  <1>6. ASSUME NEW r \in Reads, NEW s \in Strings, Intern(r, s) PROVE AllCounted'
    <2>1. /\ heap' = heap /\ registry' = registry
          /\ storage' = [storage EXCEPT ![r] = [storage[r] EXCEPT !.cache =
               Cached(storage[r].cache, INTERN_VALUE_CACHE_ENTRY_COUNT_MAX, s)]]
      BY <1>6 DEF Intern
    <2>. QED BY <2>1, ThisReadCounts, CachedCounts, QuietCounts
  <1>7. ASSUME NEW r \in Reads, NEW s \in Strings, ShareLocally(r, s)
        PROVE  AllCounted'
    <2>1. /\ heap' = heap /\ registry' = registry
          /\ storage' = [storage EXCEPT ![r] = LocalStorage(storage[r], s)]
      BY <1>7 DEF ShareLocally
    <2>2. Counted(LocalStorage(storage[r], s))
      BY ThisReadCounts, RememberedCounts DEF LocalStorage
    <2>. QED BY <2>1, <2>2, QuietCounts
  <1>8. ASSUME NEW r \in Reads, NEW name \in Names, Key(r, name) PROVE AllCounted'
    <2>1. /\ heap' = heap /\ registry' = registry
          /\ \E keys : storage' = [storage EXCEPT ![r] =
                                    [storage[r] EXCEPT !.keys = keys]]
      BY <1>8 DEF Key
    <2>. QED BY <2>1, ThisReadCounts, SameCounts, QuietCounts
  <1>9. CASE UNCHANGED vars
    BY <1>9 DEF vars, AllCounted, LeakedBytes, Slices
  <1>. QED
    BY <1>1, <1>2, <1>3, <1>4, <1>5, <1>6, <1>7, <1>8, <1>9 DEF Next

LEMMA InitCounts == Init => AllCounted
  <1> SUFFICES ASSUME Init PROVE AllCounted
    OBVIOUS
  <1>1. Slices = {}
    BY DEF Init, Slices
  <1>2. \A r \in Reads : Counted(storage[r])
    BY NewCounts DEF Init, Ended
  <1>. QED BY <1>1, <1>2, SumOfNone DEF Init, AllCounted

\* What the process counts as leaked is every byte it leaked, what a read counts as
\* remembered is every byte it remembers, and what it remembers stays within its limits.
THEOREM CountsAreExact == Spec => []HeldBytesAreCounted
  <1>1. Spec => []AllCounted
    BY EveryStepCounts, InitCounts, Invariance, PTL DEF Spec
  <1>2. IInv /\ AllCounted => HeldBytesAreCounted
    <2> SUFFICES ASSUME IInv, AllCounted PROVE HeldBytesAreCounted
      OBVIOUS
    <2>1. IsFiniteSet(Slices)
      <3>. PICK n \in Nat : n = Len(heap)
        BY DEF IInv, TypeOK
      <3>1. IsFiniteSet(1 .. n)
        BY UpToN
      <3>. QED BY <3>1 DEF Slices
    <2>2. registry.leaked_bytes = MapThenSumSet(LAMBDA i : entry_bytes(heap[i]), Slices)
      BY <2>1, LeakedSum DEF AllCounted
    <2>3. ASSUME NEW r \in Reads
          PROVE  storage[r].fallback_bytes =
                   MapThenSumSet(LAMBDA s : Size[s], storage[r].fallbacks)
      <3>1. /\ IsFiniteSet(storage[r].fallbacks)
            /\ storage[r].fallback_bytes = SumOf(Size, storage[r].fallbacks)
        BY DEF AllCounted, Counted
      <3>. QED BY <3>1, FallbackSum
    <2>. QED BY <2>2, <2>3 DEF HeldBytesAreCounted, AllCounted, Counted
  <1>. QED
    BY <1>1, <1>2, Invariance, PTL
=============================================================================
