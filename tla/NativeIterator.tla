---------------------------- MODULE NativeIterator ----------------------------
(***************************************************************************)
(* The iterators over COM enumerators: StringIterator (IEnumString),       *)
(* GuidIterator (IEnumGUID), GroupIterator (IEnumUnknown) and              *)
(* ItemAttributeIterator (IEnumOPCItemAttributes). Each fetches batches    *)
(* into a cache and returns the entries one by one. A call of next is a    *)
(* loop of the StringIterator; one action is one turn of it.               *)
(***************************************************************************)
EXTENDS Naturals, Sequences, SequencesExt, FiniteSets

CONSTANTS
  Kinds,         \* which iterators: among "string", "guid", "group", "attribute"
  Values,        \* what an entry can hold
  Unreadable,    \* values whose conversion fails
  Null,          \* the null pointer
  Capacity,      \* STRING_CACHE_SIZE, MAX_CACHE_SIZE
  MaxSame        \* MAX_CONSECUTIVE_IDENTICAL_BROWSE_VALUES

ASSUME IteratorAssumption ==
  /\ Capacity \in Nat \ {0} /\ MaxSame \in Nat \ {0}
  /\ Null \notin Values /\ Unreadable \subseteq Values

VARIABLES
  kind,          \* which iterator this is
  calling,       \* next is running
  cache,         \* the fetched entries that fit, taken ones Null
  index, count,  \* position in the cache, entries the server reported
  populated,     \* entries release_pending looks at
  done,
  last, same,    \* last_value and consecutive
  empty,         \* empty_batches
  result,        \* what the last call returned
  live,          \* external: strings the server allocated and nobody freed
  dropped        \* the iterator was dropped

vars == <<kind, calling, cache, index, count, populated, done, last, same, empty, result, live, dropped>>

Stream == INSTANCE ValueStream WITH
  Nothing <- Null,
  ahead <- IF done THEN <<>> ELSE SubSeq(cache, index + 1, Len(cache)),
  over <- done

Init ==
  /\ kind \in Kinds
  /\ calling = FALSE /\ cache = <<>> /\ index = 0 /\ count = 0 /\ populated = 0
  /\ done = FALSE /\ last = Null /\ same = 0 /\ empty = 0
  /\ result = Null /\ live = 0 /\ dropped = FALSE

Return(r) == calling' = FALSE /\ result' = r

Filled(entries) == Cardinality({i \in DOMAIN entries : entries[i] # Null})

-----------------------------------------------------------------------------
(* A call of next. *)

Call ==
  /\ ~calling /\ ~dropped
  /\ calling' = TRUE
  /\ UNCHANGED <<kind, cache, index, count, populated, done, last, same, empty, result, live, dropped>>

\* done: None for ever. The gate and the cancel of next_with_gate: None for now.
NoValue ==
  /\ calling
  /\ \/ done
     \/ kind = "string"     \* should_cancel, or before_refill refuses
  /\ Return(Null)
  /\ UNCHANGED <<kind, cache, index, count, populated, done, last, same, empty, live, dropped>>

\* Entries the server put into an iterator's array, or for the attributes
\* into an array of its own.
Written(batch) ==
  IF kind = "attribute" \/ Len(batch.entries) <= Capacity THEN batch.entries
  ELSE SubSeq(batch.entries, 1, Capacity)

\* Mutation: populated stays 0 when the call fails.
PopulatedIfOk(batch) == IF batch.ok THEN Len(Written(batch)) ELSE 0

Populated(batch) == Len(Written(batch))

\* External: what Next may hand over. Entries are null only behind pointers;
\* one more than the capacity stands for every count that is too large, and
\* an iterator's array then still holds Capacity entries.
Batches ==
  LET entries == CASE kind \in {"string", "group"} -> Values \cup {Null}
                   [] kind = "attribute" -> Values
                   [] OTHER -> Values \ Unreadable
  IN [ok : BOOLEAN, entries : BoundedSeq(entries, Capacity + 1)]

\* validate_fetched_count fails; the attribute iterator has no capacity.
OverCapacity(batch) == kind # "attribute" /\ Len(batch.entries) > Capacity

\* Mutation: batches of null entries are not counted.
NeverEmpty(entries) == 0

EmptyAfter(entries) ==
  IF kind = "string" /\ Filled(entries) = 0 THEN empty + 1 ELSE 0

\* The cache is used up: fetch the next batch. It fails, is too large or empty,
\* is one more of nothing but null entries, or is what the calls take from.
Refill ==
  /\ calling /\ ~done /\ index >= count
  /\ \E batch \in Batches :
       LET entries == Written(batch)
           usable == batch.ok /\ ~OverCapacity(batch) /\ batch.entries # <<>>
           stuck == usable /\ EmptyAfter(entries) >= MaxSame
       IN /\ cache' = entries /\ index' = 0 /\ count' = Len(batch.entries)
          /\ populated' = Populated(batch)
          /\ live' = IF kind = "string" THEN live + Filled(entries) ELSE 0
          /\ done' = (~usable \/ stuck)
          /\ empty' = IF usable THEN EmptyAfter(entries) ELSE empty
          /\ IF ~done' THEN UNCHANGED <<calling, result>>
             ELSE Return(IF batch.ok /\ batch.entries = <<>> THEN Null ELSE Stream!Err)
  /\ UNCHANGED <<kind, last, same, dropped>>

\* Mutation: a null entry takes the one after it along.
IndexAfterValue(v) == IF v = Null THEN index + 2 ELSE index + 1

IndexAfter(v) == index + 1

\* An entry is taken out of the cache. Null: the string iterator goes on, the
\* group iterator returns E_POINTER. A value that cannot be converted is an
\* error in its place. The string iterator gives up on MaxSame equal values.
Entry ==
  /\ calling /\ ~done /\ index < count
  /\ LET v == cache[index + 1]
         run == IF v = last THEN same + 1 ELSE 1
         readable == v \notin Unreadable \cup {Null}
         counted == kind = "string" /\ readable
     IN /\ index' = IndexAfter(v)
        /\ cache' = [cache EXCEPT ![index + 1] = IF kind \in {"string", "group"} THEN Null ELSE @]
        /\ live' = IF kind = "string" /\ v # Null THEN live - 1 ELSE live
        /\ last' = IF counted THEN v ELSE last
        /\ same' = IF counted THEN run ELSE same
        /\ done' = (counted /\ run >= MaxSame)
        /\ IF kind = "string" /\ v = Null THEN UNCHANGED <<calling, result>>
           ELSE Return(IF readable /\ ~done' THEN Stream!Ok(v) ELSE Stream!Err)
  /\ UNCHANGED <<kind, count, populated, empty, dropped>>

\* Drop: release_pending frees what was fetched and not taken.
Drop ==
  /\ ~calling /\ ~dropped
  /\ dropped' = TRUE
  /\ live' = IF kind = "string" THEN live - Filled(SubSeq(cache, index + 1, populated)) ELSE live
  /\ UNCHANGED <<kind, calling, cache, index, count, populated, done, last, same, empty, result>>

Next == Call \/ NoValue \/ Refill \/ Entry \/ Drop

Spec == Init /\ [][Next]_vars

\* The thread that runs next keeps running; Next of the enumerator returns.
FairSpec == Spec /\ WF_vars(NoValue \/ Refill \/ Entry)

-----------------------------------------------------------------------------
(* Properties. *)

\* Every string the server allocated is freed exactly once: when it is taken,
\* or when the iterator is dropped; also those that came with an error or in a
\* batch that was refused.
StringsReleased ==
  kind = "string" =>
    live = IF dropped THEN 0 ELSE Filled(SubSeq(cache, index + 1, Len(cache)))

\* The iterator is what ValueStream promises: no value is lost, repeated or
\* out of order across refills, null entries, gates and cancels.
Implements == Stream!Spec

\* A call returns, even when the server answers with null entries for ever.
CallReturns == calling ~> ~calling

=============================================================================
