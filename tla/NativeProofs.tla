------------------------------ MODULE NativeProofs ------------------------------
(***************************************************************************)
(* The native layer. The iterators of NativeIterator implement ValueStream *)
(* and free every string once, for any values, capacity and limit of       *)
(* identical values. The wrappers of NativeCalls keep the slices they hand *)
(* out and the views of what they get within their arrays, and free every  *)
(* block once, for arrays of every length.                                 *)
(***************************************************************************)
EXTENDS NativeCalls, NativeIterator, SequenceTheorems, FiniteSetTheorems, TLAPS

Entries == Values \cup {Null}

Inv ==
  /\ cache \in Seq(Entries) /\ done \in BOOLEAN
  /\ ~done => index \in Nat /\ index <= count /\ count = Len(cache)

-----------------------------------------------------------------------------
(* Sequences. *)

\* What is left of s after its first k elements.
Rest(s, k) == SubSeq(s, k + 1, Len(s))

LEMMA RestProperties ==
  ASSUME NEW S, NEW s \in Seq(S), NEW k \in Nat, k <= Len(s)
  PROVE /\ Rest(s, k) \in Seq(S) /\ Len(Rest(s, k)) = Len(s) - k
        /\ \A i \in 1 .. Len(s) - k : Rest(s, k)[i] = s[k + i]
<1> DEFINE n == Len(s)  m == k + 1
<1>1. n \in Nat /\ m \in Nat /\ m \in 1 .. n + 1
  BY LenProperties
<1>2. \A i \in m .. n : s[i] \in S
  BY <1>1, ElementOfSeq
<1>3. /\ SubSeq(s, m, n) \in Seq(S)
      /\ Len(SubSeq(s, m, n)) = IF m <= n THEN n - m + 1 ELSE 0
      /\ \A i \in 1 .. n - m + 1 : SubSeq(s, m, n)[i] = s[m + i - 1]
  <2>1. m \in Int /\ n \in Int
    BY <1>1
  <2> HIDE DEF m, n
  <2>2. QED
    BY ONLY <1>2, <2>1, SubSeqProperties
<1>4. Rest(s, k) = SubSeq(s, m, n)
  BY DEF Rest
<1>5. n - m + 1 = n - k
  BY <1>1
<1>6. Len(SubSeq(s, m, n)) = n - k
  <2>1. CASE m <= n
    BY <2>1, <1>3, <1>5
  <2>2. CASE ~(m <= n)
    <3>1. n - k = 0
      BY <2>2, <1>1
    <3>2. QED
      BY <2>2, <3>1, <1>3
  <2>3. QED
    BY <2>1, <2>2
<1>7. \A i \in 1 .. n - k : m + i - 1 = k + i
  BY <1>1
<1>8. QED
  BY <1>3, <1>4, <1>5, <1>6, <1>7

LEMMA WholeRest == ASSUME NEW S, NEW s \in Seq(S) PROVE Rest(s, 0) = s
<1>1. Rest(s, 0) \in Seq(S) /\ Len(Rest(s, 0)) = Len(s) - 0
      /\ \A i \in 1 .. Len(s) - 0 : Rest(s, 0)[i] = s[0 + i]
  BY LenProperties, RestProperties
<1>2. Len(Rest(s, 0)) = Len(s) /\ \A i \in 1 .. Len(s) : Rest(s, 0)[i] = s[i]
  BY <1>1, LenProperties
<1>3. QED
  BY <1>1, <1>2, SeqEqual

\* Taking an entry out of its place leaves the tail of the rest.
LEMMA RestTail ==
  ASSUME NEW S, NEW s \in Seq(S), NEW k \in Nat, k < Len(s), NEW x \in S
  PROVE /\ Rest(s, k) # <<>> /\ Head(Rest(s, k)) = s[k + 1]
        /\ Rest([s EXCEPT ![k + 1] = x], k + 1) = Tail(Rest(s, k))
<1> DEFINE t == [s EXCEPT ![k + 1] = x]  n == Len(s)
<1>1. n \in Nat /\ k + 1 \in 1 .. n /\ k + 1 \in Nat /\ k <= n /\ k + 1 <= n
  BY LenProperties
<1>2. t \in Seq(S) /\ Len(t) = n /\ \A i \in 1 .. n : i # k + 1 => t[i] = s[i]
  BY <1>1, ExceptSeq
<1>3. /\ Rest(s, k) \in Seq(S) /\ Len(Rest(s, k)) = n - k
      /\ \A i \in 1 .. n - k : Rest(s, k)[i] = s[k + i]
  BY <1>1, RestProperties
<1>4. /\ Rest(t, k + 1) \in Seq(S) /\ Len(Rest(t, k + 1)) = n - (k + 1)
      /\ \A i \in 1 .. n - (k + 1) : Rest(t, k + 1)[i] = t[(k + 1) + i]
  <2> HIDE DEF t
  <2> QED
    BY <1>1, <1>2, RestProperties
<1>5. Rest(s, k) # <<>> /\ Head(Rest(s, k)) = s[k + 1]
  <2>1. Len(Rest(s, k)) # 0 /\ 1 \in 1 .. n - k
    BY <1>1, <1>3
  <2>2. QED
    BY <2>1, <1>3, EmptySeq
<1>6. /\ Tail(Rest(s, k)) \in Seq(S) /\ Len(Tail(Rest(s, k))) = n - k - 1
      /\ \A i \in 1 .. Len(Tail(Rest(s, k))) : Tail(Rest(s, k))[i] = Rest(s, k)[i + 1]
  BY <1>3, <1>5, HeadTailProperties
<1>7. Len(Rest(t, k + 1)) = Len(Tail(Rest(s, k)))
  BY <1>1, <1>4, <1>6
<1>8. ASSUME NEW i \in 1 .. Len(Rest(t, k + 1))
      PROVE Rest(t, k + 1)[i] = Tail(Rest(s, k))[i]
  <2>1. i \in 1 .. n - (k + 1) /\ i + 1 \in 1 .. n - k
        /\ (k + 1) + i = k + (i + 1) /\ (k + 1) + i \in 1 .. n /\ (k + 1) + i # k + 1
    BY <1>1, <1>4
  <2>2. Rest(t, k + 1)[i] = s[(k + 1) + i]
    BY <2>1, <1>2, <1>4
  <2>3. Tail(Rest(s, k))[i] = Rest(s, k)[i + 1]
    BY <1>6, <1>7
  <2>4. Rest(s, k)[i + 1] = s[k + (i + 1)]
    BY <2>1, <1>3
  <2>5. QED
    BY <2>1, <2>2, <2>3, <2>4
<1>9. QED
  BY <1>4, <1>5, <1>6, <1>7, <1>8, SeqEqual

-----------------------------------------------------------------------------
(* The batches. *)

LEMMA BatchTypes ==
  ASSUME NEW batch \in Batches
  PROVE /\ batch.entries \in Seq(Entries) /\ Written(batch) \in Seq(Entries)
        /\ ~OverCapacity(batch) => Written(batch) = batch.entries
<1>1. PICK T \in SUBSET Entries : batch.entries \in BoundedSeq(T, Capacity + 1)
  <2> DEFINE T == CASE kind \in {"string", "group"} -> Values \cup {Null}
                    [] kind = "attribute" -> Values
                    [] OTHER -> Values \ Unreadable
  <2>1. T \in SUBSET Entries
    BY DEF Entries
  <2>2. batch.entries \in BoundedSeq(T, Capacity + 1)
    BY DEF Batches
  <2>3. QED
    BY <2>1, <2>2
<1>2. PICK n \in 0 .. Capacity + 1 : batch.entries \in [1 .. n -> T]
  BY <1>1 DEF BoundedSeq, SeqOf
<1>3. batch.entries \in Seq(Entries)
  <2>1. n \in Nat
    BY <1>2, IteratorAssumption
  <2>2. batch.entries \in [1 .. n -> Entries]
    BY <1>1, <1>2
  <2>3. QED
    BY <2>1, <2>2
<1>4. Len(batch.entries) > Capacity => SubSeq(batch.entries, 1, Capacity) \in Seq(Entries)
  <2> SUFFICES ASSUME Len(batch.entries) > Capacity
               PROVE SubSeq(batch.entries, 1, Capacity) \in Seq(Entries)
    OBVIOUS
  <2>1. Capacity \in Int /\ \A i \in 1 .. Capacity : i \in 1 .. Len(batch.entries)
    BY <1>3, LenProperties, IteratorAssumption
  <2>2. \A i \in 1 .. Capacity : batch.entries[i] \in Entries
    BY <1>3, <2>1, ElementOfSeq
  <2>3. QED
    BY <2>1, <2>2, SubSeqProperties
<1>5. Len(batch.entries) \in Nat /\ Capacity \in Nat
  BY <1>3, LenProperties, IteratorAssumption
<1>6. QED
  BY <1>3, <1>4, <1>5 DEF Written, OverCapacity

-----------------------------------------------------------------------------
(* Every step keeps Inv and is a step or a stutter of ValueStream. *)

\* What ValueStream's ahead stands for.
Ahead == IF done THEN <<>> ELSE SubSeq(cache, index + 1, Len(cache))

LEMMA AheadIsRest == (~done => Ahead = Rest(cache, index)) /\ (~done' => Ahead' = Rest(cache', index'))
BY DEF Ahead, Rest

LEMMA InitStream == Init => Inv /\ Stream!Init
<1> SUFFICES ASSUME Init PROVE Inv /\ Stream!Init
  OBVIOUS
<1>1. cache = <<>> /\ cache \in Seq(Entries) /\ Len(cache) = 0
  BY DEF Init
<1>2. Inv
  <2>1. done \in BOOLEAN
    BY DEF Init
  <2>2. cache \in Seq(Entries)
    BY <1>1
  <2>3. index \in Nat /\ index <= count /\ count = Len(cache)
    BY <1>1 DEF Init
  <2>4. QED
    BY <2>1, <2>2, <2>3 DEF Inv
<1>3. Rest(cache, 0) = cache
  BY <1>1, WholeRest
<1>4. Stream!Init
  BY <1>1, <1>3 DEF Init, Stream!Init, Rest
<1>5. QED
  BY <1>2, <1>4

\* A refill finds nothing ahead; it offers the new batch, ends or fails.
LEMMA RefillStep == Inv /\ Refill => Inv' /\ Stream!Next
<1> SUFFICES ASSUME Inv, Refill PROVE Inv' /\ Stream!Next
  OBVIOUS
<1>1. PICK batch \in Batches :
        /\ cache' = Written(batch) /\ index' = 0 /\ count' = Len(batch.entries)
        /\ done' \in BOOLEAN
        /\ (batch.ok /\ ~OverCapacity(batch) /\ batch.entries # <<>>) \/ done'
        /\ IF ~done' THEN UNCHANGED <<calling, result>>
           ELSE Return(IF batch.ok /\ batch.entries = <<>> THEN Null ELSE Stream!Err)
  BY DEF Refill
<1>2. ~done /\ index \in Nat /\ index = Len(cache) /\ Len(cache) \in Nat
  BY LenProperties DEF Refill, Inv
<1>3. Rest(cache, index) = <<>>
  <2>1. Rest(cache, index) \in Seq(Entries) /\ Len(Rest(cache, index)) = Len(cache) - index
    BY <1>2, RestProperties DEF Inv
  <2>2. Len(Rest(cache, index)) = 0
    BY <1>2, <2>1
  <2>3. QED
    BY <2>1, <2>2, EmptySeq
<1>4. cache' \in Seq(Entries)
  BY <1>1, BatchTypes
<1>5. CASE ~done'
  <2>1. cache' = batch.entries /\ batch.entries # <<>> /\ batch.entries \in Seq(Entries)
    BY <1>1, <1>5, BatchTypes
  <2>2. Inv'
    BY <1>1, <1>4, <2>1, LenProperties DEF Inv
  <2>3. Rest(cache', index') = batch.entries
    BY <1>1, <2>1, WholeRest
  <2>4. Ahead = <<>> /\ Ahead' # <<>>
    BY <1>2, <1>3, <1>5, <2>1, <2>3, AheadIsRest
  <2>5. ~done /\ done' = done /\ result' = result
    BY <1>1, <1>2, <1>5 DEF Inv
  <2>6. Stream!Offer
    BY <2>4, <2>5 DEF Stream!Offer, Ahead
  <2>7. QED
    BY <2>2, <2>6 DEF Stream!Next
<1>6. CASE done'
  <2>1. Inv'
    BY <1>4, <1>6 DEF Inv
  <2>2. result' \in {Null, Stream!Err}
    BY <1>1, <1>6 DEF Return
  <2>3. Stream!End \/ Stream!Fail
    BY <1>2, <1>3, <1>6, <2>2 DEF Stream!End, Stream!Fail, Rest
  <2>4. QED
    BY <2>1, <2>3 DEF Stream!Next
<1>7. QED
  BY <1>5, <1>6

\* An entry is the head of what is ahead: delivered, passed over or the failure.
LEMMA EntryStep == Inv /\ Entry => Inv' /\ Stream!Next
<1> SUFFICES ASSUME Inv, Entry PROVE Inv' /\ Stream!Next
  OBVIOUS
<1> DEFINE v == cache[index + 1]
           left == IF kind \in {"string", "group"} THEN Null ELSE v
<1>1. /\ ~done /\ done \in BOOLEAN /\ done' \in BOOLEAN
      /\ index \in Nat /\ index < count /\ count = Len(cache) /\ cache \in Seq(Entries)
      /\ index' = index + 1 /\ count' = count /\ cache' = [cache EXCEPT ![index + 1] = left]
      /\ IF kind = "string" /\ v = Null THEN UNCHANGED <<calling, result>> /\ ~done'
         ELSE result' \in {Stream!Ok(v), Stream!Err} /\ (done' => result' = Stream!Err)
  BY DEF Entry, Inv, IndexAfter, Return
<1>2. Len(cache) \in Nat /\ index + 1 \in 1 .. Len(cache)
  BY <1>1, LenProperties
<1>3. v \in Entries /\ left \in Entries
  BY <1>1, <1>2, ElementOfSeq DEF Entries
<1>4. cache' \in Seq(Entries) /\ Len(cache') = Len(cache)
  <2> HIDE DEF left
  <2> QED
    BY <1>1, <1>2, <1>3, ExceptSeq
<1>5. Inv'
  BY <1>1, <1>2, <1>4 DEF Inv
<1>6. /\ Rest(cache, index) # <<>> /\ Head(Rest(cache, index)) = v
      /\ Rest(cache', index') = Tail(Rest(cache, index))
  <2> HIDE DEF left
  <2> QED
    BY <1>1, <1>3, RestTail
<1> HIDE DEF v, left
<1>7. CASE done'
  <2>1. ~done /\ done' = TRUE /\ result' = Stream!Err
    BY <1>1, <1>7
  <2>2. Stream!Fail
    BY <2>1 DEF Stream!Fail
  <2>3. QED
    BY <1>5, <2>2 DEF Stream!Next
<1>8. CASE ~done' /\ kind = "string" /\ v = Null
  <2>1. Ahead # <<>> /\ Head(Ahead) = Null /\ Ahead' = Tail(Ahead)
    BY <1>1, <1>6, <1>8, AheadIsRest
  <2>2. done' = done /\ result' = result
    BY <1>1, <1>8
  <2>3. Stream!Skip
    BY <2>1, <2>2 DEF Stream!Skip, Ahead
  <2>4. QED
    BY <2>3, <1>5 DEF Stream!Next
<1>9. CASE ~done' /\ ~(kind = "string" /\ v = Null)
  <2>1. Ahead # <<>> /\ Head(Ahead) = v /\ Ahead' = Tail(Ahead)
    BY <1>1, <1>6, <1>9, AheadIsRest
  <2>2. ~done /\ done' = done /\ result' \in {Stream!Ok(v), Stream!Err}
    BY <1>1, <1>9
  <2>3. Stream!Deliver
    BY <2>1, <2>2 DEF Stream!Deliver, Ahead
  <2>4. QED
    BY <2>3, <1>5 DEF Stream!Next
<1>10. QED
  BY <1>5, <1>7, <1>8, <1>9

streamVars == <<Ahead, done, result>>

LEMMA StreamStep == Inv /\ [Next]_vars => Inv' /\ (Stream!Next \/ UNCHANGED streamVars)
<1> SUFFICES ASSUME Inv, [Next]_vars PROVE Inv' /\ (Stream!Next \/ UNCHANGED streamVars)
  OBVIOUS
<1>1. CASE UNCHANGED vars
  BY <1>1 DEF vars, Inv, streamVars, Ahead
<1>2. CASE Call
  BY <1>2 DEF Call, Inv, streamVars, Ahead
<1>3. CASE NoValue
  <2>1. Inv'
    BY <1>3 DEF NoValue, Inv
  <2>2. Stream!Pause
    BY <1>3 DEF NoValue, Return, Stream!Pause
  <2>3. QED
    BY <2>1, <2>2 DEF Stream!Next
<1>4. CASE Refill
  BY <1>4, RefillStep
<1>5. CASE Entry
  BY <1>5, EntryStep
<1>6. CASE Drop
  BY <1>6 DEF Drop, Inv, streamVars, Ahead
<1>7. QED
  BY <1>1, <1>2, <1>3, <1>4, <1>5, <1>6 DEF Next

\* Whatever the server's batches, each of the four iterators returns what it was
\* handed, in order, and loses a value only together with an error.
THEOREM ImplementsStream == Spec => Implements
<1>1. Init => Inv /\ Stream!Init
  BY InitStream
<1>2. Inv /\ [Next]_vars => Inv' /\ [Stream!Next]_streamVars
  BY StreamStep
<1>3. QED
  BY <1>1, <1>2, PTL DEF Spec, Implements, Stream!Spec, streamVars, Ahead

-----------------------------------------------------------------------------
(* Counting what is not null. *)

\* The places of a sequence that hold something.
Places(s) == {i \in DOMAIN s : s[i] # Null}

LEMMA FilledType ==
  ASSUME NEW s \in Seq(Entries)
  PROVE  /\ IsFiniteSet(Places(s)) /\ Filled(s) = Cardinality(Places(s)) /\ Filled(s) \in Nat
         /\ s = <<>> => Filled(s) = 0
<1> DEFINE n == Len(s)
<1>1. n \in Nat /\ DOMAIN s = 1 .. n
  BY LenProperties
<1>2. IsFiniteSet(1 .. n)
  BY <1>1, FS_Interval
<1>3. Places(s) \in SUBSET (1 .. n)
  BY <1>1 DEF Places
<1> HIDE DEF n
<1>4. IsFiniteSet(Places(s))
  BY <1>2, <1>3, FS_Subset
<1>5. Filled(s) = Cardinality(Places(s)) /\ Filled(s) \in Nat
  BY <1>4, FS_CardinalityType DEF Filled, Places
<1>6. s = <<>> => Places(s) = {}
  BY EmptySeq DEF Places
<1>7. QED
  BY <1>4, <1>5, <1>6, FS_EmptySet

\* The head counts for itself.
LEMMA FilledTail ==
  ASSUME NEW s \in Seq(Entries), s # <<>>
  PROVE  Filled(s) = Filled(Tail(s)) + IF Head(s) # Null THEN 1 ELSE 0
<1> DEFINE t == Tail(s)  n == Len(t)
           f == [i \in Places(t) |-> i + 1]
<1>1. /\ t \in Seq(Entries) /\ n \in Nat /\ Len(s) = n + 1 /\ Head(s) = s[1]
      /\ \A i \in 1 .. n : t[i] = s[i + 1]
  BY HeadTailProperties, LenProperties
<1>2. DOMAIN s = 1 .. n + 1 /\ DOMAIN t = 1 .. n
  BY <1>1, LenProperties
<1> HIDE DEF t, n
<1>3. /\ \A i \in Places(t) : i \in Nat /\ i # 0 /\ i + 1 \in Places(s) \ {1}
      /\ \A j \in Places(s) \ {1} : j \in Nat /\ j - 1 \in Places(t) /\ (j - 1) + 1 = j
  BY <1>1, <1>2 DEF Places
<1>4. f \in Bijection(Places(t), Places(s) \ {1})
  <2>1. f \in [Places(t) -> Places(s) \ {1}]
    BY <1>3
  <2>2. \A i, j \in Places(t) : f[i] = f[j] => i = j
    BY <1>3
  <2>3. \A j \in Places(s) \ {1} : \E i \in Places(t) : f[i] = j
    BY <1>3
  <2> HIDE DEF f
  <2>4. f \in Injection(Places(t), Places(s) \ {1})
    BY <2>1, <2>2 DEF Injection, IsInjective
  <2>5. f \in Surjection(Places(t), Places(s) \ {1})
    BY <2>1, <2>3 DEF Surjection
  <2>6. QED
    BY <2>4, <2>5 DEF Bijection
<1>5. IsFiniteSet(Places(t)) /\ IsFiniteSet(Places(s))
  BY <1>1, FilledType
<1>6. Cardinality(Places(s) \ {1}) = Cardinality(Places(t))
  <2>1. ExistsBijection(Places(t), Places(s) \ {1})
    BY <1>4 DEF ExistsBijection
  <2>2. QED
    BY <1>5, <2>1, FS_Bijection
<1>7. /\ Cardinality(Places(s) \ {1}) = IF 1 \in Places(s) THEN Cardinality(Places(s)) - 1
                                        ELSE Cardinality(Places(s))
      /\ Cardinality(Places(s)) \in Nat
  BY <1>5, FS_RemoveElement, FS_CardinalityType
<1>8. 1 \in Places(s) <=> Head(s) # Null
  BY <1>1, <1>2 DEF Places
<1>9. Filled(s) = Cardinality(Places(s)) /\ Filled(t) = Cardinality(Places(t)) /\ Filled(t) \in Nat
  BY <1>1, FilledType
<1>10. QED
  BY <1>6, <1>7, <1>8, <1>9 DEF t

-----------------------------------------------------------------------------
(* The strings. *)

StringInv ==
  /\ Inv
  /\ index \in Nat /\ index <= Len(cache)
  /\ populated = Len(cache)
  /\ dropped => ~calling
  /\ StringsReleased

LEMMA ReleasedInit == Init => StringInv
<1> SUFFICES ASSUME Init PROVE StringInv
  OBVIOUS
<1>1. cache \in Seq(Entries) /\ cache = <<>> /\ Len(cache) = 0
  BY DEF Init
<1>2. SubSeq(cache, index + 1, Len(cache)) = cache
  BY <1>1, WholeRest DEF Init, Rest
<1>3. Filled(SubSeq(cache, index + 1, Len(cache))) = 0
  BY <1>1, <1>2, FilledType
<1>4. StringsReleased
  BY <1>3 DEF Init, StringsReleased
<1>5. /\ index \in Nat /\ index <= Len(cache) /\ populated = Len(cache)
      /\ ~dropped
  BY <1>1 DEF Init
<1>6. QED
  BY <1>4, <1>5, InitStream DEF StringInv

LEMMA ReleasedRefill == StringInv /\ Refill => StringInv'
<1> SUFFICES ASSUME StringInv, Refill PROVE StringInv'
  OBVIOUS
<1>1. PICK batch \in Batches :
        /\ cache' = Written(batch) /\ index' = 0 /\ populated' = Len(Written(batch))
        /\ live' = IF kind = "string" THEN live + Filled(Written(batch)) ELSE 0
        /\ calling' \in {calling, FALSE}
  BY DEF Refill, Populated, Return
<1>2. /\ ~done /\ calling /\ index = Len(cache) /\ cache \in Seq(Entries)
      /\ index \in Nat /\ ~dropped /\ dropped' = dropped /\ kind' = kind
  BY LenProperties DEF Refill, StringInv, Inv
<1>3. Rest(cache, index) = <<>> /\ Rest(cache, index) \in Seq(Entries)
  <2>1. Rest(cache, index) \in Seq(Entries) /\ Len(Rest(cache, index)) = Len(cache) - index
    BY <1>2, RestProperties
  <2>2. Len(Rest(cache, index)) = 0
    BY <1>2, <2>1
  <2>3. QED
    BY <2>1, <2>2, EmptySeq
<1>4. kind = "string" => live = 0
  BY <1>2, <1>3, FilledType DEF StringInv, StringsReleased, Rest
<1>5. cache' \in Seq(Entries)
  BY <1>1, BatchTypes
<1>6. Filled(cache') \in Nat /\ Rest(cache', 0) = cache' /\ Len(cache') \in Nat
  BY <1>5, FilledType, WholeRest, LenProperties
<1>7. SubSeq(cache', index' + 1, Len(cache')) = cache'
  BY <1>1, <1>6 DEF Rest
<1>8. StringsReleased'
  <2>1. kind = "string" => live' = Filled(cache')
    BY <1>1, <1>4, <1>6
  <2>2. QED
    BY <1>2, <1>7, <2>1 DEF StringsReleased
<1>9. Inv'
  BY RefillStep DEF StringInv
<1>10. QED
  BY <1>1, <1>2, <1>6, <1>8, <1>9 DEF StringInv

LEMMA ReleasedEntry == StringInv /\ Entry => StringInv'
<1> SUFFICES ASSUME StringInv, Entry PROVE StringInv'
  OBVIOUS
<1> DEFINE v == cache[index + 1]
           left == IF kind \in {"string", "group"} THEN Null ELSE v
<1>1. /\ calling /\ index \in Nat /\ index < Len(cache) /\ cache \in Seq(Entries)
      /\ index' = index + 1 /\ cache' = [cache EXCEPT ![index + 1] = left]
      /\ live' = IF kind = "string" /\ v # Null THEN live - 1 ELSE live
      /\ calling' \in {calling, FALSE} /\ ~dropped /\ dropped' = dropped
      /\ kind' = kind /\ populated' = populated /\ populated = Len(cache)
  BY DEF Entry, StringInv, Inv, IndexAfter, Return
<1>2. Len(cache) \in Nat /\ index + 1 \in 1 .. Len(cache) /\ index <= Len(cache)
  BY <1>1, LenProperties
<1>3. v \in Entries /\ left \in Entries
  BY <1>1, <1>2, ElementOfSeq DEF Entries
<1> HIDE DEF left
<1>4. cache' \in Seq(Entries) /\ Len(cache') = Len(cache)
  BY <1>1, <1>2, <1>3, ExceptSeq
<1>5. /\ Rest(cache, index) # <<>> /\ Head(Rest(cache, index)) = v
      /\ Rest(cache', index') = Tail(Rest(cache, index))
  <2> DEFINE k == index
             s == cache
             t == cache'
  <2>1. s \in Seq(Entries) /\ k \in Nat /\ k < Len(s) /\ left \in Entries
    BY <1>1, <1>3
  <2>2. t = [s EXCEPT ![k + 1] = left] /\ index' = k + 1 /\ v = s[k + 1]
    BY <1>1
  <2> HIDE DEF k, s, t, v
  <2>3. /\ Rest(s, k) # <<>> /\ Head(Rest(s, k)) = s[k + 1]
        /\ Rest([s EXCEPT ![k + 1] = left], k + 1) = Tail(Rest(s, k))
    BY <2>1, RestTail
  <2>4. QED
    BY <2>2, <2>3 DEF k, s, t
<1>6. Rest(cache, index) \in Seq(Entries)
  BY <1>1, <1>2, RestProperties
<1>7. /\ Filled(Rest(cache, index)) = Filled(Rest(cache', index')) + IF v # Null THEN 1 ELSE 0
      /\ Filled(Rest(cache', index')) \in Nat
  <2>1. Tail(Rest(cache, index)) \in Seq(Entries)
    BY <1>5, <1>6, HeadTailProperties
  <2>2. Filled(Tail(Rest(cache, index))) \in Nat
    BY <2>1, FilledType
  <2>3. QED
    BY <1>5, <1>6, <2>2, FilledTail
<1> HIDE DEF v
<1>8. kind = "string" => live = Filled(Rest(cache, index))
  BY <1>1 DEF StringInv, StringsReleased, Rest
<1>9. kind = "string" => live' = Filled(Rest(cache', index'))
  BY <1>1, <1>7, <1>8
<1>10. StringsReleased'
  BY <1>1, <1>9 DEF StringsReleased, Rest
<1>11. Inv'
  BY EntryStep DEF StringInv
<1>12. QED
  BY <1>1, <1>2, <1>4, <1>10, <1>11 DEF StringInv

LEMMA ReleasedNext == StringInv /\ [Next]_vars => StringInv'
<1> SUFFICES ASSUME StringInv, [Next]_vars PROVE StringInv'
  OBVIOUS
<1>1. Inv'
  BY StreamStep DEF StringInv
<1>2. CASE UNCHANGED vars \/ Call \/ NoValue
  <2>1. /\ UNCHANGED <<kind, cache, index, populated, live, dropped>>
        /\ dropped => ~calling'
    BY <1>2 DEF vars, Call, NoValue, Return, StringInv
  <2>2. QED
    BY <1>1, <2>1 DEF StringInv, StringsReleased
<1>3. CASE Drop
  <2>1. /\ UNCHANGED <<kind, cache, index, populated, calling>> /\ ~calling /\ ~dropped /\ dropped'
        /\ live' = IF kind = "string" THEN live - Filled(SubSeq(cache, index + 1, Len(cache))) ELSE live
    BY <1>3 DEF Drop, StringInv
  <2>2. SubSeq(cache, index + 1, Len(cache)) \in Seq(Entries)
    BY RestProperties DEF StringInv, Inv, Rest
  <2>3. Filled(SubSeq(cache, index + 1, Len(cache))) \in Nat
    BY <2>2, FilledType
  <2>4. kind = "string" => live' = 0
    BY <2>1, <2>3 DEF StringInv, StringsReleased
  <2>5. QED
    BY <1>1, <2>1, <2>4 DEF StringInv, StringsReleased
<1>4. QED
  BY <1>2, <1>3, ReleasedRefill, ReleasedEntry DEF Next

\* Every string the server allocates is freed exactly once: by the turn of next
\* that takes it or by release_pending when the iterator is dropped, also the
\* strings of a batch that failed, was too large or ended the iteration.
THEOREM ReleasesStrings == Spec => []StringsReleased
<1>1. StringInv => StringsReleased
  BY DEF StringInv
<1>2. QED
  BY <1>1, ReleasedInit, ReleasedNext, PTL DEF Spec

-----------------------------------------------------------------------------
(* The wrappers. *)

USE LengthAssumption

\* What every entry of the table has in common: all methods with two slices
\* but one compare their lengths.
MethodOK(m) ==
  /\ m.slices \in 0 .. 2
  /\ m.slices = 2 => "equal" \in m.checks \/ m = AsyncWrite2

\* The blocks the results of a call are.
Held(os) == {<<i>> : i \in {k \in DOMAIN os : os[k].size # Nil}}

\* The strings and arrays that are live are exactly the results still held.
Ownership ==
  /\ stray = FALSE
  /\ at \in {"new", "refused", "idle", "native", "answered", "failed", "taken"}
  /\ at = "new" => blocks = {}
  /\ at \in {"native", "answered", "failed"} => taken = {}
  /\ at \in {"answered", "failed", "taken"} =>
       \A i \in DOMAIN outs : <<i>> \in blocks <=> outs[i].size # Nil
  /\ at = "idle" => blocks \cap ({<<i>> : i \in DOMAIN outs} \cup taken) = {}
  /\ \A b \in taken : Len(b) = 2
  /\ at = "answered" /\ method = BrowseDa3 => 1 \in DOMAIN outs

LEMMA InitOwnership == ObjectInit => Ownership
  BY DEF ObjectInit, Ownership, BlocksReleased

\* The results still held are live.
LEMMA ResultsLive ==
  ASSUME Ownership, at \in {"answered", "failed", "taken"}
  PROVE  Results \subseteq blocks
BY DEF Results, Ownership

\* A call ends when its results and what it has taken of them are freed.
LEMMA GoIdle ==
  ASSUME Ownership, at \in {"answered", "failed", "taken"},
         NEW freed, freed = (taken \cap blocks) \cup Results,
         Free(freed), at' = "idle", UNCHANGED <<outs, taken>>
  PROVE  Ownership'
<1>1. freed \subseteq blocks
  BY ResultsLive
<1>2. blocks' = blocks \ freed /\ stray' = FALSE
  BY <1>1 DEF Free, Ownership
<1>3. ASSUME NEW i \in DOMAIN outs PROVE <<i>> \notin blocks'
  <2>1. <<i>> \in blocks => outs[i].size # Nil
    BY DEF Ownership
  <2>2. outs[i].size # Nil => <<i>> \in Results
    BY DEF Results
  <2>3. QED
    BY <1>2, <2>1, <2>2
<1>4. blocks' \cap taken = {}
  BY <1>2
<1>5. blocks' \cap ({<<i>> : i \in DOMAIN outs} \cup taken) = {}
  BY <1>3, <1>4
<1>6. \A b \in taken : Len(b) = 2
  BY DEF Ownership
<1>7. QED
  BY <1>2, <1>5, <1>6 DEF Ownership

LEMMA NextOwnership == Ownership /\ [ObjectNext]_objectVars => Ownership'
<1> SUFFICES ASSUME Ownership, [ObjectNext]_objectVars PROVE Ownership'
  OBVIOUS
<1>1. CASE Connect
  BY <1>1 DEF Connect, Ownership
<1>2. ASSUME NEW m \in Methods, Invoke(m) PROVE Ownership'
  BY <1>2 DEF Invoke, Ownership
<1>3. CASE Answers
  <2>1. PICK inner :
          /\ inner \subseteq Contents(method.outs, outs')
          /\ blocks' = Held(outs') \cup inner
    BY <1>3 DEF Answers, Held
  <2>2. \A i, k, j : <<i>> # <<k, j>>
    OBVIOUS
  <2>3. \A i : <<i>> \notin inner
    BY <2>1, <2>2 DEF Contents
  <2>4. \A i \in DOMAIN outs' : <<i>> \in blocks' <=> outs'[i].size # Nil
    BY <2>1, <2>3 DEF Held
  <2>5. method = BrowseDa3 => 1 \in DOMAIN outs'
    BY <1>3 DEF Answers, BrowseDa3, Listing, Method
  <2>6. QED
    BY <1>3, <2>4, <2>5 DEF Answers, Ownership
<1>4. CASE Fails
  BY <1>4 DEF Fails, Ownership
<1>5. CASE DropResults
  <2>1. /\ at \in {"answered", "failed", "taken"} /\ Free(Results) /\ at' = "idle"
        /\ UNCHANGED <<outs, taken>> /\ (at = "taken" => taken \cap blocks = {})
    BY <1>5 DEF DropResults
  <2>2. Results = (taken \cap blocks) \cup Results
    BY <2>1 DEF Ownership
  <2>3. QED
    BY <2>1, <2>2, GoIdle
<1>6. CASE BadContinuation
  <2>1. at = "answered" /\ Free(Results) /\ at' = "idle" /\ UNCHANGED <<outs, taken>>
    BY <1>6 DEF BadContinuation
  <2>2. Results = (taken \cap blocks) \cup Results
    BY <2>1 DEF Ownership
  <2>3. QED
    BY <2>1, <2>2, GoIdle
<1>7. CASE Take
  <2>1. 1 \in DOMAIN outs
    BY <1>7 DEF Take, Ownership
  <2>2. /\ DOMAIN outs' = DOMAIN outs /\ outs'[1].size = Nil
        /\ \A i \in DOMAIN outs : i # 1 => outs'[i] = outs[i]
    BY <1>7, <2>1 DEF Take
  <2>3. blocks' = blocks \ {<<1>>} /\ stray' = stray
    BY <1>7 DEF Take, Free, Ownership
  <2>4. \A i : i # 1 => <<i>> # <<1>>
    OBVIOUS
  <2>5. \A i \in DOMAIN outs' : <<i>> \in blocks' <=> outs'[i].size # Nil
    BY <1>7, <2>2, <2>3, <2>4 DEF Take, Ownership
  <2>6. \A b \in taken' : Len(b) = 2
    BY <1>7 DEF Take
  <2>7. QED
    BY <1>7, <2>3, <2>5, <2>6 DEF Take, Ownership
<1>8. CASE Convert
  <2>1. PICK b \in taken \cap blocks :
          \/ Free({b}) /\ UNCHANGED at
          \/ Free(DroppedWith(b) \cup Results) /\ at' = "idle"
    BY <1>8 DEF Convert
  <2>2. \A i : <<i>> # b
    <3>1. \A i : Len(<<i>>) = 1
      OBVIOUS
    <3>2. QED
      BY <2>1, <3>1 DEF Ownership
  <2>3. CASE Free({b}) /\ UNCHANGED at
    BY <1>8, <2>2, <2>3 DEF Convert, Free, Ownership
  <2>4. CASE Free(DroppedWith(b) \cup Results) /\ at' = "idle"
    <3>1. at = "taken" /\ UNCHANGED <<outs, taken>>
      BY <1>8 DEF Convert
    <3>2. Free((taken \cap blocks) \cup Results)
      BY <2>4 DEF DroppedWith
    <3>3. QED
      BY <2>4, <3>1, <3>2, GoIdle
  <2>5. QED
    BY <2>1, <2>3, <2>4
<1>9. CASE UNCHANGED objectVars
  BY <1>9 DEF objectVars, Ownership
<1>10. QED
  BY <1>1, <1>2, <1>3, <1>4, <1>5, <1>6, <1>7, <1>8, <1>9 DEF ObjectNext

(***************************************************************************)
(* Blocks are freed once, and all a call returned is freed at its end:     *)
(* the wrappers of com_utils.rs, and the order of browse_da3.              *)
(***************************************************************************)
THEOREM ReleasedHolds == ObjectSpec => []BlocksReleased
<1>1. Ownership => BlocksReleased
  BY DEF Ownership, BlocksReleased
<1>2. QED
  BY <1>1, InitOwnership, NextOwnership, PTL DEF ObjectSpec

-----------------------------------------------------------------------------
\* Every entry of the table but AsyncIo2::write compares the lengths of two
\* slices.
LEMMA MethodsOK == \A m \in Methods : MethodOK(m)
<1>1. ASSUME NEW interface, NEW checks, NEW outs0
      PROVE  /\ MethodOK(Batch(interface, 0, checks, outs0))
             /\ MethodOK(Batch(interface, 1, checks, outs0))
             /\ MethodOK(Batch(interface, 2, Both, outs0))
             /\ MethodOK(Batch(interface, 2, {"equal"}, outs0))
             /\ MethodOK(Listing(interface, outs0))
  BY DEF MethodOK, Batch, Listing, Method, Both
<1>2. /\ MethodOK(AddItems) /\ MethodOK(ValidateItems) /\ MethodOK(RemoveItems) /\ MethodOK(SetActiveState)
      /\ MethodOK(SetClientHandles) /\ MethodOK(SetDatatypes) /\ MethodOK(CreateEnumerator)
  BY <1>1 DEF Scalar, AddItems, ValidateItems, RemoveItems, SetActiveState, SetClientHandles,
              SetDatatypes, CreateEnumerator
<1>3. /\ MethodOK(SyncRead) /\ MethodOK(SyncWrite) /\ MethodOK(SyncReadMaxAge) /\ MethodOK(SyncWriteVqt)
      /\ MethodOK(ItemRead) /\ MethodOK(ItemWriteVqt)
  BY <1>1 DEF SyncRead, SyncWrite, SyncReadMaxAge, SyncWriteVqt, ItemRead, ItemWriteVqt
<1>4. \A m \in {AsyncRead, AsyncWrite, AsyncControl, AsyncRead2, AsyncControl2,
                AsyncReadMaxAge, AsyncWriteVqt, AsyncRefreshMaxAge, SetItemSamplingRate,
                GetItemSamplingRate, ClearItemSamplingRate, SetItemBufferEnable,
                GetItemBufferEnable, SetItemDeadband, GetItemDeadband, ClearItemDeadband} :
        MethodOK(m)
  BY <1>1 DEF Scalar, AsyncRead, AsyncWrite, AsyncControl, AsyncRead2, AsyncControl2,
         AsyncReadMaxAge, AsyncWriteVqt, AsyncRefreshMaxAge,
         SetItemSamplingRate, GetItemSamplingRate, ClearItemSamplingRate, SetItemBufferEnable,
         GetItemBufferEnable, SetItemDeadband, GetItemDeadband, ClearItemDeadband
<1>5. \A m \in {AddGroup, GetStatus, GroupCalls, Locale, QueryAvailableLocaleIds,
                GetErrorString, ClientName} :
        MethodOK(m)
  BY <1>1 DEF Scalar, Text, AddGroup, GetStatus, GroupCalls, Locale, QueryAvailableLocaleIds,
              GetErrorString, ClientName
<1>6. \A m \in {ConnectionPoints, PublicGroups, GetState, GroupSettings, KeepAlive,
                PublicState, DataTransfer} :
        MethodOK(m)
  BY <1>1 DEF Scalar, Text, ConnectionPoints, PublicGroups, GetState, GroupSettings, KeepAlive,
              PublicState, DataTransfer
<1>7. \A m \in {QueryAvailableProperties, GetItemProperties, LookupItemIds, Navigation,
                GetItemId, BrowseAccessPaths, GetProperties, BrowseDa3} :
        MethodOK(m)
  BY <1>1 DEF Scalar, Text, QueryAvailableProperties, GetItemProperties, LookupItemIds,
              Navigation, GetItemId, BrowseAccessPaths, GetProperties, BrowseDa3
<1>8. MethodOK(AsyncWrite2)
  BY DEF MethodOK, AsyncWrite2, Batch, Method
<1>9. QED
  BY <1>2, <1>3, <1>4, <1>5, <1>6, <1>7, <1>8 DEF Methods

\* What is known of a call on its way out and of its answer.
Bounds ==
  /\ at \in {"new", "refused", "idle", "native", "answered", "failed", "taken"}
  /\ at \notin {"new", "refused"} => object.required \subseteq offers
  /\ at = "native" =>
       /\ method \in Methods /\ method.of \in Fields
       /\ lens \in [1 .. method.slices -> 0 .. MaxLen]
       /\ Accepted(method, lens)
  /\ at = "answered" =>
       \A i \in DOMAIN outs :
          \/ outs[i].size = Nil
          \/ outs[i].size = outs[i].len /\ outs[i].len \in Nat

LEMMA InitBounds == ObjectInit => Bounds
  BY DEF ObjectInit, Bounds

LEMMA NextBounds == Bounds /\ [ObjectNext]_objectVars => Bounds'
<1> SUFFICES ASSUME Bounds, [ObjectNext]_objectVars PROVE Bounds'
  OBVIOUS
<1>1. CASE Connect
  BY <1>1 DEF Connect, Bounds
<1>2. ASSUME NEW m \in Methods, Invoke(m) PROVE Bounds'
  BY <1>2 DEF Invoke, Bounds, Fields, Accepted
<1>3. CASE Answers
  <2> DEFINE
    Answered(n, null) ==
      outs' = [i \in DOMAIN method.outs |->
                 LET k == IF method.outs[i] = "string" THEN 1 ELSE n
                 IN  [size |-> IF i \in null THEN Nil ELSE k, len |-> k]]
  <2>1. PICK n \in Nat, null \in SUBSET DOMAIN method.outs : Answered(n, null)
    <3>1. Count \in Nat
      <4>1. method.slices \in 0 .. 2
        BY <1>3, MethodsOK DEF Answers, Bounds, MethodOK
      <4>2. CASE method.slices = 0
        BY <1>3, <4>2 DEF Answers, Bounds, Count
      <4>3. CASE method.slices # 0
        <5>1. lens \in [1 .. method.slices -> 0 .. MaxLen]
          BY <1>3 DEF Answers, Bounds
        <5>2. 1 \in 1 .. method.slices
          BY <4>1, <4>3
        <5>3. lens[1] \in Nat
          BY <5>1, <5>2, LengthAssumption
        <5>4. QED
          BY <5>3 DEF Count
      <4>4. QED
        BY <4>2, <4>3
    <3>2. PICK n \in IF method.size = "request" THEN {Count} ELSE 0 .. MaxLen :
            \E null \in SUBSET DOMAIN method.outs : Answered(n, null)
      BY <1>3 DEF Answers
    <3>3. n \in Nat
      BY <3>1, <3>2
    <3>4. QED
      BY <3>2, <3>3
  <2>2. \A i \in DOMAIN outs' :
          \/ outs'[i].size = Nil
          \/ outs'[i].size = outs'[i].len /\ outs'[i].len \in Nat
    BY <2>1
  <2>3. QED
    BY <1>3, <2>2 DEF Answers, Bounds
<1>4. CASE Fails
  BY <1>4 DEF Fails, Bounds
<1>5. CASE DropResults
  BY <1>5 DEF DropResults, Bounds
<1>6. CASE BadContinuation
  BY <1>6 DEF BadContinuation, Bounds
<1>7. CASE Take
  BY <1>7 DEF Take, Bounds
<1>8. CASE Convert
  BY <1>8 DEF Convert, Bounds
<1>9. CASE UNCHANGED objectVars
  BY <1>9 DEF objectVars, Bounds, Fields, Accepted
<1>10. QED
  BY <1>1, <1>2, <1>3, <1>4, <1>5, <1>6, <1>7, <1>8, <1>9 DEF ObjectNext

(***************************************************************************)
(* The slices a call reads and the views of what it returns stay within    *)
(* their arrays, whatever their lengths: the checks of traits/*.rs, with   *)
(* AsyncIo2::write, which has none, excepted, and RemoteArray's view of a  *)
(* null array.                                                             *)
(***************************************************************************)
THEOREM WithinHolds == ObjectSpec => []WithinArrays
<1>1. ASSUME Bounds PROVE WithinArrays
  <2>1. ASSUME at = "native"
        PROVE  /\ method.of \in offers
               /\ method # AsyncWrite2 => \A i \in DOMAIN lens : lens[i] >= Count
    <3>1. method.of \in offers
      BY <1>1, <2>1 DEF Bounds, Fields
    <3>2. /\ method.slices \in 0 .. 2
          /\ method.slices = 2 => "equal" \in method.checks \/ method = AsyncWrite2
      BY <1>1, <2>1, MethodsOK DEF Bounds, MethodOK
    <3>3. lens \in [1 .. method.slices -> 0 .. MaxLen]
      BY <1>1, <2>1 DEF Bounds
    <3>4. ASSUME method # AsyncWrite2, NEW i \in DOMAIN lens PROVE lens[i] >= Count
      <4>1. CASE method.slices = 2
        <5>1. lens \in [1 .. 2 -> 0 .. MaxLen] /\ i \in 1 .. 2
          BY <3>3, <3>4, <4>1
        <5>2. lens[1] = lens[2]
          BY <1>1, <2>1, <3>2, <3>4, <4>1 DEF Bounds, Accepted
        <5>3. lens # <<>>
          BY <5>1
        <5>4. Count = lens[i] /\ lens[i] \in Nat
          BY <5>1, <5>2, <5>3 DEF Count
        <5>5. QED
          BY <5>4
      <4>2. CASE method.slices # 2
        BY <3>2, <3>3, <3>4, <4>2 DEF Count
      <4>3. QED
        BY <4>1, <4>2
    <3>5. QED
      BY <3>1, <3>4
  <2>2. ASSUME at = "answered", NEW i \in DOMAIN outs
        PROVE View(outs[i]) <= IF outs[i].size = Nil THEN 0 ELSE outs[i].size
    BY <1>1, <2>2 DEF Bounds, View
  <2>3. QED
    BY <2>1, <2>2 DEF WithinArrays
<1>2. QED
  BY <1>1, InitBounds, NextBounds, PTL DEF ObjectSpec
=============================================================================
