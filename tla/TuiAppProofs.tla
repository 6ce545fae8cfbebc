----------------------------- MODULE TuiAppProofs -----------------------------
(***************************************************************************)
(* Theorems about TuiApp, for any servers, tags and number of calls under  *)
(* way: the types, which answer the values screen takes, which row it      *)
(* highlights and which tag a typed value is for.                          *)
(***************************************************************************)
EXTENDS TuiApp, SequenceTheorems, FiniteSetTheorems, TLAPS

USE DEF listVars, valueVars, cursorVars

-----------------------------------------------------------------------------
(* The worker's queue. *)

IsQueue(s) == s \in Seq(Range(s))

LEMMA SeqIsQueue == ASSUME NEW S, NEW s \in Seq(S) PROVE IsQueue(s)
<1>1. s \in [1 .. Len(s) -> S] /\ Len(s) \in Nat
  BY LenProperties
<1>2. s \in [1 .. Len(s) -> Range(s)]
  BY <1>1 DEF Range
<1>3. QED
  BY <1>1, <1>2 DEF IsQueue

LEMMA QueueLen ==
  ASSUME NEW s, IsQueue(s)
  PROVE  Len(s) \in Nat /\ DOMAIN s = 1 .. Len(s)
BY LenProperties DEF IsQueue

LEMMA AppendQueue ==
  ASSUME NEW s, IsQueue(s), NEW e
  PROVE  /\ IsQueue(Append(s, e)) /\ Len(Append(s, e)) = Len(s) + 1
         /\ \A i \in 1 .. Len(s) : Append(s, e)[i] = s[i]
         /\ Append(s, e)[Len(s) + 1] = e
<1> DEFINE S == Range(s) \cup {e}
<1>1. s \in Seq(S) /\ e \in S
  BY SeqMonotonic DEF IsQueue
<1> HIDE DEF S
<1>2. /\ Append(s, e) \in Seq(S) /\ Len(Append(s, e)) = Len(s) + 1
      /\ \A i \in 1 .. Len(s) : Append(s, e)[i] = s[i]
      /\ Append(s, e)[Len(s) + 1] = e
  BY <1>1, AppendProperties
<1>3. IsQueue(Append(s, e))
  BY <1>2, SeqIsQueue
<1>4. QED
  BY <1>2, <1>3

LEMMA TailQueue ==
  ASSUME NEW s, IsQueue(s), s # <<>>
  PROVE  /\ Len(s) \in Nat \ {0} /\ Head(s) = s[1]
         /\ IsQueue(Tail(s)) /\ Len(Tail(s)) = Len(s) - 1
         /\ \A i \in 1 .. Len(Tail(s)) : Tail(s)[i] = s[i + 1]
<1> DEFINE S == Range(s)
<1>1. s \in Seq(S)
  BY DEF IsQueue
<1> HIDE DEF S
<1>2. Len(s) \in Nat \ {0}
  BY <1>1, EmptySeq
<1>3. Head(s) = s[1]
  BY <1>1, <1>2
<1>4. /\ Tail(s) \in Seq(S) /\ Len(Tail(s)) = Len(s) - 1
      /\ \A i \in 1 .. Len(Tail(s)) : Tail(s)[i] = s[i + 1]
  BY <1>1, HeadTailProperties
<1>5. IsQueue(Tail(s))
  BY <1>4, SeqIsQueue
<1>6. QED
  BY <1>2, <1>3, <1>4, <1>5

-----------------------------------------------------------------------------
(* Types. *)

\* What a browse lists, and what a read asks for and returns.
TagLists == {NoTags} \cup {[srv |-> sv, len |-> n] : sv \in Range(Servers), n \in 1 .. MaxTags}
Tables == {Target(sv, of, ns) : sv \in Range(Servers), of \in Range(Servers),
                                ns \in (SUBSET (1 .. MaxTags)) \ {{}}}

\* Screens, lists and selections.
ListsOK ==
  /\ screen \in {"Home", "Loading", "ServerList", "TagList", "TagValues", "WriteInput", "Exiting"}
  /\ servers \in {<<>>, Servers} /\ browsed \in Range(Servers) \cup {Nil}
  /\ tags \in TagLists
  /\ marked \subseteq 1 .. tags.len
  /\ values \in Tables \cup {Nil} /\ refresh \in Tables \cup {Nil}
  /\ writing # Nil => writing.srv \in Range(Servers) /\ writing.tag \in 1 .. MaxTags
  /\ pc \in Steps

LastRow == Max({MaxTags, Len(Servers)})

CursorOK ==
  /\ index \in 0 .. LastRow /\ row \in 0 .. LastRow
  /\ search # Nil => /\ search.matches \subseteq 1 .. MaxTags
                     /\ search.at \in {1} \cup 1 .. Cardinality(search.matches)

\* What the calls are about, what their results hold, and who is waited for.
CallOK(c) ==
  /\ c.kind \in Kinds
  /\ c.kind = "browse" => c.about \in Range(Servers)
  /\ c.kind = "read" => c.about \in Tables

ResultOK(kind, r) ==
  r # Nil /\ r.ok =>
    /\ kind = "fetch" => r.what \in {<<>>, Servers}
    /\ kind = "browse" => r.what \in TagLists
    /\ kind = "read" => r.what \in Tables

CallsOK ==
  /\ IsQueue(calls) /\ Len(calls) <= MaxOutstanding
  /\ \A i \in 1 .. Len(calls) : calls[i] # Unawaited => CallOK(calls[i]) /\ rx[calls[i].kind] = Waiting
  /\ \A i, j \in 1 .. Len(calls) :
       calls[i] # Unawaited /\ calls[i].kind = calls[j].kind => i = j
  /\ DOMAIN rx = Kinds
  /\ \A k \in Kinds : ResultOK(k, rx[k])

TypeInv == ListsOK /\ CursorOK /\ CallsOK

LEMMA ServersSeq ==
  /\ Servers \in Seq(Range(Servers)) /\ Len(Servers) \in Nat
  /\ DOMAIN Servers = 1 .. Len(Servers)
  /\ \A i \in 1 .. Len(Servers) : Servers[i] \in Range(Servers)
<1>1. Servers \in Seq(Range(Servers))
  BY TuiAssumption
<1>2. Len(Servers) \in Nat /\ DOMAIN Servers = 1 .. Len(Servers)
  BY <1>1, LenProperties
<1>3. QED
  BY <1>1, <1>2 DEF Range

LEMMA LastRowBounds == LastRow \in Nat /\ MaxTags <= LastRow /\ Len(Servers) <= LastRow /\ 1 <= LastRow
<1>1. MaxTags \in Nat \ {0} /\ Len(Servers) \in Nat
  BY TuiAssumption, ServersSeq
<1>2. \E x \in {MaxTags, Len(Servers)} : \A y \in {MaxTags, Len(Servers)} : x >= y
  BY <1>1
<1>3. LastRow \in {MaxTags, Len(Servers)} /\ \A y \in {MaxTags, Len(Servers)} : LastRow >= y
  BY <1>2 DEF LastRow, Max
<1>4. QED
  BY <1>1, <1>3

\* The tags of a server, some of them.
LEMMA BoundsType == MaxTags \in Nat \ {0} /\ MaxOutstanding \in Nat /\ Page \in Nat \ {0, 1}
BY TuiAssumption

LEMMA SomeTags ==
  ASSUME NEW S, S \in SUBSET (1 .. MaxTags)
  PROVE  /\ IsFiniteSet(S)
         /\ Cardinality(S) \in 0 .. MaxTags
         /\ S # {} => Cardinality(S) # 0
<1> DEFINE Tags == 1 .. MaxTags
<1>1. IsFiniteSet(Tags) /\ Cardinality(Tags) = MaxTags
  <2>1. MaxTags \in Int /\ 1 \in Int /\ ~(1 > MaxTags) /\ MaxTags - 1 + 1 = MaxTags
    BY BoundsType
  <2>2. /\ IsFiniteSet(1 .. MaxTags)
        /\ Cardinality(1 .. MaxTags) = IF 1 > MaxTags THEN 0 ELSE MaxTags - 1 + 1
    BY <2>1, FS_Interval, Zenon
  <2>3. QED
    BY <2>1, <2>2
<1>2. S \in SUBSET Tags
  OBVIOUS
<1> HIDE DEF Tags
<1>3. IsFiniteSet(S) /\ Cardinality(S) <= MaxTags
  BY <1>1, <1>2, FS_Subset
<1>4. Cardinality(S) \in Nat /\ (Cardinality(S) = 0 <=> S = {})
  BY <1>3, FS_CardinalityType, FS_EmptySet
<1>5. Cardinality(S) \in 0 .. MaxTags
  BY <1>3, <1>4, BoundsType
<1>6. QED
  BY <1>3, <1>4, <1>5

\* A table has at least one row and no more than a server has tags.
LEMMA TableRows ==
  ASSUME NEW v \in Tables
  PROVE  /\ v.srv \in Range(Servers) /\ v.of \in Range(Servers)
         /\ v.ns \in (SUBSET (1 .. MaxTags)) \ {{}}
         /\ Cardinality(v.ns) \in 1 .. MaxTags
<1>1. /\ v.srv \in Range(Servers) /\ v.of \in Range(Servers)
      /\ v.ns \in (SUBSET (1 .. MaxTags)) \ {{}}
  <2> DEFINE S == (SUBSET (1 .. MaxTags)) \ {{}}
  <2>1. Tables = {Target(sv, of, ns) : sv \in Range(Servers), of \in Range(Servers), ns \in S}
    BY DEF Tables
  <2> HIDE DEF S
  <2>2. PICK sv \in Range(Servers), of \in Range(Servers), ns \in S :
          v = [srv |-> sv, of |-> of, ns |-> ns]
    BY <2>1 DEF Target
  <2>3. v.srv \in Range(Servers) /\ v.of \in Range(Servers) /\ v.ns \in S
    BY <2>2
  <2>4. QED
    BY <2>3 DEF S
<1>2. v.ns \in SUBSET (1 .. MaxTags) /\ v.ns # {}
  BY <1>1
<1>3. Cardinality(v.ns) \in 0 .. MaxTags /\ Cardinality(v.ns) # 0
  BY <1>2, SomeTags, Zenon
<1>4. QED
  BY <1>1, <1>3, BoundsType

LEMMA RowsBounds ==
  ASSUME ListsOK
  PROVE  Rows(values) \in 0 .. MaxTags /\ (values # Nil => Rows(values) >= 1)
BY TableRows, BoundsType DEF ListsOK, Rows

LEMMA TagsBounds ==
  ASSUME ListsOK
  PROVE  tags.len \in 0 .. MaxTags /\ (tags.len # 0 => tags.srv \in Range(Servers))
BY BoundsType DEF ListsOK, TagLists, NoTags

\* The queue a call is put in: those of its kind are no longer awaited.
LEMMA StartQueue ==
  ASSUME IsQueue(calls), NEW kind, NEW about, Start(kind, about)
  PROVE  /\ Len(calls) \in Nat /\ DOMAIN calls = 1 .. Len(calls)
         /\ IsQueue(calls') /\ Len(calls') = Len(calls) + 1
         /\ \A i \in 1 .. Len(calls) :
              calls'[i] = IF calls[i].kind = kind THEN Unawaited ELSE calls[i]
         /\ calls'[Len(calls) + 1] = [kind |-> kind, about |-> about]
<1> DEFINE mine(c) == IF c.kind = kind THEN Unawaited ELSE c
           queue == [i \in DOMAIN calls |-> mine(calls[i])]
           call == [kind |-> kind, about |-> about]
<1>1. calls' = Append(queue, call)
  BY DEF Start
<1>2. Len(calls) \in Nat /\ DOMAIN calls = 1 .. Len(calls)
  BY QueueLen
<1>3. queue \in [1 .. Len(calls) -> {mine(calls[i]) : i \in 1 .. Len(calls)}]
  BY <1>2
<1>4. queue \in Seq({mine(calls[i]) : i \in 1 .. Len(calls)})
  BY <1>2, <1>3
<1>5. IsQueue(queue) /\ Len(queue) = Len(calls)
  <2>1. Len(queue) = Len(calls)
    BY <1>2, <1>3
  <2>2. IsQueue(queue)
    BY <1>4, SeqIsQueue
  <2>3. QED
    BY <2>1, <2>2
<1>6. \A i \in 1 .. Len(calls) : queue[i] = mine(calls[i])
  BY <1>2
<1> HIDE DEF queue, call, mine
<1>7. /\ IsQueue(calls') /\ Len(calls') = Len(calls) + 1
      /\ \A i \in 1 .. Len(calls) : calls'[i] = mine(calls[i])
      /\ calls'[Len(calls) + 1] = call
  BY <1>1, <1>5, <1>6, AppendQueue
<1>8. QED
  BY <1>2, <1>7 DEF mine, call

LEMMA TypeStart ==
  ASSUME CallsOK, NEW kind \in Kinds, NEW about, Start(kind, about),
         CallOK([kind |-> kind, about |-> about])
  PROVE  CallsOK'
<1>1. /\ Len(calls) < MaxOutstanding
      /\ rx' = [rx EXCEPT ![kind] = Waiting]
  BY DEF Start
<1>2. /\ Len(calls) \in Nat /\ DOMAIN calls = 1 .. Len(calls)
      /\ IsQueue(calls') /\ Len(calls') = Len(calls) + 1
      /\ \A i \in 1 .. Len(calls) :
           calls'[i] = IF calls[i].kind = kind THEN Unawaited ELSE calls[i]
      /\ calls'[Len(calls) + 1] = [kind |-> kind, about |-> about]
  BY StartQueue DEF CallsOK
<1>3. Len(calls') <= MaxOutstanding
  BY <1>1, <1>2, BoundsType
<1>4. DOMAIN rx' = Kinds /\ rx'[kind] = Waiting /\ \A k \in Kinds \ {kind} : rx'[k] = rx[k]
  BY <1>1 DEF CallsOK
<1>5. ASSUME NEW i \in 1 .. Len(calls'), calls'[i] # Unawaited
      PROVE  /\ CallOK(calls'[i]) /\ rx'[calls'[i].kind] = Waiting
             /\ \/ i = Len(calls) + 1 /\ calls'[i].kind = kind
                \/ i \in 1 .. Len(calls) /\ calls'[i] = calls[i] /\ calls[i].kind # kind
  <2>1. CASE i = Len(calls) + 1
    BY <1>2, <1>4, <2>1
  <2>2. CASE i \in 1 .. Len(calls)
    <3>1. calls'[i] = calls[i] /\ calls[i].kind # kind
      BY <1>2, <1>5, <2>2
    <3>2. CallOK(calls[i]) /\ rx[calls[i].kind] = Waiting
      BY <1>5, <2>2, <3>1 DEF CallsOK
    <3>3. QED
      BY <1>4, <2>2, <3>1, <3>2 DEF CallOK
  <2>3. QED
    BY <1>2, <2>1, <2>2
<1>6. ASSUME NEW i \in 1 .. Len(calls'), NEW j \in 1 .. Len(calls'),
             calls'[i] # Unawaited, calls'[i].kind = calls'[j].kind
      PROVE  i = j
  <2>1. calls'[i].kind \in Kinds /\ Unawaited.kind \notin Kinds
    BY <1>5, <1>6 DEF CallOK, Unawaited, Kinds
  <2>2. calls'[j] # Unawaited
    BY <1>6, <2>1
  <2>3. CASE i = Len(calls) + 1
    BY <1>5, <1>6, <2>2, <2>3, <1>2
  <2>4. CASE i # Len(calls) + 1
    <3>1. /\ i \in 1 .. Len(calls) /\ calls'[i] = calls[i] /\ calls[i].kind # kind
      BY <1>5, <1>6, <2>4
    <3>2. /\ j \in 1 .. Len(calls) /\ calls'[j] = calls[j]
      BY <1>5, <1>6, <2>2, <3>1
    <3>3. QED
      BY <1>6, <3>1, <3>2 DEF CallsOK
  <2>5. QED
    BY <2>3, <2>4
<1>7. \A k \in Kinds : ResultOK(k, rx'[k])
  <2>1. ResultOK(kind, Waiting)
    BY DEF ResultOK, Waiting
  <2>2. \A k \in Kinds : ResultOK(k, rx[k])
    BY DEF CallsOK
  <2>3. QED
    BY <1>4, <2>1, <2>2
<1>8. \A i \in 1 .. Len(calls') :
        calls'[i] # Unawaited => CallOK(calls'[i]) /\ rx'[calls'[i].kind] = Waiting
  BY <1>5
<1>9. \A i, j \in 1 .. Len(calls') :
        calls'[i] # Unawaited /\ calls'[i].kind = calls'[j].kind => i = j
  BY <1>6
<1>10. IsQueue(calls') /\ DOMAIN rx' = Kinds
  BY <1>2, <1>4
<1>11. QED
  BY <1>3, <1>7, <1>8, <1>9, <1>10 DEF CallsOK

LEMMA TypeServed ==
  ASSUME CallsOK, Served
  PROVE  CallsOK'
<1>1. /\ calls # <<>> /\ calls' = Tail(calls)
      /\ IF Head(calls) # Unawaited
         THEN \E r \in Successes(Head(calls)) \cup {Failed} : Deliver(Head(calls).kind, r)
         ELSE UNCHANGED rx
  BY DEF Served
<1>2. /\ Len(calls) \in Nat \ {0} /\ Head(calls) = calls[1]
      /\ IsQueue(calls') /\ Len(calls') = Len(calls) - 1
      /\ \A i \in 1 .. Len(calls') : calls'[i] = calls[i + 1]
  BY <1>1, TailQueue DEF CallsOK
<1>3. 1 \in 1 .. Len(calls) /\ \A i \in 1 .. Len(calls') : i + 1 \in 1 .. Len(calls) /\ i + 1 # 1
  BY <1>2
<1>4. DOMAIN rx' = Kinds /\ Len(calls') <= MaxOutstanding
  BY <1>1, <1>2, BoundsType DEF Deliver, CallsOK
<1>5. ASSUME NEW i \in 1 .. Len(calls'), calls'[i] # Unawaited
      PROVE  CallOK(calls'[i]) /\ rx'[calls'[i].kind] = Waiting
  <2>1. /\ CallOK(calls[i + 1]) /\ rx[calls[i + 1].kind] = Waiting
        /\ calls[1] # Unawaited => calls[1].kind # calls[i + 1].kind
    BY <1>2, <1>3, <1>5 DEF CallsOK
  <2>2. rx'[calls[i + 1].kind] = rx[calls[i + 1].kind]
    BY <1>1, <1>2, <2>1 DEF Deliver, CallOK, CallsOK
  <2>3. QED
    BY <1>2, <2>1, <2>2
<1>6. \A i, j \in 1 .. Len(calls') :
        calls'[i] # Unawaited /\ calls'[i].kind = calls'[j].kind => i = j
  <2>1. ASSUME NEW i \in 1 .. Len(calls'), NEW j \in 1 .. Len(calls'),
               calls'[i] # Unawaited, calls'[i].kind = calls'[j].kind
        PROVE  i + 1 = j + 1
    BY <1>2, <1>3, <2>1 DEF CallsOK
  <2>2. QED
    BY <1>2, <2>1
<1>7. \A k \in Kinds : ResultOK(k, rx'[k])
  <2>1. ASSUME calls[1] # Unawaited, NEW r \in Successes(calls[1]) \cup {Failed}
        PROVE  ResultOK(calls[1].kind, r)
    <3>1. CallOK(calls[1])
      BY <1>3, <2>1 DEF CallsOK
    <3>2. CASE r = Failed
      BY <3>2 DEF ResultOK, Failed
    <3>3. CASE calls[1].kind = "fetch" /\ r \in Successes(calls[1])
      BY <3>3 DEF ResultOK, Successes, Found
    <3>4. CASE calls[1].kind = "browse" /\ r \in Successes(calls[1])
      BY <3>1, <3>4 DEF ResultOK, Successes, Found, CallOK, TagLists
    <3>5. CASE calls[1].kind = "read" /\ r \in Successes(calls[1])
      BY <3>1, <3>5 DEF ResultOK, Successes, Found, CallOK
    <3>6. CASE calls[1].kind = "write"
      BY <3>6 DEF ResultOK
    <3>7. QED
      BY <3>1, <3>2, <3>3, <3>4, <3>5, <3>6 DEF CallOK, Kinds
  <2>2. QED
    BY <1>1, <1>2, <2>1 DEF Deliver, CallsOK
<1>8. QED
  BY <1>2, <1>4, <1>5, <1>6, <1>7 DEF CallsOK

LEMMA TypeTimesOut ==
  ASSUME CallsOK, TimesOut
  PROVE  CallsOK'
<1>1. PICK i \in DOMAIN calls :
        /\ calls[i] # Unawaited
        /\ \/ Deliver(calls[i].kind, Failed)
           \/ /\ calls[i].kind = "browse"
              /\ \E n \in 1 .. MaxTags :
                   Deliver("browse", Found([srv |-> calls[i].about, len |-> n]))
        /\ calls' = [calls EXCEPT ![i] = Unawaited]
  BY DEF TimesOut
<1>2. Len(calls) \in Nat /\ DOMAIN calls = 1 .. Len(calls)
  BY QueueLen DEF CallsOK
<1>3. calls \in Seq(Range(calls) \cup {Unawaited})
  BY SeqMonotonic DEF CallsOK, IsQueue
<1>4. /\ calls' \in Seq(Range(calls) \cup {Unawaited}) /\ Len(calls') = Len(calls)
      /\ \A j \in 1 .. Len(calls) : calls'[j] = IF j = i THEN Unawaited ELSE calls[j]
  BY <1>1, <1>2, <1>3
<1>5. IsQueue(calls') /\ Len(calls') <= MaxOutstanding
  <2>1. IsQueue(calls')
    BY <1>4, SeqIsQueue
  <2>2. QED
    BY <1>4, <2>1 DEF CallsOK
<1>6. PICK r : /\ Deliver(calls[i].kind, r)
               /\ \/ r = Failed
                  \/ /\ calls[i].kind = "browse"
                     /\ \E n \in 1 .. MaxTags : r = Found([srv |-> calls[i].about, len |-> n])
  BY <1>1
<1>7. CallOK(calls[i])
  BY <1>1, <1>2 DEF CallsOK
<1>8. ResultOK(calls[i].kind, r)
  <2>1. CASE r = Failed
    BY <2>1 DEF ResultOK, Failed
  <2>2. CASE r # Failed
    BY <1>6, <1>7, <2>2 DEF ResultOK, Found, CallOK, TagLists
  <2>3. QED
    BY <2>1, <2>2
<1>9. /\ DOMAIN rx' = Kinds /\ rx'[calls[i].kind] = r
      /\ \A k \in Kinds \ {calls[i].kind} : rx'[k] = rx[k]
  BY <1>6, <1>7 DEF Deliver, CallsOK, CallOK
<1>10. ASSUME NEW j \in 1 .. Len(calls'), calls'[j] # Unawaited
       PROVE  CallOK(calls'[j]) /\ rx'[calls'[j].kind] = Waiting
  <2>1. j # i /\ calls'[j] = calls[j] /\ j \in 1 .. Len(calls)
    BY <1>4, <1>10
  <2>2. CallOK(calls[j]) /\ rx[calls[j].kind] = Waiting /\ calls[j].kind # calls[i].kind
    BY <1>1, <1>2, <1>10, <2>1 DEF CallsOK
  <2>3. QED
    BY <1>9, <2>1, <2>2 DEF CallOK
<1>11. ASSUME NEW j \in 1 .. Len(calls'), NEW k \in 1 .. Len(calls'),
              calls'[j] # Unawaited, calls'[j].kind = calls'[k].kind
       PROVE  j = k
  <2>1. j # i /\ calls'[j] = calls[j] /\ j \in 1 .. Len(calls) /\ k \in 1 .. Len(calls)
    BY <1>4, <1>11
  <2>2. calls[j].kind \in Kinds
    BY <1>11, <2>1 DEF CallsOK, CallOK
  <2>3. k # i
    BY <1>4, <1>11, <2>1, <2>2 DEF Unawaited, Kinds
  <2>4. QED
    BY <1>4, <1>11, <2>1, <2>3 DEF CallsOK
<1>12. \A k \in Kinds : ResultOK(k, rx'[k])
  BY <1>8, <1>9 DEF CallsOK
<1>13. QED
  BY <1>5, <1>9, <1>10, <1>11, <1>12 DEF CallsOK

\* A result is taken, which nothing in the queue is for.
LEMMA TypeTaken ==
  ASSUME CallsOK, NEW kind \in Kinds, rx[kind] # Waiting,
         rx' = [rx EXCEPT ![kind] = Nil], calls' = calls
  PROVE  CallsOK'
<1>1. DOMAIN rx' = Kinds /\ rx'[kind] = Nil /\ \A k \in Kinds \ {kind} : rx'[k] = rx[k]
  BY DEF CallsOK
<1>2. \A k \in Kinds : ResultOK(k, rx'[k])
  BY <1>1 DEF CallsOK, ResultOK
<1>3. \A i \in 1 .. Len(calls) : calls[i] # Unawaited => rx'[calls[i].kind] = Waiting
  BY <1>1 DEF CallsOK, CallOK
<1>4. QED
  BY <1>1, <1>2, <1>3 DEF CallsOK

LEMMA TypeKept ==
  ASSUME CallsOK, UNCHANGED <<calls, rx>>
  PROVE  CallsOK'
BY DEF CallsOK

\* The rows of the list on screen.
LEMMA CountBounds == ListsOK => Count \in 0 .. LastRow
<1> SUFFICES ASSUME ListsOK PROVE Count \in 0 .. LastRow
  OBVIOUS
<1>1. Len(servers) \in 0 .. Len(Servers)
  BY ServersSeq, EmptySeq DEF ListsOK
<1>2. tags.len \in 0 .. MaxTags /\ Rows(values) \in 0 .. MaxTags
  BY TagsBounds, RowsBounds
<1>3. Len(servers) \in 0 .. LastRow /\ tags.len \in 0 .. LastRow /\ Rows(values) \in 0 .. LastRow
      /\ 0 \in 0 .. LastRow
  BY <1>1, <1>2, LastRowBounds, ServersSeq, BoundsType
<1>4. QED
  BY <1>3 DEF Count

\* A key moves the selection to a row of the list on screen, or one up.
LEMMA MovedTo ==
  ASSUME ListsOK, CursorOK, NEW d \in {1, Page}, Moved(d)
  PROVE  /\ index' \in 0 .. LastRow /\ row' \in {row, index'}
         /\ row' # row /\ values # Nil => row' = index' /\ (index' \in 1 .. Rows(values) \/ index > Rows(values))
<1>1. /\ Count \in Nat /\ Count <= LastRow /\ LastRow \in Nat /\ 1 <= LastRow
      /\ index \in Nat /\ index <= LastRow /\ row \in Nat
      /\ d \in Nat \ {0}
  BY CountBounds, LastRowBounds, BoundsType DEF CursorOK
<1>2. screen = "TagValues" => Count = Rows(values)
  BY DEF Count
<1>3. Rows(values) \in Nat /\ (values # Nil => Rows(values) >= 1)
  BY RowsBounds, BoundsType
<1> DEFINE c == Count
           r == Rows(values)
<1>4. CASE /\ c > 0
           /\ index' = IF index = 0 THEN 1
                       ELSE IF d = 1 THEN (IF index < c THEN index + 1 ELSE index)
                       ELSE IF index + d > c THEN c ELSE index + d
           /\ row' = IF screen = "TagValues" /\ (d > 1 \/ (index # 0 /\ index' # index)) THEN index' ELSE row
  <2> HIDE DEF c, r
  <2>1. c \in Nat /\ c <= LastRow
    BY <1>1 DEF c
  <2>2. index' \in 0 .. LastRow /\ row' \in {row, index'}
    BY <1>1, <1>4, <2>1
  <2>3. row' # row => screen = "TagValues" /\ row' = index' /\ index' \in 1 .. c
    BY <1>1, <1>4, <2>1
  <2>4. QED
    BY <1>2, <2>2, <2>3 DEF c
<1>5. CASE /\ d = 1 => index > 1
           /\ index' = IF index > d THEN index - d ELSE 1
           /\ row' = IF screen = "TagValues" THEN index' ELSE row
  <2> HIDE DEF c, r
  <2>1. r \in Nat /\ (values # Nil => r >= 1)
    BY <1>3 DEF r
  <2>2. index' \in 0 .. LastRow /\ row' \in {row, index'}
    BY <1>1, <1>5
  <2>3. row' # row /\ values # Nil => row' = index' /\ (index' \in 1 .. r \/ index > r)
    BY <1>1, <1>5, <2>1
  <2>4. QED
    BY <2>2, <2>3 DEF r
<1>6. QED
  BY <1>4, <1>5 DEF Moved

\* The draw leaves the row or moves it to the last one.
LEMMA DrawnRow ==
  ASSUME ListsOK, CursorOK, Drawn
  PROVE  /\ row' \in 0 .. LastRow
         /\ row' # row /\ values # Nil => row' \in 1 .. Rows(values)
<1>1. Rows(values) \in Nat /\ (values # Nil => Rows(values) >= 1) /\ row \in 0 .. LastRow
  BY RowsBounds, BoundsType DEF CursorOK
<1>2. row' = row \/ (row > Rows(values) /\ row' = Rows(values))
  BY DEF Drawn
<1>3. QED
  BY <1>1, <1>2, LastRowBounds

\* What a poll takes.
LEMMA TakenResult ==
  ASSUME CallsOK, NEW n \in 1 .. 4, Taken(n)
  PROVE  /\ Order[n] \in Kinds /\ rx[Order[n]] # Nil /\ rx[Order[n]] # Waiting
         /\ ResultOK(Order[n], rx[Order[n]])
         /\ rx' = [rx EXCEPT ![Order[n]] = Nil]
         /\ pc' \in Steps
<1>1. Order[n] \in Kinds
  BY DEF Order, Kinds
<1>2. QED
  BY <1>1 DEF Taken, Arrived, CallsOK, Steps

\* A poll that does not touch the lists: an error, or the end of a write.
LEMMA TypeLeft ==
  ASSUME TypeInv, NEW n \in 1 .. 4, Taken(n),
         NEW s \in {"Home", "ServerList", "TagList", "TagValues"}, Show(s),
         UNCHANGED <<listVars, valueVars, cursorVars, calls>>
  PROVE  TypeInv'
<1>1. CallsOK'
  BY TakenResult, TypeTaken DEF TypeInv
<1>2. pc' \in Steps
  BY TakenResult DEF TypeInv
<1>3. screen' = s /\ writing' = Nil
  BY DEF Show
<1>4. ListsOK' /\ CursorOK'
  BY <1>2, <1>3 DEF TypeInv, ListsOK, CursorOK
<1>5. QED
  BY <1>1, <1>4 DEF TypeInv

LEMMA TypePolls ==
  ASSUME TypeInv, PollFetch \/ PollBrowse \/ PollRead \/ PollWrite
  PROVE  TypeInv'
<1> USE DEF TypeInv
<1>1. ASSUME NEW n \in 1 .. 4, NEW s \in {"Home", "ServerList", "TagList", "TagValues"}, ErrorResult(n, s)
      PROVE  TypeInv'
  BY <1>1, TypeLeft DEF ErrorResult
<1>2. LastRow \in Nat /\ MaxTags <= LastRow /\ 1 <= LastRow
  BY LastRowBounds
<1>3. CASE PollFetch
  <2> SUFFICES ASSUME Taken(1), rx["fetch"].ok, servers' = rx["fetch"].what,
                      index' = First(Len(servers')), Show("ServerList"),
                      UNCHANGED <<tags, marked, browsed, valueVars, row, search, calls>>
               PROVE  TypeInv'
    BY <1>1, <1>3 DEF PollFetch
  <2>1. /\ rx["fetch"] # Nil /\ ResultOK("fetch", rx["fetch"]) /\ pc' \in Steps
        /\ CallsOK'
    BY TakenResult, TypeTaken DEF Order
  <2>2. servers' \in {<<>>, Servers} /\ index' \in 0 .. LastRow
    BY <1>2, <2>1 DEF ResultOK, First
  <2>3. QED
    BY <2>1, <2>2 DEF ListsOK, CursorOK, Show
<1>4. CASE PollBrowse
  <2> SUFFICES ASSUME Taken(2), rx["browse"].ok, tags' = rx["browse"].what, marked' = {},
                      index' = First(tags'.len), Show("TagList"),
                      UNCHANGED <<servers, browsed, valueVars, row, search, calls>>
               PROVE  TypeInv'
    BY <1>1, <1>4 DEF PollBrowse
  <2>1. /\ rx["browse"] # Nil /\ ResultOK("browse", rx["browse"]) /\ pc' \in Steps
        /\ CallsOK'
    BY TakenResult, TypeTaken DEF Order
  <2>2. tags' \in TagLists /\ index' \in 0 .. LastRow
    BY <1>2, <2>1 DEF ResultOK, First
  <2>3. QED
    BY <2>1, <2>2 DEF ListsOK, CursorOK, Show
<1>5. CASE PollRead
  <2> SUFFICES ASSUME Taken(3), rx["read"].ok, values' = rx["read"].what,
                      index' = Clamped(index, Rows(values')), row' = index', Show("TagValues"),
                      UNCHANGED <<listVars, refresh, search, calls>>
               PROVE  TypeInv'
    BY <1>1, <1>5 DEF PollRead
  <2>1. /\ rx["read"] # Nil /\ ResultOK("read", rx["read"]) /\ pc' \in Steps
        /\ CallsOK'
    BY TakenResult, TypeTaken DEF Order
  <2>2. values' \in Tables
    BY <2>1 DEF ResultOK
  <2>3. Rows(values') \in 0 .. MaxTags
    BY <2>2, TableRows, BoundsType DEF Rows
  <2>4. index' \in 0 .. LastRow
    BY <1>2, <2>3, BoundsType DEF Clamped, CursorOK
  <2>5. QED
    BY <2>1, <2>2, <2>4 DEF ListsOK, CursorOK, Show
<1>6. CASE PollWrite
  BY <1>1, <1>6, TypeLeft DEF PollWrite, valueVars, cursorVars
<1>7. QED
  BY <1>3, <1>4, <1>5, <1>6

LEMMA TypeStarts ==
  ASSUME TypeInv, AutoRefresh \/ StartFetch \/ StartBrowse \/ StartRead \/ StartWrite
  PROVE  TypeInv'
<1> USE DEF TypeInv
<1>1. CASE AutoRefresh
  <2>1. refresh \in Tables
    BY <1>1 DEF AutoRefresh, ListsOK
  <2>2. CallsOK'
    BY <1>1, <2>1, TypeStart DEF AutoRefresh, CallOK, Kinds
  <2>3. QED
    BY <1>1, <2>2, DrawnRow DEF AutoRefresh, ListsOK, CursorOK, Steps, Pressing
<1>2. CASE StartFetch
  <2>1. CallsOK'
    BY <1>2, TypeStart DEF StartFetch, CallOK, Kinds
  <2>2. QED
    BY <1>2, <2>1 DEF StartFetch, ListsOK, CursorOK, Show, Key, Steps
<1>3. CASE StartBrowse
  <2>1. servers[index] \in Range(Servers)
    BY <1>3, ServersSeq DEF StartBrowse, ListsOK
  <2>2. CallsOK'
    BY <1>3, <2>1, TypeStart DEF StartBrowse, CallOK, Kinds
  <2>3. QED
    BY <1>3, <2>1, <2>2 DEF StartBrowse, ListsOK, CursorOK, Show, Key, Steps
<1>4. CASE StartRead
  <2>1. /\ browsed \in Range(Servers) /\ marked # {} /\ marked \subseteq 1 .. tags.len
        /\ tags.len \in 0 .. MaxTags /\ (tags.len # 0 => tags.srv \in Range(Servers))
    BY <1>4, TagsBounds DEF StartRead, ListsOK
  <2>2. tags.srv \in Range(Servers) /\ marked \in (SUBSET (1 .. MaxTags)) \ {{}}
    <3>1. \A n \in 1 .. tags.len : n \in 1 .. MaxTags /\ tags.len # 0
      BY <2>1, BoundsType
    <3>2. (\E n \in marked : n \in 1 .. tags.len) /\ \A n \in marked : n \in 1 .. MaxTags
      BY <2>1, <3>1
    <3>3. marked # {} /\ marked \subseteq 1 .. MaxTags
      BY <2>1, <3>2
    <3>4. QED
      BY <2>1, <3>1, <3>2, <3>3
  <2>3. refresh' \in Tables
    BY <1>4, <2>1, <2>2 DEF StartRead, Tables
  <2>4. CallsOK'
    BY <1>4, <2>3, TypeStart DEF StartRead, CallOK, Kinds
  <2>5. QED
    BY <1>4, <2>3, <2>4 DEF StartRead, ListsOK, CursorOK, Show, Key, Steps
<1>5. CASE StartWrite
  <2>1. CallsOK'
    BY <1>5, TypeStart DEF StartWrite, CallOK, Kinds
  <2>2. QED
    BY <1>5, <2>1 DEF StartWrite, ListsOK, CursorOK, Show, Key, Steps
<1>6. QED
  BY <1>1, <1>2, <1>3, <1>4, <1>5

LEMMA TypeKeys ==
  ASSUME TypeInv,
         \/ NoRefresh \/ NoKey \/ Quit \/ EnterWrite \/ GoBack \/ Move \/ Toggle
         \/ EnterSearch \/ Query \/ NextMatch \/ ExitSearch
  PROVE  TypeInv'
<1> USE DEF TypeInv
<1>1. CallsOK'
  BY TypeKept DEF NoRefresh, NoKey, Quit, EnterWrite, GoBack, Move, Toggle, EnterSearch,
    Query, NextMatch, ExitSearch
<1>2. CASE NoRefresh
  BY <1>1, <1>2, DrawnRow DEF NoRefresh, ListsOK, CursorOK, Steps, Pressing
<1>3. CASE NoKey \/ Quit
  BY <1>1, <1>3 DEF NoKey, Quit, Show, ListsOK, CursorOK, Key, Steps
<1>4. CASE EnterWrite
  <2>1. PICK n \in values.ns : writing' = [srv |-> values.of, tag |-> n]
    BY <1>4 DEF EnterWrite, InRow
  <2>2. values \in Tables
    BY <1>4 DEF EnterWrite, ListsOK
  <2>3. writing'.srv \in Range(Servers) /\ writing'.tag \in 1 .. MaxTags
    BY <2>1, <2>2, TableRows
  <2>4. QED
    BY <1>1, <1>4, <2>3 DEF EnterWrite, ListsOK, CursorOK, Key, Steps
<1>5. CASE GoBack
  <2>1. index' \in 0 .. LastRow
    BY <1>5, LastRowBounds DEF GoBack, First, CursorOK
  <2>2. row' = row /\ search' = search /\ Key
    BY <1>5 DEF GoBack
  <2>3. CASE screen = "ServerList" /\ Show("Home") /\ servers' = <<>>
             /\ UNCHANGED <<tags, marked, browsed, valueVars>>
    BY <1>1, <2>1, <2>2, <2>3 DEF ListsOK, CursorOK, Show, Key, Steps
  <2>4. CASE screen = "TagList" /\ Show("ServerList") /\ tags' = NoTags /\ marked' = {}
             /\ UNCHANGED <<servers, browsed, valueVars>>
    BY <1>1, <2>1, <2>2, <2>4 DEF ListsOK, CursorOK, Show, Key, Steps, TagLists
  <2>5. CASE screen = "TagValues" /\ Show("TagList") /\ values' = Nil /\ refresh' = Nil
             /\ UNCHANGED listVars
    BY <1>1, <2>1, <2>2, <2>5 DEF ListsOK, CursorOK, Show, Key, Steps
  <2>6. CASE screen = "WriteInput" /\ Show("TagValues") /\ UNCHANGED <<listVars, valueVars>>
    BY <1>1, <2>1, <2>2, <2>6 DEF ListsOK, CursorOK, Show, Key, Steps
  <2>7. QED
    BY <1>5, <2>3, <2>4, <2>5, <2>6 DEF GoBack
<1>6. CASE Move
  <2>1. index' \in 0 .. LastRow /\ row' \in {row, index'}
    BY <1>6, MovedTo DEF Move
  <2>2. QED
    BY <1>1, <1>6, <2>1 DEF Move, ListsOK, CursorOK, Key, Steps
<1>7. CASE Toggle
  BY <1>1, <1>7 DEF Toggle, ListsOK, CursorOK, Key, Steps
<1>8. CASE EnterSearch \/ ExitSearch
  <2>1. search' = Nil \/ (search'.matches = {} /\ search'.at = 1)
    BY <1>8 DEF EnterSearch, ExitSearch
  <2>2. QED
    BY <1>1, <1>8, <2>1 DEF EnterSearch, ExitSearch, ListsOK, CursorOK, Key, Steps
<1>9. CASE Query
  <2>1. PICK found \in SUBSET (1 .. tags.len) :
          /\ search' = [matches |-> found, at |-> 1]
          /\ index' \in {index} \cup found
    BY <1>9 DEF Query, InRow
  <2>2. \A n \in 1 .. tags.len : n \in 1 .. MaxTags /\ n \in 0 .. LastRow
    BY TagsBounds, LastRowBounds, BoundsType
  <2>3. search'.matches \subseteq 1 .. MaxTags /\ search'.at = 1 /\ index' \in 0 .. LastRow
    BY <2>1, <2>2 DEF CursorOK
  <2>4. QED
    BY <1>1, <1>9, <2>3 DEF Query, ListsOK, CursorOK, Key, Steps
<1>10. CASE NextMatch
  <2> DEFINE n == Cardinality(search.matches)
  <2>1. /\ search # Nil /\ search.matches # {} /\ search.matches \subseteq 1 .. MaxTags
        /\ search.at \in {1} \cup 1 .. n
    BY <1>10 DEF NextMatch, Searching, CursorOK
  <2>2. n \in Nat \ {0}
    BY <2>1, SomeTags, BoundsType
  <2>3. PICK at \in {(search.at % n) + 1, IF search.at = 1 THEN n ELSE search.at - 1} :
          search' = [search EXCEPT !.at = at] /\ index' \in search.matches
    BY <1>10 DEF NextMatch, InRow
  <2>4. at \in 1 .. n
    <3> HIDE DEF n
    <3>1. search.at \in 1 .. n
      BY <2>1, <2>2
    <3>2. (search.at % n) \in 0 .. n - 1
      BY <2>2, <3>1
    <3>3. QED
      BY <2>2, <2>3, <3>1, <3>2
  <2>5. index' \in 0 .. LastRow
    BY <2>1, <2>3, LastRowBounds, BoundsType
  <2>6. search'.matches = search.matches /\ (search'.at = at \/ search'.at = search.at)
    BY <2>3
  <2>7. QED
    BY <1>1, <1>10, <2>1, <2>4, <2>5, <2>6 DEF NextMatch, ListsOK, CursorOK, Key, Steps
<1>11. QED
  BY <1>2, <1>3, <1>4, <1>5, <1>6, <1>7, <1>8, <1>9, <1>10

LEMMA TypeInit == Init => TypeInv
<1> SUFFICES ASSUME Init PROVE TypeInv
  OBVIOUS
<1>1. ListsOK
  BY DEF Init, ListsOK, TagLists, NoTags, Steps
<1>2. CursorOK
  BY LastRowBounds DEF Init, CursorOK
<1>3. IsQueue(calls) /\ Len(calls) = 0
  BY EmptySeq, SeqIsQueue DEF Init
<1>4. CallsOK
  BY <1>3, BoundsType DEF Init, CallsOK, ResultOK
<1>5. QED
  BY <1>1, <1>2, <1>4 DEF TypeInv

LEMMA TypeNext == TypeInv /\ [Next]_vars => TypeInv'
<1> SUFFICES ASSUME TypeInv, [Next]_vars PROVE TypeInv'
  OBVIOUS
<1>1. CASE Served
  <2>1. CallsOK'
    BY <1>1, TypeServed DEF TypeInv
  <2>2. QED
    BY <1>1, <2>1 DEF Served, TypeInv, ListsOK, CursorOK
<1>2. CASE TimesOut
  <2>1. CallsOK'
    BY <1>2, TypeTimesOut DEF TypeInv
  <2>2. QED
    BY <1>2, <2>1 DEF TimesOut, TypeInv, ListsOK, CursorOK
<1>3. CASE UNCHANGED vars
  BY <1>3, TypeKept DEF vars, TypeInv, ListsOK, CursorOK
<1>4. QED
  BY <1>1, <1>2, <1>3, TypePolls, TypeStarts, TypeKeys DEF Next, Loop, Press

LEMMA TypeAlways == Spec => []TypeInv
BY TypeInit, TypeNext, PTL DEF Spec

\* Selections, marks, results and calls are what the code's types and its
\* bookkeeping say, whatever the servers, tags and calls under way: in
\* particular marks never outlive the list they were made on (poll_browse_result
\* makes selected_tags anew), and a call still awaited has an empty receiver.
THEOREM Typed == Spec => []TypeOK
<1>1. TypeInv => TypeOK
  <2> SUFFICES ASSUME TypeInv PROVE TypeOK
    OBVIOUS
  <2>1. tags = NoTags \/ (tags.srv \in Range(Servers) /\ tags.len \in 1 .. MaxTags)
    BY DEF TypeInv, ListsOK, TagLists
  <2>2. \A v \in {values, refresh} :
          v = Nil \/ ({v.srv, v.of} \subseteq Range(Servers) /\ v.ns \in (SUBSET (1 .. MaxTags)) \ {{}})
    BY TableRows DEF TypeInv, ListsOK
  <2>3. DOMAIN calls = 1 .. Len(calls)
    BY QueueLen DEF TypeInv, CallsOK
  <2>4. QED
    BY <2>1, <2>2, <2>3 DEF TypeInv, ListsOK, CursorOK, CallsOK, TypeOK, LastRow
<1>2. QED
  BY <1>1, TypeAlways, PTL

-----------------------------------------------------------------------------
(* The table and the input screen. *)

\* The values table is drawn with a row it has unless the selection was brought
\* along from a longer list, and then no answer is to blame but a key; the next
\* read mends it (poll_read_result clamps, select_prev does not).
THEOREM RowInTable == Spec => RowStaysInTable
<1>1. TypeInv /\ [Next]_vars => [HighlightedRowLost]_vars
  <2> SUFFICES ASSUME TypeInv, Next PROVE HighlightedRowLost
    OBVIOUS
  <2>1. CASE row' = row /\ (values' = values \/ values' = Nil)
    BY <2>1 DEF HighlightedRowLost, Rows
  <2>2. CASE PollRead
    <3>1. CASE ErrorResult(3, "TagList")
      BY <2>1, <3>1 DEF ErrorResult
    <3>2. CASE ~ErrorResult(3, "TagList")
      <4>1. values' \in Tables /\ row' = Clamped(index, Rows(values'))
        BY <2>2, <3>2, TakenResult DEF PollRead, Order, ResultOK, TypeInv
      <4>2. index \in Nat
        BY LastRowBounds DEF TypeInv, CursorOK
      <4>3. values' # Nil => Rows(values') \in Nat \ {0}
        BY <4>1, TableRows, BoundsType DEF Rows
      <4>4. QED
        BY <4>1, <4>2, <4>3 DEF HighlightedRowLost, Clamped
    <3>3. QED
      BY <3>1, <3>2
  <2>3. CASE Move
    <3>1. PICK d \in {1, Page} : Moved(d)
      BY <2>3 DEF Move
    <3>2. values' = values
      BY <2>3 DEF Move
    <3>3. QED
      BY <3>1, <3>2, MovedTo DEF HighlightedRowLost, TypeInv, Rows
  <2>4. CASE AutoRefresh \/ NoRefresh
    BY <2>4, DrawnRow DEF AutoRefresh, NoRefresh, HighlightedRowLost, TypeInv, Rows
  <2>5. CASE GoBack
    <3>1. row' = row /\ (values' = values \/ values' = Nil)
      BY <2>5 DEF GoBack
    <3>2. QED
      BY <2>1, <3>1
  <2>6. CASE \/ PollFetch \/ PollBrowse \/ PollWrite \/ NoKey \/ Quit
             \/ StartFetch \/ StartBrowse \/ StartRead \/ EnterWrite \/ StartWrite \/ Toggle
             \/ EnterSearch \/ Query \/ NextMatch \/ ExitSearch \/ Served \/ TimesOut
    <3>1. row' = row /\ values' = values
      BY <2>6 DEF PollFetch, PollBrowse, PollWrite, ErrorResult, NoKey, Quit, StartFetch,
        StartBrowse, StartRead, EnterWrite, StartWrite, Toggle, EnterSearch, Query, NextMatch,
        ExitSearch, Served, TimesOut
    <3>2. QED
      BY <2>1, <3>1
  <2>7. QED
    BY <2>2, <2>3, <2>4, <2>5, <2>6 DEF Next, Loop, Press
<1>2. QED
  BY <1>1, TypeAlways, PTL DEF Spec, RowStaysInTable

\* Whatever reads end while a value is typed, the tag the input screen names is
\* one of the values on screen: a read that replaces them leaves the screen
\* (enter_write_mode, poll_read_result).
THEOREM InputIsShown == Spec => []InputNamesShownRow
<1>1. Init => InputNamesShownRow
  BY DEF Init, InputNamesShownRow
<1>2. InputNamesShownRow /\ [Next]_vars => InputNamesShownRow'
  <2> SUFFICES ASSUME InputNamesShownRow, [Next]_vars, screen' = "WriteInput"
               PROVE  values' # Nil /\ writing'.srv = values'.of /\ writing'.tag \in values'.ns
    BY DEF InputNamesShownRow
  <2>1. CASE EnterWrite
    <3>1. PICK n \in values.ns : writing' = [srv |-> values.of, tag |-> n]
      BY <2>1 DEF EnterWrite, InRow
    <3>2. values' = values /\ values # Nil
      BY <2>1 DEF EnterWrite
    <3>3. QED
      BY <3>1, <3>2
  <2>2. CASE ~EnterWrite
    <3>1. screen = "WriteInput" /\ values' = values /\ writing' = writing
      BY <2>2 DEF vars, Next, Loop, Press, PollFetch, PollBrowse, PollRead, PollWrite, ErrorResult,
        Show, AutoRefresh, NoRefresh, NoKey, Quit, StartFetch, StartBrowse, StartRead, StartWrite,
        GoBack, Move, Toggle, EnterSearch, Query, NextMatch, ExitSearch, Served, TimesOut, Lists
    <3>2. QED
      BY <3>1 DEF InputNamesShownRow
  <2>3. QED
    BY <2>1, <2>2
<1>3. QED
  BY <1>1, <1>2, PTL DEF Spec

-----------------------------------------------------------------------------
(* The read asked for last. *)

\* While there is a context, every read still awaited, and a result of one not
\* yet taken, is of that context.
ReadInv ==
  /\ IsQueue(calls)
  /\ DOMAIN rx = Kinds
  /\ refresh # Nil =>
       /\ \A i \in 1 .. Len(calls) : calls[i].kind = "read" => calls[i].about = refresh
       /\ rx["read"] # Nil /\ rx["read"].ok => rx["read"].what = refresh

LEMMA ReadInit == Init => ReadInv
BY EmptySeq, SeqIsQueue DEF Init, ReadInv

\* Start leaves the reads it does not supersede as they are.
LEMMA ReadStart ==
  ASSUME ReadInv, NEW kind \in Kinds, NEW about, Start(kind, about),
         IF kind = "read" THEN refresh' = about ELSE refresh' = refresh
  PROVE  ReadInv'
<1>1. rx' = [rx EXCEPT ![kind] = Waiting]
  BY DEF Start
<1>2. /\ Len(calls) \in Nat /\ IsQueue(calls') /\ Len(calls') = Len(calls) + 1
      /\ \A i \in 1 .. Len(calls) :
           calls'[i] = IF calls[i].kind = kind THEN Unawaited ELSE calls[i]
      /\ calls'[Len(calls) + 1] = [kind |-> kind, about |-> about]
  BY StartQueue DEF ReadInv
<1>3. Unawaited.kind = "any"
  BY DEF Unawaited
<1>9. ASSUME NEW i \in 1 .. Len(calls'), calls'[i].kind = "read", refresh' # Nil
      PROVE  calls'[i].about = refresh'
  <2>1. CASE i = Len(calls) + 1
    BY <1>2, <1>9, <2>1
  <2>2. CASE i \in 1 .. Len(calls)
    <3>1. calls[i].kind # kind /\ calls'[i] = calls[i]
      BY <1>2, <1>3, <1>9, <2>2
    <3>2. QED
      BY <1>9, <2>2, <3>1 DEF ReadInv
  <2>3. QED
    BY <1>2, <2>1, <2>2
<1>10. DOMAIN rx' = Kinds
  BY <1>1 DEF ReadInv
<1>11. refresh' # Nil /\ rx'["read"] # Nil /\ rx'["read"].ok => rx'["read"].what = refresh'
  BY <1>1 DEF ReadInv, Waiting, Kinds
<1>12. QED
  BY <1>2, <1>9, <1>10, <1>11 DEF ReadInv

LEMMA ReadServed ==
  ASSUME ReadInv, Served
  PROVE  ReadInv'
<1>1. /\ calls # <<>> /\ calls' = Tail(calls) /\ refresh' = refresh
      /\ \/ rx' = rx
         \/ \E result \in Successes(Head(calls)) \cup {Failed} : Deliver(Head(calls).kind, result)
  BY DEF Served
<1>2. /\ Len(calls) \in Nat \ {0} /\ Head(calls) = calls[1]
      /\ IsQueue(calls') /\ Len(calls') = Len(calls) - 1
      /\ \A i \in 1 .. Len(calls') : calls'[i] = calls[i + 1]
  BY <1>1, TailQueue DEF ReadInv
<1>3. 1 \in 1 .. Len(calls) /\ \A i \in 1 .. Len(calls') : i + 1 \in 1 .. Len(calls)
  BY <1>2
<1>4. DOMAIN rx' = Kinds
  BY <1>1 DEF Deliver, ReadInv
<1>5. ASSUME refresh' # Nil, rx'["read"] # Nil, rx'["read"].ok
      PROVE  rx'["read"].what = refresh'
  <2>1. CASE rx'["read"] = rx["read"]
    BY <1>1, <1>5, <2>1 DEF ReadInv
  <2>2. CASE rx'["read"] # rx["read"]
    <3>1. Head(calls).kind = "read" /\ rx'["read"] \in Successes(Head(calls)) \cup {Failed}
      BY <1>1, <2>2 DEF Deliver, ReadInv, Kinds
    <3>2. rx'["read"] = Found(Head(calls).about) \/ rx'["read"] = Failed
      BY <3>1 DEF Successes
    <3>3. rx'["read"].what = Head(calls).about
      BY <1>5, <3>2 DEF Found, Failed
    <3>4. QED
      BY <1>1, <1>2, <1>3, <1>5, <3>1, <3>3 DEF ReadInv
  <2>3. QED
    BY <2>1, <2>2
<1>6. QED
  BY <1>1, <1>2, <1>3, <1>4, <1>5 DEF ReadInv

LEMMA ReadTimesOut ==
  ASSUME ReadInv, TimesOut
  PROVE  ReadInv'
<1>1. PICK i \in DOMAIN calls :
        /\ \/ Deliver(calls[i].kind, Failed)
           \/ \E r : Deliver("browse", r)
        /\ calls' = [calls EXCEPT ![i] = Unawaited]
  BY DEF TimesOut
<1>2. refresh' = refresh
  BY DEF TimesOut
<1>3. Len(calls) \in Nat /\ DOMAIN calls = 1 .. Len(calls)
  BY QueueLen DEF ReadInv
<1>4. calls \in Seq(Range(calls) \cup {Unawaited})
  BY SeqMonotonic DEF ReadInv, IsQueue
<1>5. /\ calls' \in Seq(Range(calls) \cup {Unawaited}) /\ Len(calls') = Len(calls)
      /\ \A j \in 1 .. Len(calls) : calls'[j] = IF j = i THEN Unawaited ELSE calls[j]
  BY <1>1, <1>3, <1>4
<1>6. IsQueue(calls')
  BY <1>5, SeqIsQueue
<1>7. \A j \in 1 .. Len(calls') : calls'[j].kind = "read" => calls'[j] = calls[j]
  BY <1>5 DEF Unawaited
<1>8. DOMAIN rx' = Kinds /\ (rx'["read"] = rx["read"] \/ rx'["read"] = Failed)
  BY <1>1 DEF Deliver, ReadInv, Kinds
<1>9. QED
  BY <1>2, <1>5, <1>6, <1>7, <1>8 DEF ReadInv, Failed

\* Steps of the loop and keys that start nothing.
LEMMA ReadKept ==
  ASSUME ReadInv, UNCHANGED calls, refresh' = refresh \/ refresh' = Nil,
         rx' = rx \/ \E k \in Kinds : rx' = [rx EXCEPT ![k] = Nil]
  PROVE  ReadInv'
<1>1. DOMAIN rx' = Kinds /\ (rx'["read"] = rx["read"] \/ rx'["read"] = Nil)
  BY DEF ReadInv, Kinds
<1>2. QED
  BY <1>1 DEF ReadInv

LEMMA ReadNext == ReadInv /\ [Next]_vars => ReadInv'
<1> SUFFICES ASSUME ReadInv, [Next]_vars PROVE ReadInv'
  OBVIOUS
<1>1. CASE PollFetch \/ PollBrowse \/ PollRead \/ PollWrite
  <2>1. \E n \in 1 .. 4 : Taken(n)
    BY <1>1 DEF PollFetch, PollBrowse, PollRead, PollWrite, ErrorResult
  <2>2. \E k \in Kinds : rx' = [rx EXCEPT ![k] = Nil]
    <3>1. PICK n \in 1 .. 4 : rx' = [rx EXCEPT ![Order[n]] = Nil]
      BY <2>1 DEF Taken
    <3>2. Order[n] \in Kinds
      BY DEF Order, Kinds
    <3>3. QED
      BY <3>1, <3>2
  <2>3. UNCHANGED <<calls, refresh>>
    BY <1>1 DEF PollFetch, PollBrowse, PollRead, PollWrite, ErrorResult
  <2>4. QED
    BY <2>2, <2>3, ReadKept
<1>2. CASE \/ UNCHANGED vars \/ NoRefresh \/ NoKey \/ Quit \/ EnterWrite \/ GoBack \/ Move
           \/ Toggle \/ EnterSearch \/ Query \/ NextMatch \/ ExitSearch
  <2>1. UNCHANGED <<calls, rx>> /\ (refresh' = refresh \/ refresh' = Nil)
    BY <1>2 DEF vars, NoRefresh, NoKey, Quit, EnterWrite, GoBack, Move, Toggle, EnterSearch,
      Query, NextMatch, ExitSearch
  <2>2. QED
    BY <2>1, ReadKept
<1>3. CASE AutoRefresh \/ StartRead
  <2>1. Start("read", refresh')
    BY <1>3 DEF AutoRefresh, StartRead
  <2>2. QED
    BY <2>1, ReadStart DEF Kinds
<1>4. CASE StartFetch \/ StartBrowse \/ StartWrite
  <2>1. PICK kind \in Kinds \ {"read"}, about \in
          {Nil, servers[index], [srv |-> refresh.srv, of |-> writing.srv]} : Start(kind, about)
    BY <1>4 DEF StartFetch, StartBrowse, StartWrite, Kinds
  <2>2. refresh' = refresh
    BY <1>4 DEF StartFetch, StartBrowse, StartWrite
  <2>3. QED
    BY <2>1, <2>2, ReadStart
<1>5. QED
  BY <1>1, <1>2, <1>3, <1>4, ReadServed, ReadTimesOut DEF Next, Loop, Press

\* However many reads are under way and in whatever order they end or time out,
\* the values screen takes none but the one asked for last (start_read_values
\* and maybe_auto_refresh replace tag_values_rx, poll_read_result takes it).
THEOREM LatestReadIsShown == Spec => LatestReadShown
<1>1. ReadInv /\ [Next]_vars => [values' # values /\ values' # Nil /\ refresh # Nil => values' = refresh]_vars
  <2> SUFFICES ASSUME ReadInv, Next, values' # values, values' # Nil, refresh # Nil
               PROVE  values' = refresh
    OBVIOUS
  <2>1. PollRead
    BY DEF Next, Loop, Press, PollFetch, PollBrowse, PollWrite, ErrorResult, AutoRefresh, NoRefresh,
      NoKey, Quit, StartFetch, StartBrowse, StartRead, EnterWrite, StartWrite, GoBack, Move, Toggle,
      EnterSearch, Query, NextMatch, ExitSearch, Served, TimesOut
  <2>2. values' = rx["read"].what /\ rx["read"].ok /\ rx["read"] # Nil
    BY <2>1 DEF PollRead, ErrorResult, Taken, Arrived, Order
  <2>3. QED
    BY <2>2 DEF ReadInv
<1>2. QED
  BY <1>1, ReadInit, ReadNext, PTL DEF Spec, LatestReadShown

=============================================================================
