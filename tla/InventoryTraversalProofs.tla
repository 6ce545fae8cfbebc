----------------------- MODULE InventoryTraversalProofs -----------------------
(***************************************************************************)
(* Theorems about InventoryTraversal, for any namespace, server profile,   *)
(* limit and number of faults: what goes out, and when the traversal may   *)
(* start over through DA 2; that an entry is where it says, that nothing   *)
(* is skipped without a reason, and that nothing is lost.                  *)
(***************************************************************************)
EXTENDS InventoryTraversal, SequenceTheorems, FiniteSetTheorems, WellFoundedInduction, TLAPS

USE DEF confVars, pageVars, resultVars, userVars, serverVars

-----------------------------------------------------------------------------
(* Sequences whose elements have no type of their own. *)

IsSeq(s) == s \in Seq(ToSet(s))

LEMMA SeqIsSeq == ASSUME NEW S, NEW s \in Seq(S) PROVE IsSeq(s)
<1>1. s \in [1 .. Len(s) -> S] /\ Len(s) \in Nat
  BY LenProperties
<1>2. s \in [1 .. Len(s) -> ToSet(s)]
  BY <1>1 DEF ToSet
<1>3. QED
  BY <1>1, <1>2 DEF IsSeq

LEMMA AppendSeq ==
  ASSUME NEW s, IsSeq(s), NEW e
  PROVE  /\ IsSeq(Append(s, e)) /\ Append(s, e) # <<>>
         /\ Len(s) \in Nat /\ Len(Append(s, e)) = Len(s) + 1
         /\ \A i \in 1 .. Len(s) : Append(s, e)[i] = s[i]
         /\ Append(s, e)[Len(s) + 1] = e
<1> DEFINE S == ToSet(s) \cup {e}
<1>1. s \in Seq(S) /\ e \in S
  BY SeqMonotonic DEF IsSeq
<1>2. Append(s, e) \in Seq(S)
  BY <1>1, AppendProperties
<1>3. Len(s) \in Nat
  BY <1>1, LenProperties
<1>4. /\ Append(s, e) # <<>> /\ Len(Append(s, e)) = Len(s) + 1
      /\ \A i \in 1 .. Len(s) : Append(s, e)[i] = s[i]
      /\ Append(s, e)[Len(s) + 1] = e
  <2> HIDE DEF S
  <2> QED
    BY <1>1, AppendProperties
<1>5. IsSeq(Append(s, e))
  BY <1>2, SeqIsSeq
<1>6. QED
  BY <1>3, <1>4, <1>5

LEMMA NoSeq == IsSeq(<<>>) /\ Len(<<>>) = 0
BY EmptySeq DEF IsSeq

-----------------------------------------------------------------------------
(* What goes out. *)

\* The run was told to stop, by the consumer or by the limit.
Stopped == terminal.cancelled \/ terminal.truncated

\* Entries and item IDs found correspond, one to one until the run is told to
\* stop; from then on nothing is emitted. The limit is reached at the moment
\* the run is truncated, not before.
OnceInv ==
  /\ conf.limit \in Nat \cup {Nil}
  /\ terminal = [cancelled |-> terminal.cancelled, truncated |-> terminal.truncated]
  /\ IsFiniteSet(seen)
  /\ IsSeq(emitted)
  /\ \A j \in 1 .. Len(emitted) : emitted[j].id \in seen
  /\ \A j, k \in 1 .. Len(emitted) : emitted[j].id = emitted[k].id => j = k
  /\ ~terminal.cancelled => Cardinality(seen) = Len(emitted)
  /\ Stopped => pc \in {"finish", "done"} \/ (pc = "emit" /\ nodes = <<>>)
  /\ pc # "done" => outcome = Nil
  /\ pc = "start" => emitted = <<>>
  /\ conf.limit # Nil =>
       /\ Len(emitted) <= conf.limit
       /\ terminal.truncated => Len(emitted) = conf.limit
       /\ ~terminal.truncated /\ pc # "start" /\ outcome \notin {"failed", "silent"} =>
            Len(emitted) < conf.limit

LEMMA OnceInit == Init => OnceInv
<1> SUFFICES ASSUME Init PROVE OnceInv
  OBVIOUS
<1>1. conf.limit \in Nat \cup {Nil}
  BY BoundsAssumption DEF Init
<1>2. IsSeq(emitted) /\ Len(emitted) = 0 /\ emitted = <<>> /\ 1 .. Len(emitted) = {}
  BY NoSeq DEF Init
<1>3. IsFiniteSet(seen) /\ Cardinality(seen) = 0
  BY FS_EmptySet DEF Init
<1>4. QED
  BY <1>1, <1>2, <1>3 DEF Init, OnceInv, Stopped

LEMMA OnceImplies == OnceInv => EntriesOnceWithinLimit
<1> SUFFICES ASSUME OnceInv PROVE EntriesOnceWithinLimit
  OBVIOUS
<1>1. DOMAIN emitted = 1 .. Len(emitted) /\ Len(emitted) \in Nat
  BY LenProperties DEF OnceInv, IsSeq
<1>2. outcome = "completed" => pc # "start" /\ outcome \notin {"failed", "silent"}
  BY BoundsAssumption DEF OnceInv
<1>3. QED
  BY <1>1, <1>2 DEF OnceInv, EntriesOnceWithinLimit

\* Every step but the first ones and an emission: the entries stay as they are.
LEMMA OnceKept ==
  ASSUME OnceInv, UNCHANGED <<conf, seen, emitted>>, pc \notin {"start", "done"},
         terminal' = terminal \/ \E b : terminal' = [terminal EXCEPT !.cancelled = b],
         terminal.cancelled => terminal'.cancelled,
         Stopped' => pc' \in {"finish", "done"} \/ (pc' = "emit" /\ nodes' = <<>>),
         pc' # "start", pc' # "done" => outcome' = outcome
  PROVE  OnceInv'
<1>1. /\ terminal'.truncated = terminal.truncated
      /\ terminal' = [cancelled |-> terminal'.cancelled, truncated |-> terminal'.truncated]
  BY DEF OnceInv
<1>2. outcome \notin {"failed", "silent"}
  BY BoundsAssumption DEF OnceInv
<1>3. QED
  BY <1>1, <1>2 DEF OnceInv

LEMMA OnceEmit ==
  ASSUME OnceInv, Emit
  PROVE  OnceInv'
<1> DEFINE node == Head(nodes)
           new == IsNew(node)
           full == new /\ conf.limit # Nil /\ Cardinality(seen) + 1 >= conf.limit
           stop == cancelled \/ (new /\ ~open)
           entry == [id |-> node.id, name |-> node.name, crumbs |-> work.trail]
<1>1. /\ pc = "emit" /\ nodes # <<>> /\ UNCHANGED <<conf, pc, outcome>>
      /\ seen' = IF new /\ ~cancelled THEN seen \cup {node.id} ELSE seen
      /\ emitted' = IF new /\ ~stop THEN Append(emitted, entry) ELSE emitted
      /\ IF stop THEN Leaves([terminal EXCEPT !.cancelled = TRUE])
         ELSE IF full THEN Leaves([terminal EXCEPT !.truncated = TRUE])
         ELSE nodes' = Tail(nodes) /\ UNCHANGED terminal
  BY DEF Emit
<1>2. new => node.id \notin seen
  BY DEF IsNew
<1>3. ~terminal.cancelled /\ ~terminal.truncated
  BY <1>1 DEF OnceInv, Stopped
<1>4. outcome = Nil /\ outcome \notin {"failed", "silent"}
  BY <1>1, BoundsAssumption DEF OnceInv
<1>5. /\ Cardinality(seen) = Len(emitted) /\ Len(emitted) \in Nat
      /\ conf.limit # Nil => Len(emitted) < conf.limit
  BY <1>1, <1>3, <1>4, AppendSeq DEF OnceInv
<1>6. IsFiniteSet(seen') /\ seen \subseteq seen'
  BY <1>1, FS_AddElement DEF OnceInv
<1> HIDE DEF node, new, full, stop, entry
<1>7. CASE stop
  <2>1. emitted' = emitted
    BY <1>1, <1>7
  <2>2. terminal' = [cancelled |-> TRUE, truncated |-> FALSE] /\ nodes' = <<>>
    BY <1>1, <1>3, <1>7 DEF Leaves, OnceInv
  <2>3. QED
    BY <1>1, <1>4, <1>5, <1>6, <2>1, <2>2 DEF OnceInv, Stopped
<1>8. CASE ~stop /\ ~new
  <2>1. emitted' = emitted /\ seen' = seen
    BY <1>1, <1>8
  <2>2. terminal' = terminal
    BY <1>1, <1>8 DEF full
  <2>3. QED
    BY <1>1, <1>3, <1>4, <1>5, <2>1, <2>2 DEF OnceInv, Stopped
<1>9. CASE ~stop /\ new
  <2>1. emitted' = Append(emitted, entry) /\ seen' = seen \cup {node.id}
    BY <1>1, <1>9 DEF stop
  <2>2. /\ IsSeq(emitted') /\ Len(emitted') = Len(emitted) + 1
        /\ \A i \in 1 .. Len(emitted) : emitted'[i] = emitted[i]
        /\ emitted'[Len(emitted) + 1] = entry
    BY <2>1, AppendSeq DEF OnceInv
  <2>3. entry.id = node.id
    BY DEF entry
  <2>4. 1 .. Len(emitted') = 1 .. Len(emitted) \cup {Len(emitted) + 1}
    BY <1>5, <2>2
  <2>5. \A j \in 1 .. Len(emitted') : emitted'[j].id \in seen'
    BY <2>1, <2>2, <2>3, <2>4 DEF OnceInv
  <2>6. \A j, k \in 1 .. Len(emitted') : emitted'[j].id = emitted'[k].id => j = k
    BY <1>2, <1>9, <2>2, <2>3, <2>4 DEF OnceInv
  <2>7. Cardinality(seen') = Len(emitted')
    BY <1>2, <1>5, <1>9, <2>1, <2>2, FS_AddElement DEF OnceInv
  <2>8. CASE full
    <3>1. conf.limit # Nil /\ conf.limit \in Nat /\ Len(emitted') = conf.limit
      BY <1>5, <2>2, <2>8 DEF full, OnceInv
    <3>2. terminal' = [cancelled |-> FALSE, truncated |-> TRUE] /\ nodes' = <<>>
      BY <1>1, <1>3, <1>9, <2>8 DEF Leaves, OnceInv
    <3>3. QED
      BY <1>1, <1>4, <1>6, <2>2, <2>5, <2>6, <2>7, <3>1, <3>2 DEF OnceInv, Stopped
  <2>9. CASE ~full
    <3>1. conf.limit # Nil => conf.limit \in Nat /\ Len(emitted') < conf.limit
      BY <1>5, <1>9, <2>2, <2>9 DEF full, OnceInv
    <3>2. terminal' = terminal
      BY <1>1, <1>9, <2>9
    <3>3. QED
      BY <1>1, <1>3, <1>4, <1>6, <2>2, <2>5, <2>6, <2>7, <3>1, <3>2 DEF OnceInv, Stopped
  <2>10. QED
    BY <2>8, <2>9
<1>10. QED
  BY <1>7, <1>8, <1>9

LEMMA OnceNext == OnceInv /\ [Next]_vars => OnceInv'
<1> SUFFICES ASSUME OnceInv, [Next]_vars PROVE OnceInv'
  OBVIOUS
<1>1. CASE UNCHANGED vars
  BY <1>1 DEF OnceInv, Stopped, vars
<1>2. CASE Cancel \/ CloseReceiver
  BY <1>2 DEF Cancel, CloseReceiver, OnceInv, Stopped
<1>3. CASE Start
  <2>1. /\ pc = "start" /\ emitted = <<>> /\ UNCHANGED <<conf, seen, emitted>> /\ Len(emitted) = 0
        /\ ~terminal.cancelled /\ ~terminal.truncated
    BY <1>3, NoSeq DEF Start, OnceInv, Stopped
  <2>2. /\ pc' # "start"
        /\ \/ /\ conf.limit # 0 /\ pc' = "pop" /\ outcome' = Nil /\ terminal' = terminal
           \/ /\ conf.limit = 0 /\ pc' = "done" /\ outcome' = "completed"
              /\ terminal' = [cancelled |-> FALSE, truncated |-> TRUE]
           \/ pc' = "done" /\ outcome' = "silent" /\ terminal' = terminal
    BY <1>3, <2>1 DEF Start, Ends, OnceInv
  <2>3. conf.limit \in Nat \cup {Nil}
    BY DEF OnceInv
  <2>4. QED
    BY <2>1, <2>2, <2>3 DEF OnceInv, Stopped
<1>4. CASE StartFails
  BY <1>4, NoSeq DEF StartFails, Fails, Ends, OnceInv, Stopped
<1>5. CASE Finish
  <2>1. /\ pc \notin {"start", "done"} /\ pc' = "done" /\ UNCHANGED <<conf, seen, emitted>>
        /\ terminal' = [terminal EXCEPT !.cancelled = @ \/ cancelled]
    BY <1>5 DEF Finish, Ends
  <2>2. terminal.cancelled => terminal'.cancelled
    BY <2>1 DEF OnceInv
  <2>3. QED
    BY <2>1, <2>2, OnceKept
<1>6. CASE EndSlice
  <2>1. /\ pc = "emit" /\ nodes = <<>> /\ UNCHANGED <<conf, seen, emitted, outcome>>
        /\ terminal' = [terminal EXCEPT !.cancelled = @ \/ ~open]
        /\ pc' \in {"finish", "pop"} /\ (Stopped' => pc' = "finish")
    BY <1>6 DEF EndSlice, Stopped
  <2>2. terminal.cancelled => terminal'.cancelled
    BY <2>1 DEF OnceInv
  <2>3. QED
    BY <2>1, <2>2, OnceKept
<1>7. CASE StopAtBoundary
  <2>1. /\ pc \notin {"start", "done"} /\ pc' = "finish" /\ UNCHANGED <<conf, seen, emitted, outcome>>
        /\ terminal' = [terminal EXCEPT !.cancelled = TRUE]
    BY <1>7 DEF StopAtBoundary
  <2>2. terminal.cancelled => terminal'.cancelled
    BY <2>1 DEF OnceInv
  <2>3. QED
    BY <2>1, <2>2, OnceKept
<1>8. CASE Emit
  BY <1>8, OnceEmit
<1>9. CASE Pop \/ Da3 \/ Move \/ Read
  <2>1. /\ UNCHANGED <<conf, seen, emitted, terminal>>
        /\ pc \notin {"start", "done", "finish", "emit"}
    BY <1>9 DEF Pop, Da3, Da3LastPage, Da3Page, Da3PageFails, FallBack, Fails, Move, BrowseTo,
      BrowseToRefused, WalkUp, WalkDown, SkipBranch, Arrive, MoveFails, Jumps, Walks, AtShared,
      Read, Listing, Begin, NextBranch, EndBranches, NextItem, EndItems, IteratorFails, CallFails,
      PageRead, HasMore, SkipIterator
  <2>2. pc' # "start" /\ (pc' # "done" => outcome' = outcome)
    BY <1>9 DEF Pop, Da3, Da3LastPage, Da3Page, Da3PageFails, FallBack, Fails, Ends, Move, BrowseTo,
      BrowseToRefused, WalkUp, WalkDown, SkipBranch, Arrive, MoveFails, Jumps, Walks, AtShared,
      Read, Listing, Begin, NextBranch, EndBranches, NextItem, EndItems, IteratorFails, CallFails,
      PageRead, HasMore, SkipIterator
  <2>3. ~Stopped'
    BY <2>1 DEF OnceInv, Stopped
  <2>4. QED
    BY <2>1, <2>2, <2>3, OnceKept
<1>10. QED
  BY <1>1, <1>2, <1>3, <1>4, <1>5, <1>6, <1>7, <1>8, <1>9 DEF Next, Worker

\* Whatever the namespace, the aliases in it, the pages and the fallback are,
\* no item ID is delivered twice, never more than the limit, and the run says
\* truncated exactly when it delivered that many (seen_items, max_entries).
THEOREM DeliveryIsExact == Spec => []EntriesOnceWithinLimit
BY OnceInit, OnceNext, OnceImplies, PTL DEF Spec

-----------------------------------------------------------------------------
(* Starting over. *)

LEMMA Prepend ==
  ASSUME NEW s, IsSeq(s), NEW e
  PROVE  /\ IsSeq(<<e>> \o s) /\ Len(s) \in Nat /\ Len(<<e>> \o s) = Len(s) + 1
         /\ (<<e>> \o s)[1] = e
         /\ \A i \in 1 .. Len(s) : (<<e>> \o s)[i + 1] = s[i]
         /\ <<>> \o s = s
<1> DEFINE S == ToSet(s) \cup {e}
<1>1. s \in Seq(S) /\ <<e>> \in Seq(S) /\ Len(<<e>>) = 1 /\ <<e>>[1] = e
  BY SeqMonotonic DEF IsSeq
<1>2. Len(s) \in Nat
  BY <1>1, LenProperties
<1>3. <<e>> \o s \in Seq(S)
  BY <1>1, ConcatProperties
<1>4. /\ Len(<<e>> \o s) = 1 + Len(s)
      /\ \A i \in 1 .. 1 + Len(s) : (<<e>> \o s)[i] = IF i <= 1 THEN <<e>>[i] ELSE s[i - 1]
  <2> HIDE DEF S
  <2> QED
    BY <1>1, ConcatProperties
<1>5. <<>> \o s = s
  BY <1>1, ConcatEmptySeq
<1>6. IsSeq(<<e>> \o s)
  BY <1>3, SeqIsSeq
<1>7. \A i \in 1 .. Len(s) : (<<e>> \o s)[i + 1] = s[i]
  BY <1>2, <1>4
<1>8. (<<e>> \o s)[1] = e
  BY <1>1, <1>2, <1>4
<1>9. QED
  BY <1>2, <1>4, <1>5, <1>6, <1>7, <1>8

LEMMA HeadTail ==
  ASSUME NEW s, IsSeq(s), s # <<>>
  PROVE  /\ Len(s) \in Nat \ {0} /\ Head(s) = s[1]
         /\ IsSeq(Tail(s)) /\ Len(Tail(s)) = Len(s) - 1
         /\ \A i \in 1 .. Len(Tail(s)) : Tail(s)[i] = s[i + 1]
<1> DEFINE S == ToSet(s)
<1>1. s \in Seq(S)
  BY DEF IsSeq
<1> HIDE DEF S
<1>2. Len(s) \in Nat \ {0}
  BY <1>1, EmptySeq
<1>3. Head(s) = s[1]
  BY <1>1, <1>2
<1>4. /\ Tail(s) \in Seq(S) /\ Len(Tail(s)) = Len(s) - 1
      /\ \A i \in 1 .. Len(Tail(s)) : Tail(s)[i] = s[i + 1]
  BY <1>1, HeadTailProperties
<1>5. IsSeq(Tail(s))
  BY <1>4, SeqIsSeq
<1>6. QED
  BY <1>2, <1>3, <1>4, <1>5

\* A branch to read; a DA 3 one has no DA 2 page.
WorkOK(w) ==
  /\ w = [api |-> w.api, id |-> w.id, trail |-> w.trail, cont |-> w.cont,
          tokens |-> w.tokens, empties |-> w.empties, page |-> w.page]
  /\ IsSeq(w.trail)
  /\ w.api = "da3" => w.page = Nil

ViaDa2 == {"move", "walk", "arrived", "begin", "names", "more"}
Reading == ViaDa2 \cup {"da3", "emit"}

InitialQueued == \E i \in 1 .. Len(queue) : IsInitialDa3Root(queue[i])

\* The initial DA 3 browse of the root waits alone in the queue or is being
\* made, and then nothing has been emitted; no other work looks like it.
FreshInv ==
  /\ IsSeq(queue)
  /\ \A i \in 1 .. Len(queue) : WorkOK(queue[i])
  /\ pc \in Reading => WorkOK(work)
  /\ pc \in ViaDa2 => work.api # "da3"
  /\ pc = "start" => emitted = <<>>
  /\ InitialQueued => pc = "pop" /\ emitted = <<>> /\ Len(queue) = 1
  /\ pc = "da3" /\ IsInitialDa3Root(work) => emitted = <<>>

\* Steps that leave the queue and do not begin a branch.
LEMMA FreshKept ==
  ASSUME FreshInv, UNCHANGED queue, pc # "pop",
         pc' \notin {"start", "da3"},
         pc' \in Reading => WorkOK(work'),
         pc' \in ViaDa2 => work'.api # "da3"
  PROVE  FreshInv'
BY DEF FreshInv, InitialQueued

LEMMA FreshInit == Init => FreshInv
<1> SUFFICES ASSUME Init PROVE FreshInv
  OBVIOUS
<1>1. IsSeq(queue) /\ 1 .. Len(queue) = {}
  BY NoSeq DEF Init
<1>2. QED
  BY <1>1 DEF Init, FreshInv, InitialQueued, Reading, ViaDa2

LEMMA NewWorkOK ==
  ASSUME NEW api, NEW id, NEW trail, IsSeq(trail)
  PROVE  /\ WorkOK(NewWork(api, id, trail))
         /\ NewWork(api, id, trail).trail = trail
         /\ NewWork(api, id, trail).api = api
BY DEF WorkOK, NewWork

LEMMA FirstWork ==
  ASSUME NEW viaDa3
  PROVE  /\ WorkOK(InitialWork(viaDa3))
         /\ InitialWork(viaDa3).api = IF viaDa3 THEN "da3" ELSE "da2"
         /\ IsSeq(<<InitialWork(viaDa3)>>) /\ Len(<<InitialWork(viaDa3)>>) = 1
<1> DEFINE w == InitialWork(viaDa3)
<1>1. w \in {NewWork(IF viaDa3 THEN "da3" ELSE "da2", Nil, <<>>),
             NewWork(IF viaDa3 THEN "da3" ELSE "da2", Id[conf.scope], <<Id[conf.scope]>>)}
  BY DEF InitialWork
<1>2. ASSUME NEW e PROVE IsSeq(<<e>>) /\ Len(<<e>>) = 1
  <2>1. <<e>> \in Seq({e}) /\ Len(<<e>>) = 1
    OBVIOUS
  <2>2. QED
    BY <2>1, SeqIsSeq
<1>3. IsSeq(<<>>)
  BY NoSeq
<1>4. IsSeq(w.trail)
  BY <1>1, <1>2, <1>3 DEF NewWork
<1> HIDE DEF w
<1>5. WorkOK(w) /\ w.api = IF viaDa3 THEN "da3" ELSE "da2"
  BY <1>1, <1>4 DEF WorkOK, NewWork
<1>6. IsSeq(<<w>>) /\ Len(<<w>>) = 1
  BY <1>2
<1>7. QED
  BY <1>5, <1>6 DEF w

LEMMA FreshEmit ==
  ASSUME FreshInv, Emit
  PROVE  FreshInv'
<1> DEFINE trail == Append(work.trail, Head(nodes).name)
           next == NewWork(work.api, Head(nodes).id, trail)
<1>1. /\ pc = "emit" /\ UNCHANGED <<pc, work>>
      /\ queue' = queue \/ queue' = Append(queue, next)
  BY DEF Emit
<1>2. WorkOK(work) /\ ~InitialQueued
  BY <1>1 DEF FreshInv, Reading
<1>3. IsSeq(work.trail)
  BY <1>2 DEF WorkOK
<1>4. IsSeq(trail) /\ trail # <<>>
  BY <1>3, AppendSeq
<1> HIDE DEF trail
<1>5. WorkOK(next) /\ next.trail = trail
  BY <1>4, NewWorkOK
<1> HIDE DEF next
<1>6. ~IsInitialDa3Root(next)
  BY <1>4, <1>5 DEF IsInitialDa3Root
<1>7. CASE queue' = queue
  BY <1>1, <1>7 DEF FreshInv, InitialQueued, Reading, ViaDa2
<1>8. CASE queue' = Append(queue, next)
  <2>1. /\ IsSeq(queue') /\ Len(queue) \in Nat /\ Len(queue') = Len(queue) + 1
        /\ \A i \in 1 .. Len(queue) : queue'[i] = queue[i]
        /\ queue'[Len(queue) + 1] = next
    BY <1>8, AppendSeq DEF FreshInv
  <2>2. \A i \in 1 .. Len(queue') : i \in 1 .. Len(queue) \/ i = Len(queue) + 1
    BY <2>1
  <2>3. \A i \in 1 .. Len(queue') : WorkOK(queue'[i]) /\ ~IsInitialDa3Root(queue'[i])
    BY <1>2, <1>5, <1>6, <2>1, <2>2 DEF FreshInv, InitialQueued
  <2>4. QED
    BY <1>1, <1>2, <2>1, <2>3 DEF FreshInv, InitialQueued, Reading, ViaDa2
<1>9. QED
  BY <1>1, <1>7, <1>8

LEMMA FreshEndSlice ==
  ASSUME FreshInv, EndSlice
  PROVE  FreshInv'
<1>1. /\ pc = "emit" /\ pc' \in {"pop", "finish"}
      /\ \/ queue' = queue
         \/ Continues /\ queue' = <<work>> \o queue
         \/ queue' = <<>> \o queue
  BY DEF EndSlice
<1>2. WorkOK(work) /\ ~InitialQueued /\ IsSeq(queue)
  BY <1>1 DEF FreshInv, Reading
<1>3. CASE queue' = queue \/ queue' = <<>> \o queue
  <2>1. queue' = queue
    BY <1>2, <1>3, Prepend
  <2>2. QED
    BY <1>1, <1>2, <2>1 DEF FreshInv, InitialQueued, Reading, ViaDa2
<1>4. CASE Continues /\ queue' = <<work>> \o queue
  <2>1. ~IsInitialDa3Root(work)
    BY <1>2, <1>4 DEF Continues, IsInitialDa3Root, WorkOK
  <2>2. /\ IsSeq(queue') /\ Len(queue) \in Nat /\ Len(queue') = Len(queue) + 1
        /\ queue'[1] = work
        /\ \A i \in 1 .. Len(queue) : queue'[i + 1] = queue[i]
    <3> DEFINE s == queue
               longer == <<work>> \o s
    <3>1. IsSeq(s)
      BY <1>2
    <3> HIDE DEF s
    <3>2. /\ IsSeq(longer) /\ Len(s) \in Nat /\ Len(longer) = Len(s) + 1 /\ longer[1] = work
          /\ \A i \in 1 .. Len(s) : longer[i + 1] = s[i]
      BY <3>1, Prepend
    <3>3. queue' = longer
      BY <1>4 DEF s
    <3> HIDE DEF longer
    <3>4. QED
      BY <3>2, <3>3 DEF s
  <2>3. ASSUME NEW i \in 1 .. Len(queue')
        PROVE  WorkOK(queue'[i]) /\ ~IsInitialDa3Root(queue'[i])
    <3>1. CASE i = 1
      BY <1>2, <2>1, <2>2, <3>1
    <3>2. CASE i # 1
      <4>1. i - 1 \in 1 .. Len(queue) /\ (i - 1) + 1 = i
        BY <2>2, <3>2
      <4>2. queue'[i] = queue[i - 1]
        BY <2>2, <4>1
      <4>3. QED
        BY <1>2, <4>1, <4>2 DEF FreshInv, InitialQueued
    <3>3. QED
      BY <3>1, <3>2
  <2>4. QED
    BY <1>1, <2>2, <2>3 DEF FreshInv, InitialQueued, Reading, ViaDa2
<1>5. QED
  BY <1>1, <1>3, <1>4

LEMMA FreshPop ==
  ASSUME FreshInv, Pop
  PROVE  FreshInv'
<1>1. /\ pc = "pop" /\ queue # <<>> /\ work' = Head(queue) /\ queue' = Tail(queue)
      /\ emitted' = emitted /\ pc' = IF work'.api = "da3" THEN "da3" ELSE "move"
  BY DEF Pop
<1>2. /\ Len(queue) \in Nat \ {0} /\ work' = queue[1] /\ IsSeq(queue')
      /\ Len(queue') = Len(queue) - 1
      /\ \A i \in 1 .. Len(queue') : queue'[i] = queue[i + 1]
  BY <1>1, HeadTail DEF FreshInv
<1>3. 1 \in 1 .. Len(queue) /\ \A i \in 1 .. Len(queue') : i + 1 \in 1 .. Len(queue)
  BY <1>2
<1>4. WorkOK(work') /\ \A i \in 1 .. Len(queue') : WorkOK(queue'[i])
  BY <1>2, <1>3 DEF FreshInv
<1>5. IsInitialDa3Root(work') => emitted = <<>>
  BY <1>2, <1>3 DEF FreshInv, InitialQueued
<1>6. ~InitialQueued'
  BY <1>2, <1>3 DEF FreshInv, InitialQueued
<1>7. QED
  BY <1>1, <1>2, <1>4, <1>5, <1>6 DEF FreshInv, Reading, ViaDa2

LEMMA FreshNext == FreshInv /\ [Next]_vars => FreshInv'
<1> SUFFICES ASSUME FreshInv, [Next]_vars PROVE FreshInv'
  OBVIOUS
<1>1. CASE UNCHANGED vars \/ Cancel \/ CloseReceiver
  <2>1. UNCHANGED <<pc, queue, work, emitted>>
    BY <1>1 DEF vars, Cancel, CloseReceiver
  <2>2. QED
    BY <2>1 DEF FreshInv, InitialQueued
<1>2. CASE Start
  <2>1. /\ pc = "start" /\ emitted' = <<>>
        /\ \/ pc' = "pop" /\ queue' = <<InitialWork(da3')>>
           \/ pc' = "done" /\ queue' = queue
    BY <1>2 DEF Start, Ends, FreshInv
  <2>2. ~InitialQueued
    BY <2>1 DEF FreshInv
  <2>3. CASE queue' = queue /\ pc' = "done"
    BY <2>1, <2>2, <2>3 DEF FreshInv, InitialQueued, Reading, ViaDa2
  <2>4. CASE pc' = "pop" /\ queue' = <<InitialWork(da3')>>
    <3>1. IsSeq(queue') /\ Len(queue') = 1 /\ WorkOK(queue'[1])
      BY <2>4, FirstWork
    <3>2. \A i \in 1 .. Len(queue') : i = 1
      BY <3>1
    <3>3. QED
      BY <2>1, <2>4, <3>1, <3>2 DEF FreshInv, InitialQueued, Reading, ViaDa2
  <2>5. QED
    BY <2>1, <2>3, <2>4
<1>3. CASE StartFails \/ Da3PageFails \/ MoveFails \/ IteratorFails \/ CallFails \/ StopAtBoundary
  <2>1. /\ pc # "pop" /\ pc' \in {"done", "finish"} /\ UNCHANGED queue
    BY <1>3 DEF StartFails, Da3PageFails, MoveFails, IteratorFails, CallFails, StopAtBoundary,
      Fails, Ends, Jumps, Walks, Listing
  <2>2. QED
    BY <2>1, FreshKept DEF Reading, ViaDa2
<1>4. CASE Finish
  <2>1. pc \in {"finish", "pop"} /\ (pc = "pop" => Len(queue) = 0) /\ pc' = "done" /\ queue' = queue
    BY <1>4, NoSeq DEF Finish, Ends
  <2>2. ~InitialQueued
    BY <2>1 DEF FreshInv
  <2>3. QED
    BY <2>1, <2>2 DEF FreshInv, InitialQueued, Reading, ViaDa2
<1>5. CASE Da3LastPage \/ Da3Page
  <2>1. /\ pc = "da3" /\ pc' \in {"emit", "done"} /\ UNCHANGED queue
    BY <1>5 DEF Da3LastPage, Da3Page, Fails, Ends
  <2>2. WorkOK(work)
    BY <2>1 DEF FreshInv, Reading
  <2>3. ASSUME pc' = "emit" PROVE WorkOK(work')
    <3>1. CASE Da3LastPage
      BY <2>2, <3>1 DEF Da3LastPage, WorkOK
    <3>2. CASE Da3Page
      <4>1. PICK n, token : work' = [work EXCEPT !.cont = token, !.tokens = @ \cup {token},
                                                 !.empties = IF n = 0 THEN @ + 1 ELSE 0]
        BY <2>3, <3>2 DEF Da3Page, Fails, Ends
      <4>2. QED
        BY <2>2, <4>1 DEF WorkOK
    <3>3. QED
      BY <1>5, <3>1, <3>2
  <2>4. QED
    BY <2>1, <2>3, FreshKept DEF Reading, ViaDa2
<1>6. CASE FallBack
  <2>1. CASE pc' = "done" /\ queue' = queue
    BY <1>6, <2>1, FreshKept DEF FallBack, Reading, ViaDa2
  <2>2. CASE pc' = "pop" /\ queue' = <<InitialWork(FALSE)>>
    <3>1. /\ IsSeq(queue') /\ Len(queue') = 1 /\ WorkOK(queue'[1])
          /\ ~IsInitialDa3Root(queue'[1])
      BY <2>2, FirstWork DEF IsInitialDa3Root
    <3>2. \A i \in 1 .. Len(queue') : i = 1
      BY <3>1
    <3>3. QED
      BY <2>2, <3>1, <3>2 DEF FreshInv, InitialQueued, Reading, ViaDa2
  <2>3. QED
    BY <1>6, <2>1, <2>2 DEF FallBack, Da3After, Ends
<1>7. CASE BrowseTo \/ BrowseToRefused \/ WalkUp \/ WalkDown \/ Arrive \/ PageRead
  <2>1. pc \in ViaDa2 /\ pc' \in ViaDa2 /\ UNCHANGED <<queue, work>>
    BY <1>7 DEF BrowseTo, BrowseToRefused, WalkUp, WalkDown, Arrive, PageRead, AtShared, Jumps,
      Walks, ViaDa2
  <2>2. QED
    BY <2>1, FreshKept DEF FreshInv, Reading, ViaDa2
<1>8. CASE SkipBranch \/ Begin \/ NextBranch \/ EndBranches \/ NextItem \/ EndItems \/ HasMore
  <2>1. pc \in ViaDa2 /\ pc' \in ViaDa2 \cup {"emit"} /\ UNCHANGED queue
    BY <1>8 DEF SkipBranch, Begin, NextBranch, EndBranches, NextItem, EndItems, HasMore, AtShared,
      Walks, Listing, ViaDa2
  <2>2. \E g : work' = [work EXCEPT !.page = g]
    BY <1>8 DEF SkipBranch, Begin, NextBranch, EndBranches, NextItem, EndItems, HasMore
  <2>3. WorkOK(work) /\ work.api # "da3"
    BY <2>1 DEF FreshInv, Reading
  <2>4. WorkOK(work') /\ work'.api # "da3"
    BY <2>2, <2>3 DEF WorkOK
  <2>5. QED
    BY <2>1, <2>4, FreshKept DEF ViaDa2
<1>9. QED
  BY <1>1, <1>2, <1>3, <1>4, <1>5, <1>6, <1>7, <1>8, FreshPop, FreshEmit, FreshEndSlice
  DEF Next, Worker, Da3, Move, Read

\* The API changes only while nothing has been emitted: at the start, when a
\* cancel leaves no capabilities, and when the very first browse of the root
\* falls back. A continued root page, or a branch, never looks like that browse.
THEOREM FallBackIsFirst == Spec => FallBackBeforeEntries
<1>1. FreshInv /\ [Next]_vars => [da3' # da3 => emitted = <<>>]_vars
  <2> SUFFICES ASSUME FreshInv, [Next]_vars, da3' # da3 PROVE emitted = <<>>
    OBVIOUS
  <2>1. Start \/ FallBack
    BY DEF Next, Worker, vars, Cancel, CloseReceiver, StartFails, Finish, Pop, StopAtBoundary,
      Da3, Da3LastPage, Da3Page, Da3PageFails, Fails, Move, BrowseTo, BrowseToRefused, WalkUp,
      WalkDown, SkipBranch, Arrive, MoveFails, Read, Begin, NextBranch, EndBranches, NextItem,
      EndItems, IteratorFails, CallFails, PageRead, HasMore, Emit, EndSlice
  <2>2. QED
    BY <2>1 DEF Start, FallBack, FreshInv
<1>2. QED
  BY <1>1, FreshInit, FreshNext, PTL DEF Spec, FallBackBeforeEntries

-----------------------------------------------------------------------------
(***************************************************************************)
(* The namespace: a node, the browse names on the way to it, and the nodes *)
(* above it. Induction over the depth of a node is by the least number for *)
(* which a statement fails.                                                *)
(***************************************************************************)

LEMMA LessWF == IsWellFoundedOn({ss \in Nat \X Nat : ss[1] < ss[2]}, Nat)
BY NatLessThanWellFounded DEF OpToRel

LEMMA LeastNat ==
  ASSUME NEW T, T \subseteq Nat, T # {}
  PROVE  \E x \in T : \A y \in T : x <= y
<1> DEFINE R == {ss \in Nat \X Nat : ss[1] < ss[2]}
<1>1. IsWellFoundedOn(R, Nat)
  BY LessWF
<1>2. \A x, y \in Nat : x < y => <<x, y>> \in R
  OBVIOUS
<1> HIDE DEF R
<1>3. PICK x \in T : \A y \in T : ~(<<y, x>> \in R)
  BY <1>1, WFMin
<1>4. ASSUME NEW y \in T PROVE x <= y
  <2>1. x \in Nat /\ y \in Nat
    OBVIOUS
  <2>2. ~(y < x)
    BY <1>2, <1>3, <2>1
  <2>3. QED
    BY <2>1, <2>2
<1>5. QED
  BY <1>4

LEMMA SeqElements == ASSUME NEW s, IsSeq(s) PROVE DOMAIN s = 1 .. Len(s) /\ Len(s) \in Nat
BY LenProperties DEF IsSeq

LEMMA SameSeq ==
  ASSUME NEW s, NEW t, IsSeq(s), IsSeq(t), Len(s) = Len(t), \A i \in 1 .. Len(s) : s[i] = t[i]
  PROVE  s = t
<1> DEFINE S == ToSet(s) \cup ToSet(t)
<1>1. s \in Seq(S) /\ t \in Seq(S)
  BY SeqMonotonic DEF IsSeq
<1> HIDE DEF S
<1>2. QED
  BY <1>1, SeqEqual

LEMMA SameAppend ==
  ASSUME NEW s, NEW t, IsSeq(s), IsSeq(t), NEW d, NEW e, Append(s, d) = Append(t, e)
  PROVE  s = t /\ d = e
<1>1. /\ Len(s) \in Nat /\ Len(Append(s, d)) = Len(s) + 1
      /\ \A i \in 1 .. Len(s) : Append(s, d)[i] = s[i]
      /\ Append(s, d)[Len(s) + 1] = d
  BY AppendSeq
<1>2. /\ Len(t) \in Nat /\ Len(Append(t, e)) = Len(t) + 1
      /\ \A i \in 1 .. Len(t) : Append(t, e)[i] = t[i]
      /\ Append(t, e)[Len(t) + 1] = e
  BY AppendSeq
<1>3. Len(s) = Len(t)
  BY <1>1, <1>2
<1>4. \A i \in 1 .. Len(s) : s[i] = t[i]
  BY <1>1, <1>2, <1>3
<1>5. QED
  BY <1>1, <1>2, <1>3, <1>4, SameSeq

LEMMA TrailType == ASSUME NEW n \in Nodes PROVE IsSeq(TrailTo[n]) /\ Len(TrailTo[n]) \in Nat
<1>1. TrailTo[n] \in Seq({Name[m] : m \in Nodes})
  BY TreeAssumption
<1>2. IsSeq(TrailTo[n])
  BY <1>1, SeqIsSeq
<1>3. QED
  BY <1>2, SeqElements

LEMMA RootTrail == Root \in Nodes /\ TrailTo[Root] = <<>> /\ Above[Root] = {}
BY NamespaceAssumption, TreeAssumption

LEMMA ParentFacts ==
  ASSUME NEW n \in Nodes, n # Root
  PROVE  /\ Parent(n) \in Nodes /\ n \in KidsOf(Parent(n)) /\ Parent(n) \in Branches
         /\ TrailTo[n] = Append(TrailTo[Parent(n)], Name[n])
         /\ Len(TrailTo[n]) = Len(TrailTo[Parent(n)]) + 1
         /\ Above[n] = Above[Parent(n)] \cup {Parent(n)}
<1>1. \E p \in Nodes : n \in KidsOf(p)
  BY TreeAssumption
<1>2. Parent(n) \in Nodes /\ n \in KidsOf(Parent(n))
  BY <1>1 DEF Parent
<1>3. Parent(n) \in Branches
  BY <1>2, NamespaceAssumption
<1>4. TrailTo[n] = Append(TrailTo[Parent(n)], Name[n])
  BY TreeAssumption
<1>5. Above[n] = Above[Parent(n)] \cup {Parent(n)}
  BY TreeAssumption
<1>6. Len(TrailTo[n]) = Len(TrailTo[Parent(n)]) + 1
  BY <1>2, <1>4, TrailType, AppendSeq
<1>7. QED
  BY <1>2, <1>3, <1>4, <1>5, <1>6

LEMMA KidFacts ==
  ASSUME NEW n \in Nodes, NEW k \in KidsOf(n)
  PROVE  /\ k \in Nodes /\ k # Root /\ Parent(k) = n
         /\ TrailTo[k] = Append(TrailTo[n], Name[k])
         /\ Above[k] = Above[n] \cup {n}
<1>1. Kids[n] \in Seq(Nodes)
  BY NamespaceAssumption
<1>2. \A i \in DOMAIN Kids[n] : Kids[n][i] \in Nodes
  BY <1>1, ElementOfSeq, LenProperties
<1>3. k \in Nodes
  BY <1>2 DEF KidsOf, ToSet
<1>4. k # Root
  BY NamespaceAssumption
<1>5. \A p \in Nodes : k \in KidsOf(p) => p = n
  BY NamespaceAssumption
<1>6. Parent(k) = n
  BY <1>5 DEF Parent
<1>7. QED
  BY <1>3, <1>4, <1>6, ParentFacts

\* No two nodes have the same browse names on the way to them.
LEMMA TrailInjective ==
  ASSUME NEW m \in Nodes, NEW n \in Nodes, TrailTo[m] = TrailTo[n]
  PROVE  m = n
<1> DEFINE Twins(a, b) == a # b /\ TrailTo[a] = TrailTo[b]
           T == {l \in Nat : \E a, b \in Nodes : Twins(a, b) /\ Len(TrailTo[a]) = l}
<1>1. SUFFICES T = {}
  BY TrailType
<1>2. SUFFICES ASSUME T # {} PROVE FALSE
  OBVIOUS
<1>3. PICK l \in T : \A y \in T : l <= y
  <2>1. T \subseteq Nat
    OBVIOUS
  <2> HIDE DEF T
  <2>2. QED
    BY <1>2, <2>1, LeastNat
<1>4. PICK a \in Nodes, b \in Nodes : Twins(a, b) /\ Len(TrailTo[a]) = l
  BY <1>3
<1>5. a # Root /\ b # Root
  <2>1. ASSUME NEW c \in Nodes, TrailTo[c] = <<>> PROVE c = Root
    <3>1. c # Root => Len(TrailTo[c]) # 0
      BY ParentFacts, TrailType
    <3>2. QED
      BY <2>1, <3>1, NoSeq
  <2>2. QED
    BY <1>4, <2>1, RootTrail
<1>6. Append(TrailTo[Parent(a)], Name[a]) = Append(TrailTo[Parent(b)], Name[b])
  BY <1>4, <1>5, ParentFacts
<1>7. TrailTo[Parent(a)] = TrailTo[Parent(b)] /\ Name[a] = Name[b]
  <2>1. IsSeq(TrailTo[Parent(a)]) /\ IsSeq(TrailTo[Parent(b)])
    BY <1>5, ParentFacts, TrailType
  <2>2. QED
    BY <1>6, <2>1, SameAppend
<1>8. Parent(a) # Parent(b)
  <2> SUFFICES ASSUME Parent(a) = Parent(b) PROVE FALSE
    OBVIOUS
  <2>1. a \in KidsOf(Parent(a)) /\ b \in KidsOf(Parent(a)) /\ Parent(a) \in Nodes
    BY <1>5, ParentFacts
  <2>2. QED
    BY <1>4, <1>7, <2>1, NamespaceAssumption
<1>9. Len(TrailTo[Parent(a)]) \in T
  BY <1>5, <1>7, <1>8, ParentFacts, TrailType
<1>10. Len(TrailTo[a]) = Len(TrailTo[Parent(a)]) + 1 /\ Len(TrailTo[Parent(a)]) \in Nat
  BY <1>5, ParentFacts, TrailType
<1>11. QED
  BY <1>3, <1>4, <1>9, <1>10

\* On the way from n to a node below it there is a child of n.
LEMMA AboveStep ==
  ASSUME NEW i \in Nodes
  PROVE  /\ Above[i] \subseteq Branches
         /\ \A n \in Above[i] : \E c \in KidsOf(n) : c = i \/ c \in Above[i]
<1> DEFINE Good(a) == /\ Above[a] \subseteq Branches
                      /\ \A n \in Above[a] : \E c \in KidsOf(n) : c = a \/ c \in Above[a]
           T == {l \in Nat : \E a \in Nodes : ~Good(a) /\ Len(TrailTo[a]) = l}
<1>1. SUFFICES T = {}
  BY TrailType
<1>2. SUFFICES ASSUME T # {} PROVE FALSE
  OBVIOUS
<1>3. PICK l \in T : \A y \in T : l <= y
  <2>1. T \subseteq Nat
    OBVIOUS
  <2> HIDE DEF T
  <2>2. QED
    BY <1>2, <2>1, LeastNat
<1>4. PICK a \in Nodes : ~Good(a) /\ Len(TrailTo[a]) = l
  BY <1>3
<1>5. a # Root
  BY <1>4, RootTrail
<1>6. /\ Parent(a) \in Branches /\ Parent(a) \in Nodes /\ a \in KidsOf(Parent(a))
      /\ Above[a] = Above[Parent(a)] \cup {Parent(a)}
      /\ Len(TrailTo[a]) = Len(TrailTo[Parent(a)]) + 1 /\ Len(TrailTo[Parent(a)]) \in Nat
  BY <1>5, ParentFacts, TrailType
<1>7. Good(Parent(a))
  <2> SUFFICES ASSUME ~Good(Parent(a)) PROVE FALSE
    OBVIOUS
  <2>1. Len(TrailTo[Parent(a)]) \in T
    BY <1>6
  <2>2. l <= Len(TrailTo[Parent(a)])
    BY <1>3, <2>1
  <2>3. QED
    BY <1>4, <1>6, <2>2
<1>8. Good(a)
  BY <1>6, <1>7
<1>9. QED
  BY <1>4, <1>8

\* At every depth on the way to n there is a node, and the next one is its child.
LEMMA WayDown ==
  ASSUME NEW n \in Nodes, NEW j \in Nat, j < Len(TrailTo[n])
  PROVE  \E m \in Nodes : \E k \in KidsOf(m) :
           /\ Len(TrailTo[m]) = j
           /\ \A i \in 1 .. j : TrailTo[m][i] = TrailTo[n][i]
           /\ Name[k] = TrailTo[n][j + 1]
           /\ n \in Branches => k \in Branches
<1> DEFINE Good(a) ==
             j < Len(TrailTo[a]) =>
               \E m \in Nodes : \E k \in KidsOf(m) :
                 /\ Len(TrailTo[m]) = j
                 /\ \A i \in 1 .. j : TrailTo[m][i] = TrailTo[a][i]
                 /\ Name[k] = TrailTo[a][j + 1]
                 /\ a \in Branches => k \in Branches
           T == {l \in Nat : \E a \in Nodes : ~Good(a) /\ Len(TrailTo[a]) = l}
<1>1. SUFFICES T = {}
  BY TrailType
<1>2. SUFFICES ASSUME T # {} PROVE FALSE
  OBVIOUS
<1>3. PICK l \in T : \A y \in T : l <= y
  <2>1. T \subseteq Nat
    OBVIOUS
  <2> HIDE DEF T
  <2>2. QED
    BY <1>2, <2>1, LeastNat
<1>4. PICK a \in Nodes : ~Good(a) /\ Len(TrailTo[a]) = l
  BY <1>3
<1> DEFINE p == Parent(a)
<1>5. j < Len(TrailTo[a])
  BY <1>4
<1>6. a # Root
  BY <1>5, RootTrail, NoSeq
<1>7. /\ p \in Branches /\ p \in Nodes /\ a \in KidsOf(p)
      /\ TrailTo[a] = Append(TrailTo[p], Name[a])
      /\ Len(TrailTo[a]) = Len(TrailTo[p]) + 1 /\ Len(TrailTo[p]) \in Nat
      /\ IsSeq(TrailTo[p])
  BY <1>6, ParentFacts, TrailType
<1>8. /\ \A i \in 1 .. Len(TrailTo[p]) : TrailTo[a][i] = TrailTo[p][i]
      /\ TrailTo[a][Len(TrailTo[p]) + 1] = Name[a]
  BY <1>7, AppendSeq
<1>9. Good(p)
  <2> SUFFICES ASSUME ~Good(p) PROVE FALSE
    OBVIOUS
  <2>1. Len(TrailTo[p]) \in T
    BY <1>7
  <2>2. l <= Len(TrailTo[p])
    BY <1>3, <2>1
  <2>3. QED
    BY <1>4, <1>7, <2>2
<1>10. Good(a)
  <2>1. CASE j = Len(TrailTo[p])
    BY <1>7, <1>8, <2>1
  <2>2. CASE j # Len(TrailTo[p])
    <3>1. j < Len(TrailTo[p])
      BY <1>5, <1>7, <2>2
    <3>2. PICK m \in Nodes : \E k \in KidsOf(m) :
            /\ Len(TrailTo[m]) = j
            /\ \A i \in 1 .. j : TrailTo[m][i] = TrailTo[p][i]
            /\ Name[k] = TrailTo[p][j + 1]
            /\ p \in Branches => k \in Branches
      BY <1>9, <3>1
    <3>3. PICK k \in KidsOf(m) :
            /\ Len(TrailTo[m]) = j
            /\ \A i \in 1 .. j : TrailTo[m][i] = TrailTo[p][i]
            /\ Name[k] = TrailTo[p][j + 1]
            /\ p \in Branches => k \in Branches
      BY <3>2
    <3>4. /\ \A i \in 1 .. j : i \in 1 .. Len(TrailTo[p])
          /\ j + 1 \in 1 .. Len(TrailTo[p])
      BY <1>7, <3>1
    <3>5. /\ \A i \in 1 .. j : TrailTo[m][i] = TrailTo[a][i]
          /\ Name[k] = TrailTo[a][j + 1]
      BY <1>8, <3>3, <3>4
    <3>6. QED
      BY <1>7, <3>3, <3>5
  <2>3. QED
    BY <2>1, <2>2
<1>11. QED
  BY <1>4, <1>10

-----------------------------------------------------------------------------
(* Places: the browse names from the root that breadcrumbs stand for. *)

Full(scope, trail) ==
  IF scope = Root \/ trail = <<>> THEN trail ELSE TrailTo[scope] \o Tail(trail)

\* The node breadcrumbs lead to (none or one): NodesAt for the run's scope.
At(scope, trail) ==
  IF scope = Root \/ trail = <<>> THEN Walk(Root, trail) ELSE Walk(scope, Tail(trail))

\* Breadcrumbs that a branch is read under: those of a scoped run begin with the
\* item ID it was given.
TrailOK(scope, trail) ==
  IsSeq(trail) /\ (scope # Root => trail # <<>> /\ trail[1] = Id[scope])

LEMMA ConcatSeq ==
  ASSUME NEW s, NEW t, IsSeq(s), IsSeq(t)
  PROVE  /\ IsSeq(s \o t) /\ Len(s \o t) = Len(s) + Len(t)
         /\ \A i \in 1 .. Len(s) : (s \o t)[i] = s[i]
         /\ \A i \in 1 .. Len(t) : (s \o t)[Len(s) + i] = t[i]
<1> DEFINE S == ToSet(s) \cup ToSet(t)
<1>1. s \in Seq(S) /\ t \in Seq(S)
  BY SeqMonotonic DEF IsSeq
<1>2. s \o t \in Seq(S)
  BY <1>1, ConcatProperties
<1>3. Len(s) \in Nat /\ Len(t) \in Nat
  BY SeqElements
<1>4. /\ Len(s \o t) = Len(s) + Len(t)
      /\ \A i \in 1 .. Len(s) + Len(t) :
           (s \o t)[i] = IF i <= Len(s) THEN s[i] ELSE t[i - Len(s)]
  <2> HIDE DEF S
  <2> QED
    BY <1>1, ConcatProperties
<1>5. IsSeq(s \o t)
  BY <1>2, SeqIsSeq
<1>6. \A i \in 1 .. Len(s) : (s \o t)[i] = s[i]
  BY <1>3, <1>4
<1>7. ASSUME NEW i \in 1 .. Len(t) PROVE (s \o t)[Len(s) + i] = t[i]
  <2>1. Len(s) + i \in 1 .. Len(s) + Len(t) /\ ~(Len(s) + i <= Len(s)) /\ (Len(s) + i) - Len(s) = i
    BY <1>3
  <2>2. QED
    BY <1>4, <2>1
<1>8. QED
  BY <1>4, <1>5, <1>6, <1>7

\* What breadcrumbs within a scope stand for, name by name.
LEMMA FullScoped ==
  ASSUME NEW scope \in Nodes, scope # Root, NEW trail, IsSeq(trail), trail # <<>>
  PROVE  /\ IsSeq(Full(scope, trail)) /\ Full(scope, trail) = TrailTo[scope] \o Tail(trail)
         /\ Len(Full(scope, trail)) = Len(TrailTo[scope]) + (Len(trail) - 1)
         /\ \A i \in 1 .. Len(TrailTo[scope]) : Full(scope, trail)[i] = TrailTo[scope][i]
         /\ \A i \in 1 .. Len(trail) - 1 :
              Full(scope, trail)[Len(TrailTo[scope]) + i] = trail[i + 1]
<1> DEFINE full == Full(scope, trail)
           base == TrailTo[scope]
           rest2 == Tail(trail)
<1>1. full = base \o rest2
  BY DEF Full
<1>2. /\ IsSeq(base) /\ IsSeq(rest2) /\ Len(rest2) = Len(trail) - 1
      /\ \A i \in 1 .. Len(rest2) : rest2[i] = trail[i + 1]
  BY TrailType, HeadTail
<1> HIDE DEF full, base, rest2
<1>3. /\ IsSeq(full) /\ Len(full) = Len(base) + Len(rest2)
      /\ \A i \in 1 .. Len(base) : full[i] = base[i]
      /\ \A i \in 1 .. Len(rest2) : full[Len(base) + i] = rest2[i]
  <2>1. /\ IsSeq(base \o rest2) /\ Len(base \o rest2) = Len(base) + Len(rest2)
        /\ \A i \in 1 .. Len(base) : (base \o rest2)[i] = base[i]
        /\ \A i \in 1 .. Len(rest2) : (base \o rest2)[Len(base) + i] = rest2[i]
    <3>1. IsSeq(base) /\ IsSeq(rest2)
      BY <1>2
    <3>2. QED
      BY ONLY <3>1, ConcatSeq
  <2>2. QED
    BY ONLY <1>1, <2>1, Zenon
<1>4. /\ Len(full) = Len(base) + (Len(trail) - 1)
      /\ \A i \in 1 .. Len(trail) - 1 : full[Len(base) + i] = trail[i + 1]
  BY <1>2, <1>3
<1>5. QED
  BY <1>1, <1>3, <1>4 DEF full, base, rest2

LEMMA FullNames ==
  ASSUME NEW scope \in Nodes, NEW trail, IsSeq(trail)
  PROVE  /\ IsSeq(Full(scope, trail)) /\ Len(Full(scope, trail)) \in Nat
         /\ scope = Root => Full(scope, trail) = trail
<1>1. CASE scope = Root \/ trail = <<>>
  BY <1>1, SeqElements DEF Full
<1>2. CASE scope # Root /\ trail # <<>>
  BY <1>2, FullScoped, SeqElements
<1>3. QED
  BY <1>1, <1>2

LEMMA FullAppend ==
  ASSUME NEW scope \in Nodes, NEW trail, TrailOK(scope, trail), NEW name
  PROVE  Full(scope, Append(trail, name)) = Append(Full(scope, trail), name) /\ TrailOK(scope, Append(trail, name))
<1> DEFINE more == Append(trail, name)
           base == TrailTo[scope]
<1>1. /\ IsSeq(trail) /\ IsSeq(more) /\ more # <<>>
      /\ Len(trail) \in Nat /\ Len(more) = Len(trail) + 1
      /\ \A i \in 1 .. Len(trail) : more[i] = trail[i]
      /\ more[Len(trail) + 1] = name
  BY AppendSeq DEF TrailOK
<1>2. CASE scope = Root
  BY <1>1, <1>2, FullNames DEF TrailOK
<1>3. CASE scope # Root
  <2>1. trail # <<>> /\ Len(trail) # 0
    BY <1>1, <1>3, HeadTail DEF TrailOK
  <2>2. more[1] = trail[1]
    BY <1>1, <2>1
  <2>3. /\ IsSeq(Full(scope, trail)) /\ IsSeq(Full(scope, more)) /\ Len(base) \in Nat
        /\ Len(Full(scope, trail)) = Len(base) + (Len(trail) - 1)
        /\ Len(Full(scope, more)) = Len(base) + (Len(more) - 1)
        /\ \A i \in 1 .. Len(base) : Full(scope, trail)[i] = base[i] /\ Full(scope, more)[i] = base[i]
        /\ \A i \in 1 .. Len(trail) - 1 : Full(scope, trail)[Len(base) + i] = trail[i + 1]
        /\ \A i \in 1 .. Len(more) - 1 : Full(scope, more)[Len(base) + i] = more[i + 1]
    <3> HIDE DEF more
    <3>1. IsSeq(more) /\ more # <<>>
      BY <1>1
    <3>2. IsSeq(Full(scope, trail)) /\ IsSeq(Full(scope, more)) /\ Len(base) \in Nat
      BY <1>1, <3>1, FullNames, TrailType
    <3>3. /\ Len(Full(scope, trail)) = Len(base) + (Len(trail) - 1)
          /\ \A i \in 1 .. Len(base) : Full(scope, trail)[i] = base[i]
          /\ \A i \in 1 .. Len(trail) - 1 : Full(scope, trail)[Len(base) + i] = trail[i + 1]
      BY <1>1, <1>3, <2>1, FullScoped
    <3>4. /\ Len(Full(scope, more)) = Len(base) + (Len(more) - 1)
          /\ \A i \in 1 .. Len(base) : Full(scope, more)[i] = base[i]
          /\ \A i \in 1 .. Len(more) - 1 : Full(scope, more)[Len(base) + i] = more[i + 1]
      BY <1>3, <3>1, FullScoped
    <3>5. QED
      BY <3>2, <3>3, <3>4
  <2>4. /\ IsSeq(Append(Full(scope, trail), name)) /\ Len(Append(Full(scope, trail), name)) = Len(Full(scope, trail)) + 1
        /\ \A i \in 1 .. Len(Full(scope, trail)) : Append(Full(scope, trail), name)[i] = Full(scope, trail)[i]
        /\ Append(Full(scope, trail), name)[Len(Full(scope, trail)) + 1] = name
    BY <2>3, AppendSeq
  <2>5. ASSUME NEW i \in 1 .. Len(Full(scope, more))
        PROVE  Full(scope, more)[i] = Append(Full(scope, trail), name)[i]
    <3> HIDE DEF more, base
    <3>1. CASE i \in 1 .. Len(base)
      <4>1. i \in 1 .. Len(Full(scope, trail))
        BY <1>1, <2>1, <2>3, <3>1
      <4>2. QED
        BY <2>3, <2>4, <3>1, <4>1
    <3>2. CASE i \notin 1 .. Len(base)
      <4> DEFINE j == i - Len(base)
      <4>0. Len(Full(scope, more)) = Len(base) + Len(trail) /\ Len(more) - 1 = Len(trail)
        BY <1>1, <2>3
      <4>1. j \in 1 .. Len(more) - 1 /\ i = Len(base) + j /\ j + 1 \in 1 .. Len(more)
        BY <1>1, <2>3, <3>2, <4>0
      <4>2. Full(scope, more)[i] = more[j + 1]
        <5> HIDE DEF j
        <5> QED
          BY <2>3, <4>1
      <4>3. CASE j = Len(trail)
        BY <1>1, <2>3, <2>4, <4>1, <4>2, <4>3
      <4>4. CASE j # Len(trail)
        <5>1. /\ j \in 1 .. Len(trail) - 1 /\ j + 1 \in 1 .. Len(trail)
              /\ i \in 1 .. Len(Full(scope, trail))
          BY <1>1, <2>3, <4>1, <4>4
        <5>2. Full(scope, trail)[i] = trail[j + 1]
          <6> HIDE DEF j
          <6> QED
            BY <2>3, <4>1, <5>1
        <5>3. QED
          BY <1>1, <2>4, <4>2, <5>1, <5>2
      <4>5. QED
        BY <4>3, <4>4
    <3>3. QED
      BY <3>1, <3>2
  <2>6. Len(Full(scope, more)) = Len(Append(Full(scope, trail), name))
    BY <1>1, <2>3, <2>4
  <2>7. Full(scope, more) = Append(Full(scope, trail), name)
    BY <2>3, <2>4, <2>5, <2>6, SameSeq
  <2>8. QED
    BY <1>1, <1>3, <2>2, <2>7 DEF TrailOK
<1>4. QED
  BY <1>2, <1>3

LEMMA PlaceOf ==
  ASSUME NEW scope \in Nodes, NEW trail, IsSeq(trail)
  PROVE  At(scope, trail) = {m \in Nodes : TrailTo[m] = Full(scope, trail)}
<1>1. \A s : IsSeq(s) => <<>> \o s = s
  BY Prepend
<1>2. CASE scope = Root \/ trail = <<>>
  BY <1>1, <1>2, RootTrail DEF At, Walk, Full
<1>3. CASE ~(scope = Root \/ trail = <<>>)
  BY <1>3 DEF At, Walk, Full
<1>4. QED
  BY <1>2, <1>3

LEMMA OnePlace ==
  ASSUME NEW scope \in Nodes, NEW trail, IsSeq(trail),
         NEW b \in At(scope, trail), NEW c \in At(scope, trail)
  PROVE  b = c /\ b \in Nodes
BY PlaceOf, TrailInjective

\* One name further.
LEMMA PlaceDown ==
  ASSUME NEW scope \in Nodes, NEW trail, TrailOK(scope, trail),
         NEW b \in At(scope, trail), NEW k \in KidsOf(b)
  PROVE  k \in At(scope, Append(trail, Name[k])) /\ k \in Nodes /\ k # Root
<1>1. b \in Nodes /\ TrailTo[b] = Full(scope, trail)
  BY PlaceOf DEF TrailOK
<1>2. k \in Nodes /\ k # Root /\ TrailTo[k] = Append(TrailTo[b], Name[k])
  BY <1>1, KidFacts
<1>3. IsSeq(Append(trail, Name[k])) /\ Full(scope, Append(trail, Name[k])) = Append(Full(scope, trail), Name[k])
  BY FullAppend DEF TrailOK
<1>4. QED
  BY <1>1, <1>2, <1>3, PlaceOf

\* The first step of a run at the root, and the only place a scoped run starts.
LEMMA FirstPlace ==
  ASSUME NEW scope \in Branches
  PROVE  /\ IsSeq(<<>>) /\ At(scope, <<>>) = {Root}
         /\ scope # Root => /\ TrailOK(scope, <<Id[scope]>>)
                      /\ At(scope, <<Id[scope]>>) = {scope}
<1>1. scope \in Nodes
  BY NamespaceAssumption
<1>2. IsSeq(<<>>) /\ At(scope, <<>>) = {Root}
  <2>1. IsSeq(<<>>) /\ Full(scope, <<>>) = <<>>
    BY NoSeq DEF Full
  <2>2. At(scope, <<>>) = {m \in Nodes : TrailTo[m] = <<>>}
    BY <1>1, <2>1, PlaceOf
  <2>3. QED
    BY <2>1, <2>2, RootTrail, TrailInjective
<1>3. ASSUME scope # Root
      PROVE  TrailOK(scope, <<Id[scope]>>) /\ At(scope, <<Id[scope]>>) = {scope}
  <2> DEFINE id == Id[scope]
  <2>1. <<id>> \in Seq({id}) /\ <<id>> # <<>> /\ <<id>>[1] = id /\ Tail(<<id>>) = <<>>
    OBVIOUS
  <2>2. IsSeq(<<id>>)
    BY <2>1, SeqIsSeq
  <2>3. TrailTo[scope] \o <<>> = TrailTo[scope]
    BY <1>1, TrailType, ConcatEmptySeq DEF IsSeq
  <2>4. Full(scope, <<id>>) = TrailTo[scope]
    BY <1>3, <2>1, <2>3 DEF Full
  <2>5. At(scope, <<id>>) = {m \in Nodes : TrailTo[m] = TrailTo[scope]}
    BY <1>1, <2>2, <2>4, PlaceOf
  <2>6. QED
    BY <1>1, <2>1, <2>2, <2>5, TrailInjective DEF TrailOK
<1>4. QED
  BY <1>2, <1>3

\* One name less.
LEMMA FrontSeq ==
  ASSUME NEW s, IsSeq(s), s # <<>>
  PROVE  /\ IsSeq(Front(s)) /\ Len(Front(s)) = Len(s) - 1 /\ Len(s) \in Nat \ {0}
         /\ \A i \in 1 .. Len(s) - 1 : Front(s)[i] = s[i]
         /\ s = Append(Front(s), Last(s))
<1> DEFINE S == ToSet(s)
           m == Len(s) - 1
<1>1. s \in Seq(S) /\ Len(s) \in Nat \ {0}
  BY HeadTail DEF IsSeq
<1> HIDE DEF S
<1>2. m \in Nat /\ \A i \in 1 .. m : s[i] \in S
  BY <1>1, ElementOfSeq
<1>3. /\ SubSeq(s, 1, m) \in Seq(S) /\ Len(SubSeq(s, 1, m)) = IF 1 <= m THEN m - 1 + 1 ELSE 0
      /\ \A i \in 1 .. m - 1 + 1 : SubSeq(s, 1, m)[i] = s[1 + i - 1]
  BY <1>2, SubSeqProperties
<1>4. Front(s) = SubSeq(s, 1, m)
  BY DEF Front
<1>5. Len(Front(s)) = m /\ \A i \in 1 .. m : Front(s)[i] = s[i]
  <2> HIDE DEF m
  <2> QED
    BY <1>2, <1>3, <1>4
<1>6. IsSeq(Front(s))
  BY <1>3, <1>4, SeqIsSeq
<1>7. s = Append(Front(s), Last(s))
  <2>1. /\ IsSeq(Append(Front(s), Last(s)))
        /\ Len(Append(Front(s), Last(s))) = Len(Front(s)) + 1
        /\ \A i \in 1 .. Len(Front(s)) : Append(Front(s), Last(s))[i] = Front(s)[i]
        /\ Append(Front(s), Last(s))[Len(Front(s)) + 1] = Last(s)
    BY <1>6, AppendSeq
  <2>2. Len(Append(Front(s), Last(s))) = Len(s)
    BY <1>1, <1>5, <2>1
  <2>3. \A i \in 1 .. Len(s) : i \in 1 .. Len(Front(s)) \/ i = Len(Front(s)) + 1
    BY <1>1, <1>5
  <2>4. \A i \in 1 .. Len(s) : s[i] = Append(Front(s), Last(s))[i]
    BY <1>1, <1>5, <2>1, <2>3 DEF Last
  <2>5. QED
    BY <2>1, <2>2, <2>4, SameSeq
<1>8. QED
  BY <1>1, <1>5, <1>6, <1>7

LEMMA PlaceUp ==
  ASSUME NEW scope \in Nodes, NEW trail, TrailOK(scope, trail), trail # <<>>, scope # Root => Len(trail) > 1,
         NEW b \in At(scope, trail)
  PROVE  Parent(b) \in At(scope, Front(trail)) /\ TrailOK(scope, Front(trail))
<1>1. IsSeq(trail) /\ b \in Nodes /\ TrailTo[b] = Full(scope, trail)
  BY PlaceOf DEF TrailOK
<1>2. /\ IsSeq(Front(trail)) /\ Len(Front(trail)) = Len(trail) - 1 /\ Len(trail) \in Nat \ {0}
      /\ \A i \in 1 .. Len(trail) - 1 : Front(trail)[i] = trail[i]
      /\ trail = Append(Front(trail), Last(trail))
  BY <1>1, FrontSeq
<1>3. TrailOK(scope, Front(trail))
  <2>1. ASSUME scope # Root PROVE Front(trail) # <<>> /\ Front(trail)[1] = Id[scope]
    <3>1. Len(Front(trail)) # 0 /\ 1 \in 1 .. Len(trail) - 1
      BY <1>2, <2>1
    <3>2. Front(trail) # <<>>
      BY <3>1, NoSeq
    <3>3. QED
      BY <1>2, <2>1, <3>1, <3>2 DEF TrailOK
  <2>2. QED
    BY <1>2, <2>1 DEF TrailOK
<1>4. Full(scope, trail) = Append(Full(scope, Front(trail)), Last(trail))
  BY <1>2, <1>3, FullAppend
<1>5. IsSeq(Full(scope, Front(trail)))
  BY <1>2, FullNames
<1>6. b # Root
  BY <1>1, <1>4, <1>5, AppendSeq, RootTrail
<1>7. Parent(b) \in Nodes /\ TrailTo[b] = Append(TrailTo[Parent(b)], Name[b])
  BY <1>1, <1>6, ParentFacts
<1>8. TrailTo[Parent(b)] = Full(scope, Front(trail))
  <2>1. IsSeq(TrailTo[Parent(b)])
    BY <1>7, TrailType
  <2>2. Append(TrailTo[Parent(b)], Name[b]) = Append(Full(scope, Front(trail)), Last(trail))
    BY <1>1, <1>4, <1>7
  <2>3. QED
    BY <1>5, <2>1, <2>2, SameAppend
<1>9. QED
  BY <1>2, <1>3, <1>7, <1>8, PlaceOf

\* A branch that breadcrumbs lead to is reached from every place on the way.
LEMMA PlaceAhead ==
  ASSUME NEW scope \in Nodes, NEW trail, TrailOK(scope, trail), NEW b \in At(scope, trail), b \in Branches,
         NEW p, TrailOK(scope, p), Len(p) < Len(trail), \A i \in 1 .. Len(p) : p[i] = trail[i],
         NEW c \in At(scope, p)
  PROVE  ChildNamed(c, trail[Len(p) + 1]) \cap Branches # {}
<1> DEFINE j == Len(Full(scope, p))
           base == TrailTo[scope]
<1>1. /\ IsSeq(trail) /\ IsSeq(p) /\ b \in Nodes /\ c \in Nodes
      /\ TrailTo[b] = Full(scope, trail) /\ TrailTo[c] = Full(scope, p)
  BY PlaceOf DEF TrailOK
<1>2. Len(p) \in Nat /\ Len(trail) \in Nat /\ j \in Nat /\ Len(base) \in Nat
  BY <1>1, SeqElements, FullNames, TrailType
<1>3. /\ j < Len(Full(scope, trail)) /\ Full(scope, trail)[j + 1] = trail[Len(p) + 1]
      /\ \A i \in 1 .. j : Full(scope, p)[i] = Full(scope, trail)[i]
  <2>1. CASE scope = Root
    <3>1. Full(scope, p) = p /\ Full(scope, trail) = trail
      BY <1>1, <2>1, FullNames
    <3>2. QED
      BY <1>2, <3>1
  <2>2. CASE scope # Root
    <3>1. trail # <<>> /\ p # <<>> /\ Len(p) # 0
      BY <1>1, <2>2, HeadTail DEF TrailOK
    <3>2. /\ Len(Full(scope, trail)) = Len(base) + (Len(trail) - 1)
          /\ \A i \in 1 .. Len(base) : Full(scope, trail)[i] = base[i]
          /\ \A i \in 1 .. Len(trail) - 1 : Full(scope, trail)[Len(base) + i] = trail[i + 1]
      BY <1>1, <2>2, <3>1, FullScoped
    <3>3. /\ j = Len(base) + (Len(p) - 1)
          /\ \A i \in 1 .. Len(base) : Full(scope, p)[i] = base[i]
          /\ \A i \in 1 .. Len(p) - 1 : Full(scope, p)[Len(base) + i] = p[i + 1]
      BY <1>1, <2>2, <3>1, FullScoped
    <3>4. Len(p) \in 1 .. Len(trail) - 1 /\ j + 1 = Len(base) + Len(p) /\ j < Len(Full(scope, trail))
      BY <1>2, <3>1, <3>2, <3>3
    <3>5. Full(scope, trail)[j + 1] = trail[Len(p) + 1]
      <4> HIDE DEF j
      <4> QED
        BY <3>2, <3>4
    <3>6. ASSUME NEW i \in 1 .. j PROVE Full(scope, p)[i] = Full(scope, trail)[i]
      <4>1. CASE i \in 1 .. Len(base)
        BY <3>2, <3>3, <4>1
      <4>2. CASE i \notin 1 .. Len(base)
        <5> DEFINE k == i - Len(base)
        <5>1. /\ k \in 1 .. Len(p) - 1 /\ i = Len(base) + k /\ k + 1 \in 1 .. Len(p)
              /\ k \in 1 .. Len(trail) - 1
          BY <1>2, <3>3, <3>4, <4>2
        <5> HIDE DEF k, j
        <5>2. Full(scope, p)[i] = p[k + 1] /\ Full(scope, trail)[i] = trail[k + 1]
          BY <3>2, <3>3, <5>1
        <5>3. QED
          BY <5>1, <5>2
      <4>3. QED
        BY <4>1, <4>2
    <3>7. QED
      BY <3>4, <3>5, <3>6
  <2>3. QED
    BY <2>1, <2>2
<1>4. PICK m \in Nodes : \E k \in KidsOf(m) :
        /\ Len(TrailTo[m]) = j
        /\ \A i \in 1 .. j : TrailTo[m][i] = TrailTo[b][i]
        /\ Name[k] = TrailTo[b][j + 1]
        /\ b \in Branches => k \in Branches
  <2>1. Len(TrailTo[b]) = Len(Full(scope, trail))
    BY <1>1
  <2>2. b \in Nodes /\ j \in Nat /\ j < Len(TrailTo[b])
    BY <1>1, <1>2, <1>3, <2>1
  <2> HIDE DEF j
  <2>3. QED
    BY <2>2, WayDown
<1>5. TrailTo[m] = Full(scope, p)
  <2> DEFINE s == TrailTo[m]
             t == Full(scope, p)
  <2>1. IsSeq(s) /\ IsSeq(t)
    BY <1>1, TrailType
  <2>2. Len(s) = Len(t) /\ \A i \in 1 .. Len(s) : s[i] = t[i]
    BY <1>1, <1>3, <1>4
  <2> HIDE DEF s, t
  <2>3. s = t
    BY <2>1, <2>2, SameSeq
  <2>4. QED
    BY <2>3 DEF s, t
<1>6. m = c
  BY <1>1, <1>5, TrailInjective
<1>7. QED
  BY <1>1, <1>3, <1>4, <1>6 DEF ChildNamed

-----------------------------------------------------------------------------
(* Enumerators of browse names. *)

LEMMA ListOfSet ==
  ASSUME NEW S, IsFiniteSet(S)
  PROVE  /\ SetToSeq(S) \in Seq(S) /\ ToSet(SetToSeq(S)) = S
         /\ IsInjective(SetToSeq(S))
<1> DEFINE n == Cardinality(S)
           f == SetToSeq(S)
<1>1. n \in Nat /\ ExistsBijection(1 .. n, S)
  BY FS_CardinalityType
<1>2. \E g \in [1 .. n -> S] : IsInjective(g)
  BY <1>1 DEF ExistsBijection, Bijection, Injection
<1>3. f \in [1 .. n -> S] /\ IsInjective(f)
  BY <1>2 DEF SetToSeq
<1>4. f \in Surjection(1 .. n, S)
  <2>1. f \in Injection(1 .. n, S)
    BY <1>3 DEF Injection
  <2>2. Cardinality(1 .. n) = n
    <3> HIDE DEF n
    <3>1. n \in Int /\ 1 \in Int
      BY <1>1
    <3>2. Cardinality(1 .. n) = IF 1 > n THEN 0 ELSE n - 1 + 1
      BY <3>1, FS_Interval, Zenon
    <3>3. QED
      BY <1>1, <3>2
  <2>3. Cardinality(1 .. n) = Cardinality(S)
    BY <2>2
  <2> HIDE DEF f, n
  <2>4. QED
    BY <2>1, <2>3, FS_Injection
<1> HIDE DEF f
<1>5. ToSet(f) = S
  BY <1>3, <1>4 DEF ToSet, Surjection
<1>6. f \in Seq(S)
  BY <1>1, <1>3
<1>7. QED
  BY <1>3, <1>5, <1>6 DEF f

LEMMA FiniteImage ==
  ASSUME NEW A, IsFiniteSet(A), NEW f
  PROVE  IsFiniteSet({f[x] : x \in A})
<1> DEFINE g == [x \in A |-> f[x]]
           B == {f[x] : x \in A}
<1>1. g \in Surjection(A, B)
  BY DEF Surjection
<1> HIDE DEF g, B
<1>2. IsFiniteSet(B)
  BY <1>1, FS_Surjection
<1>3. QED
  BY <1>2 DEF B

\* The names a new enumerator is to list.
LEMMA NamesListed ==
  ASSUME NEW n \in Nodes, NEW S
  PROVE  /\ NamesOf(n, S) \in Seq({Name[k] : k \in KidsOf(n) \cap S})
         /\ ToSet(NamesOf(n, S)) = {Name[k] : k \in KidsOf(n) \cap S}
         /\ IsInjective(NamesOf(n, S))
<1>1. KidsOf(n) \cap S \subseteq Nodes
  BY KidFacts
<1>2. IsFiniteSet(KidsOf(n) \cap S)
  BY <1>1, NamespaceAssumption, FS_Subset
<1>3. IsFiniteSet({Name[k] : k \in KidsOf(n) \cap S})
  BY <1>2, FiniteImage
<1>4. QED
  BY <1>3, ListOfSet DEF NamesOf

LEMMA IdsListed ==
  ASSUME NEW n \in Nodes
  PROVE  /\ SetToSeq({Id[i] : i \in ItemsBelow(n)}) \in Seq({Id[i] : i \in ItemsBelow(n)})
         /\ ToSet(SetToSeq({Id[i] : i \in ItemsBelow(n)})) = {Id[i] : i \in ItemsBelow(n)}
         /\ IsInjective(SetToSeq({Id[i] : i \in ItemsBelow(n)}))
<1>1. ItemsBelow(n) \subseteq Nodes
  BY NamespaceAssumption DEF ItemsBelow
<1>2. IsFiniteSet(ItemsBelow(n))
  BY <1>1, NamespaceAssumption, FS_Subset
<1>3. IsFiniteSet({Id[i] : i \in ItemsBelow(n)})
  BY <1>2, FiniteImage
<1>4. QED
  BY <1>3, ListOfSet

\* Names still to come, the one read ahead included.
Left(it) ==
  IF it = Nil THEN {}
  ELSE ToSet(it.rest) \cup {r.name : r \in {q \in ToSet(it.pending) : q.kind = "name"}}

\* It stands still, as read ahead: the next fetch says so.
Doomed(it) == it # Nil /\ \E r \in ToSet(it.pending) : r.kind = "stuck"

\* The server has listed each name once so far, and failed at nothing.
Steady(it) ==
  it # Nil =>
    /\ IsInjective(it.rest) /\ it.last \notin ToSet(it.rest)
    /\ \A r \in ToSet(it.pending) : r.kind = "name"

LEMMA NewIterator ==
  ASSUME NEW names, NEW s \in Seq(names), IsInjective(s), Nil \notin names
  PROVE  /\ Iterator(s) \in Iterators(names)
         /\ Steady(Iterator(s)) /\ ~Doomed(Iterator(s))
         /\ Iterator(s) # Nil => Left(Iterator(s)) = ToSet(s)
<1>1. Iterator(s) \in Iterators(names)
  BY DEF Iterator, Iterators
<1>2. ToSet(<<>>) = {}
  BY DEF ToSet
<1>3. ToSet(s) \subseteq names
  BY DEF ToSet
<1>4. QED
  BY <1>1, <1>2, <1>3 DEF Iterator, Steady, Doomed, Left

LEMMA RestSplit ==
  ASSUME NEW names, NEW s \in Seq(names), s # <<>>
  PROVE  /\ Head(s) \in names /\ Head(s) \in ToSet(s) /\ Tail(s) \in Seq(names)
         /\ ToSet(s) = ToSet(Tail(s)) \cup {Head(s)}
         /\ IsInjective(s) => IsInjective(Tail(s)) /\ Head(s) \notin ToSet(Tail(s))
<1>1. /\ Len(s) \in Nat \ {0} /\ Head(s) = s[1] /\ Tail(s) \in Seq(names)
      /\ Len(Tail(s)) = Len(s) - 1
      /\ \A i \in 1 .. Len(Tail(s)) : Tail(s)[i] = s[i + 1]
  BY EmptySeq, HeadTailProperties
<1>2. DOMAIN s = 1 .. Len(s) /\ DOMAIN Tail(s) = 1 .. Len(s) - 1
  BY <1>1, LenProperties
<1>3. \A i \in 1 .. Len(s) : i = 1 \/ (i - 1 \in 1 .. Len(s) - 1 /\ s[i] = Tail(s)[i - 1])
  <2>1. ASSUME NEW i \in 1 .. Len(s), i # 1
        PROVE  i - 1 \in 1 .. Len(s) - 1 /\ s[i] = Tail(s)[i - 1]
    <3>1. i - 1 \in 1 .. Len(s) - 1 /\ (i - 1) + 1 = i
      BY <1>1, <2>1
    <3>2. Tail(s)[i - 1] = s[(i - 1) + 1]
      BY <1>1, <3>1
    <3>3. QED
      BY <3>1, <3>2
  <2>2. QED
    BY <2>1
<1>4. Head(s) \in names /\ Head(s) \in ToSet(s)
  BY <1>1, <1>2 DEF ToSet
<1>5. ToSet(s) = ToSet(Tail(s)) \cup {Head(s)}
  <2>1. ToSet(Tail(s)) \subseteq ToSet(s)
    BY <1>1, <1>2 DEF ToSet
  <2>2. ASSUME NEW i \in 1 .. Len(s) PROVE s[i] \in ToSet(Tail(s)) \cup {Head(s)}
    BY <1>1, <1>2, <1>3 DEF ToSet
  <2>3. ToSet(s) \subseteq ToSet(Tail(s)) \cup {Head(s)}
    BY <1>2, <2>2 DEF ToSet
  <2>4. QED
    BY <1>4, <2>1, <2>3
<1>6. ASSUME IsInjective(s) PROVE IsInjective(Tail(s)) /\ Head(s) \notin ToSet(Tail(s))
  <2>1. \A i, j \in 1 .. Len(s) : s[i] = s[j] => i = j
    BY <1>2, <1>6 DEF IsInjective
  <2>2. \A i, j \in 1 .. Len(s) - 1 : Tail(s)[i] = Tail(s)[j] => i = j
    <3>1. ASSUME NEW i \in 1 .. Len(s) - 1, NEW j \in 1 .. Len(s) - 1, Tail(s)[i] = Tail(s)[j]
          PROVE  i = j
      <4>1. i + 1 \in 1 .. Len(s) /\ j + 1 \in 1 .. Len(s) /\ s[i + 1] = s[j + 1]
        BY <1>1, <3>1
      <4>2. i + 1 = j + 1
        BY <2>1, <4>1
      <4>3. QED
        BY <4>2
    <3>2. QED
      BY <3>1
  <2>3. \A i \in 1 .. Len(s) - 1 : Tail(s)[i] # s[1]
    <3>1. ASSUME NEW i \in 1 .. Len(s) - 1, Tail(s)[i] = s[1] PROVE FALSE
      <4>1. i + 1 \in 1 .. Len(s) /\ 1 \in 1 .. Len(s) /\ s[i + 1] = s[1] /\ i + 1 # 1
        BY <1>1, <3>1
      <4>2. QED
        BY <2>1, <4>1
    <3>2. QED
      BY <3>1
  <2>4. QED
    BY <1>1, <1>2, <2>2, <2>3 DEF IsInjective, ToSet
<1>7. QED
  BY <1>1, <1>4, <1>5, <1>6

\* The guard passes a name on, or gives up.
LEMMA GuardedFacts ==
  ASSUME NEW names, NEW it \in Iterators(names), NEW name \in names
  PROVE  LET g == Guarded(it, name)
         IN /\ g.it \in Iterators(names)
            /\ g.res \in {Result("name", name), Result("stuck", Nil)}
            /\ g.res.kind = "name" => g.it.rest = it.rest /\ g.it.pending = it.pending /\ g.it.last = name
            /\ g.res.kind = "stuck" => g.it = Iterator(<<>>)
            /\ name # it.last => g.res.kind = "name"
<1> DEFINE same == IF name = it.last THEN it.same + 1 ELSE 1
<1>1. same \in Nat /\ (name # it.last => ~(same >= MaxSame))
  BY MaxSameAssumption DEF Iterators
<1>2. CASE same >= MaxSame
  <2>1. Guarded(it, name) = [res |-> Result("stuck", Nil), it |-> Iterator(<<>>)]
    BY <1>2 DEF Guarded
  <2>2. Iterator(<<>>) \in Iterators(names)
    BY DEF Iterator, Iterators
  <2>3. QED
    BY <1>1, <1>2, <2>1, <2>2 DEF Result
<1>3. CASE ~(same >= MaxSame)
  <2> DEFINE h == [it EXCEPT !.last = name, !.same = same]
  <2>1. Guarded(it, name) = [res |-> Result("name", name), it |-> h]
    BY <1>3 DEF Guarded
  <2>2. /\ h \in Iterators(names)
        /\ h.rest = it.rest /\ h.pending = it.pending /\ h.last = name
    BY <1>1 DEF Iterators
  <2>3. Result("name", name).kind = "name"
    BY DEF Result
  <2> HIDE DEF same, h
  <2>4. QED
    BY <2>1, <2>2, <2>3
<1>4. QED
  BY <1>2, <1>3

\* Reading ahead, or not.
LEMMA PendingFacts ==
  ASSUME NEW names, NEW it \in Iterators(names), it # Nil
  PROVE  /\ it.rest \in Seq(names) /\ ToSet(it.rest) \subseteq names
         /\ it.last \in names \cup {Nil}
         /\ it.pending = <<>> => Left(it) = ToSet(it.rest) /\ ~Doomed(it)
         /\ it.pending # <<>> =>
              LET r == Head(it.pending)
              IN /\ r \in {Result("name", n) : n \in names}
                            \cup {Result("stuck", Nil), Result("broken", Nil)}
                 /\ r.kind \in {"name", "stuck", "broken"}
                 /\ r.kind = "name" => r.name \in names /\ Left(it) = ToSet(it.rest) \cup {r.name}
                 /\ r.kind # "name" => Left(it) = ToSet(it.rest) /\ ~Steady(it)
                 /\ Doomed(it) <=> r.kind = "stuck"
<1>1. it.rest \in Seq(names) /\ it.last \in names \cup {Nil}
  BY DEF Iterators
<1>2. ToSet(it.rest) \subseteq names
  BY <1>1, ElementOfSeq, LenProperties DEF ToSet
<1>3. ASSUME it.pending = <<>> PROVE Left(it) = ToSet(it.rest) /\ ~Doomed(it)
  <2>1. ToSet(it.pending) = {}
    BY <1>3 DEF ToSet
  <2>2. QED
    BY <2>1 DEF Left, Doomed
<1>4. ASSUME it.pending # <<>>
      PROVE  LET r == Head(it.pending)
             IN /\ r \in {Result("name", n) : n \in names}
                           \cup {Result("stuck", Nil), Result("broken", Nil)}
                /\ r.kind \in {"name", "stuck", "broken"}
                /\ r.kind = "name" => r.name \in names /\ Left(it) = ToSet(it.rest) \cup {r.name}
                /\ r.kind # "name" => Left(it) = ToSet(it.rest) /\ ~Steady(it)
                /\ Doomed(it) <=> r.kind = "stuck"
  <2>1. PICK r \in {Result("name", n) : n \in names}
                     \cup {Result("stuck", Nil), Result("broken", Nil)} : it.pending = <<r>>
    BY <1>4 DEF Iterators
  <2>2. Head(it.pending) = r /\ ToSet(it.pending) = {r}
    <3>1. ToSet(<<r>>) = {r}
      BY DEF ToSet
    <3>2. QED
      BY <2>1, <3>1
  <2>3. r.kind \in {"name", "stuck", "broken"} /\ (r.kind = "name" => r.name \in names)
    BY <2>1 DEF Result
  <2>4. r.kind = "name" => Left(it) = ToSet(it.rest) \cup {r.name}
    BY <2>2 DEF Left
  <2>5. r.kind # "name" => Left(it) = ToSet(it.rest) /\ ~Steady(it)
    BY <2>2 DEF Left, Steady
  <2>6. Doomed(it) <=> r.kind = "stuck"
    BY <2>2 DEF Doomed
  <2>7. QED
    BY <2>1, <2>2, <2>3, <2>4, <2>5, <2>6
<1>5. QED
  BY <1>1, <1>2, <1>3, <1>4

\* What reading an enumerator gives.
ReadOK(names, it, x) ==
  /\ x.cost \in {0, 1}
  /\ x.f.it \in Iterators(names)
  /\ x.f.res.kind \in {"name", "end", "stuck", "broken"}
  /\ x.f.res.kind = "name" =>
       /\ x.f.res.name \in names /\ x.f.it.pending = <<>>
       /\ Left(it) \subseteq Left(x.f.it) \cup {x.f.res.name}
  /\ x.f.res.kind = "end" => Left(it) = {}
  /\ x.f.res.kind = "stuck" => Doomed(it) \/ Left(it) \subseteq ToSet(it.rest)
  /\ Steady(it) /\ x.cost = 0 => x.f.res.kind \in {"name", "end"} /\ Steady(x.f.it)

LEMMA FetchFacts ==
  ASSUME NEW names, Nil \notin names, Nil \notin Iterators(names),
         NEW it \in Iterators(names), it.pending = <<>>, NEW x \in Fetches(it)
  PROVE  /\ ReadOK(names, it, x)
         /\ x.f.res \in {Result("name", n) : n \in names}
                         \cup {Result("end", Nil), Result("stuck", Nil), Result("broken", Nil)}
         /\ x.f.it.pending = <<>>
         /\ x.f.res.kind \in {"end", "broken"} => x.f.it = it
<1>1. /\ it # Nil /\ it.rest \in Seq(names) /\ it.last \in names \cup {Nil}
      /\ Left(it) = ToSet(it.rest) /\ ~Doomed(it)
  BY PendingFacts
<1>2. /\ Result("end", Nil).kind = "end" /\ Result("stuck", Nil).kind = "stuck"
      /\ Result("broken", Nil).kind = "broken"
      /\ \A n : Result("name", n).kind = "name" /\ Result("name", n).name = n
  BY DEF Result
<1>3. CASE x = [f |-> [res |-> Result("end", Nil), it |-> it], cost |-> 0] /\ it.rest = <<>>
  <2>1. ToSet(it.rest) = {}
    BY <1>3 DEF ToSet
  <2>2. /\ x.f.res = Result("end", Nil) /\ x.f.it = it /\ x.cost = 0
    BY <1>3
  <2>3. QED
    BY <1>1, <1>2, <2>1, <2>2 DEF ReadOK
<1>4. CASE /\ it.rest # <<>>
           /\ x = [f |-> Guarded([it EXCEPT !.rest = Tail(it.rest)], Head(it.rest)), cost |-> 0]
  <2> DEFINE h == [it EXCEPT !.rest = Tail(it.rest)]
             name == Head(it.rest)
  <2>1. /\ name \in names /\ name \in ToSet(it.rest) /\ Tail(it.rest) \in Seq(names)
        /\ ToSet(it.rest) = ToSet(Tail(it.rest)) \cup {name}
        /\ IsInjective(it.rest) => IsInjective(Tail(it.rest)) /\ name \notin ToSet(Tail(it.rest))
    BY <1>1, <1>4, RestSplit
  <2>2. /\ h \in Iterators(names) /\ h.rest = Tail(it.rest) /\ h.pending = <<>>
        /\ h.last = it.last
    BY <2>1 DEF Iterators
  <2>3. x.f = Guarded(h, name) /\ x.cost = 0
    BY <1>4
  <2> HIDE DEF h, name
  <2>4. /\ x.f.it \in Iterators(names)
        /\ x.f.res \in {Result("name", name), Result("stuck", Nil)}
        /\ x.f.res.kind = "name" =>
             x.f.it.rest = h.rest /\ x.f.it.pending = h.pending /\ x.f.it.last = name
        /\ x.f.res.kind = "stuck" => x.f.it = Iterator(<<>>)
        /\ name # h.last => x.f.res.kind = "name"
    BY <2>1, <2>2, <2>3, GuardedFacts
  <2>5. Iterator(<<>>).pending = <<>>
    BY DEF Iterator
  <2>6. x.f.it.pending = <<>> /\ Left(x.f.it) = ToSet(x.f.it.rest)
    BY <1>2, <2>2, <2>4, <2>5, PendingFacts
  <2>7. ASSUME Steady(it) PROVE x.f.res.kind = "name" /\ Steady(x.f.it)
    <3>1. IsInjective(it.rest) /\ it.last \notin ToSet(it.rest)
      BY <1>1, <2>7 DEF Steady
    <3>2. x.f.res.kind = "name"
      BY <2>1, <2>2, <2>4, <3>1
    <3>3. /\ x.f.it.rest = Tail(it.rest) /\ x.f.it.last = name
          /\ IsInjective(Tail(it.rest)) /\ name \notin ToSet(Tail(it.rest))
      BY <2>1, <2>2, <2>4, <3>1, <3>2
    <3>4. ToSet(x.f.it.pending) = {}
      BY <2>6 DEF ToSet
    <3>5. QED
      BY <3>2, <3>3, <3>4 DEF Steady
  <2>8. QED
    BY <1>1, <1>2, <2>1, <2>2, <2>3, <2>4, <2>6, <2>7 DEF ReadOK
<1>5. CASE it.last # Nil /\ x = [f |-> Guarded(it, it.last), cost |-> 1]
  <2>1. x.f = Guarded(it, it.last) /\ x.cost = 1 /\ it.last \in names
    BY <1>1, <1>5
  <2>2. /\ x.f.it \in Iterators(names)
        /\ x.f.res \in {Result("name", it.last), Result("stuck", Nil)}
        /\ x.f.res.kind = "name" =>
             x.f.it.rest = it.rest /\ x.f.it.pending = it.pending
        /\ x.f.res.kind = "stuck" => x.f.it = Iterator(<<>>)
    BY <2>1, GuardedFacts
  <2>3. Iterator(<<>>).pending = <<>>
    BY DEF Iterator
  <2>4. x.f.it.pending = <<>> /\ Left(x.f.it) = ToSet(x.f.it.rest)
    BY <1>2, <2>2, <2>3, PendingFacts
  <2>5. QED
    BY <1>1, <1>2, <2>1, <2>2, <2>4 DEF ReadOK
<1>6. CASE x = [f |-> [res |-> Result("broken", Nil), it |-> it], cost |-> 1]
  <2>1. x.f.res = Result("broken", Nil) /\ x.f.it = it /\ x.cost = 1
    BY <1>6
  <2>2. QED
    BY <1>1, <1>2, <2>1 DEF ReadOK
<1>7. QED
  BY <1>3, <1>4, <1>5, <1>6 DEF Fetches

LEMMA NextFacts ==
  ASSUME NEW names, Nil \notin names, Nil \notin Iterators(names),
         NEW it \in Iterators(names), NEW x \in NextOf(it)
  PROVE  ReadOK(names, it, x)
<1>1. CASE it.pending = <<>>
  BY <1>1, FetchFacts DEF NextOf
<1>2. CASE it.pending # <<>>
  <2> DEFINE r == Head(it.pending)
             h == [it EXCEPT !.pending = <<>>]
  <2>1. x.f.res = r /\ x.f.it = h /\ x.cost = 0
    BY <1>2 DEF NextOf
  <2>2. h \in Iterators(names) /\ h.rest = it.rest /\ h.last = it.last /\ h.pending = <<>>
    BY DEF Iterators
  <2>3. /\ r.kind \in {"name", "stuck", "broken"}
        /\ r.kind = "name" => r.name \in names /\ Left(it) = ToSet(it.rest) \cup {r.name}
        /\ r.kind # "name" => Left(it) = ToSet(it.rest) /\ ~Steady(it)
        /\ Doomed(it) <=> r.kind = "stuck"
    BY <1>2, PendingFacts
  <2> HIDE DEF r, h
  <2>4. Left(h) = ToSet(it.rest)
    BY <2>2, PendingFacts
  <2>5. ASSUME Steady(it) PROVE Steady(h)
    <3>1. ToSet(h.pending) = {}
      BY <2>2 DEF ToSet
    <3>2. QED
      BY <2>2, <2>5, <3>1 DEF Steady
  <2>6. QED
    BY <2>1, <2>2, <2>3, <2>4, <2>5 DEF ReadOK
<1>3. QED
  BY <1>1, <1>2

\* What reading ahead gives.
AheadOK(names, it, x) ==
  /\ x.cost \in {0, 1}
  /\ x.f.it \in {Nil} \cup Iterators(names)
  /\ x.f.res.kind \in {"name", "end", "stuck", "broken"}
  /\ x.f.res.kind # "end" => x.f.it # Nil
  /\ x.f.res.kind \in {"name", "broken"} => Left(it) \subseteq Left(x.f.it)
  /\ x.f.res.kind = "end" => Left(it) = {}
  /\ x.f.res.kind = "stuck" => Doomed(it) \/ Left(it) \subseteq ToSet(it.rest)
  /\ x.f.res.kind = "stuck" <=> Doomed(x.f.it)
  /\ Steady(it) /\ x.cost = 0 => x.f.res.kind \in {"name", "end"} /\ Steady(x.f.it)

LEMMA PeekFacts ==
  ASSUME NEW names, Nil \notin names, Nil \notin Iterators(names),
         NEW it \in {Nil} \cup Iterators(names), NEW x \in Peeks(it)
  PROVE  AheadOK(names, it, x)
<1>1. CASE it = Nil
  <2>1. x.f.res = Result("end", Nil) /\ x.f.it = Nil /\ x.cost = 0
    BY <1>1 DEF Peeks
  <2>2. Left(Nil) = {} /\ ~Doomed(Nil) /\ Steady(Nil) /\ Result("end", Nil).kind = "end"
    BY DEF Left, Doomed, Steady, Result
  <2>3. QED
    BY <1>1, <2>1, <2>2 DEF AheadOK
<1>2. CASE it # Nil /\ it.pending # <<>>
  <2> DEFINE r == Head(it.pending)
  <2>1. x.f.res = r /\ x.f.it = it /\ x.cost = 0
    BY <1>2 DEF Peeks, PeekOf
  <2>2. /\ r.kind \in {"name", "stuck", "broken"}
        /\ r.kind # "name" => ~Steady(it)
        /\ Doomed(it) <=> r.kind = "stuck"
    BY <1>2, PendingFacts
  <2> HIDE DEF r
  <2>3. QED
    BY <1>2, <2>1, <2>2 DEF AheadOK
<1>3. CASE it # Nil /\ it.pending = <<>>
  <2>1. it \in Iterators(names)
    BY <1>3
  <2>2. PICK y \in Fetches(it) :
          x = [f |-> [res |-> y.f.res,
                      it |-> [y.f.it EXCEPT
                               !.pending = IF y.f.res.kind = "end" THEN <<>> ELSE <<y.f.res>>]],
               cost |-> y.cost]
    BY <1>3 DEF Peeks, PeekOf
  <2> DEFINE r == y.f.res
             g == y.f.it
             h == [g EXCEPT !.pending = IF r.kind = "end" THEN <<>> ELSE <<r>>]
  <2>3. x.f.res = r /\ x.f.it = h /\ x.cost = y.cost
    BY <2>2
  <2>4. /\ ReadOK(names, it, y)
        /\ r \in {Result("name", n) : n \in names}
                  \cup {Result("end", Nil), Result("stuck", Nil), Result("broken", Nil)}
        /\ g.pending = <<>>
        /\ r.kind \in {"end", "broken"} => g = it
    BY <1>3, <2>1, FetchFacts
  <2>5. g \in Iterators(names)
    BY <2>4 DEF ReadOK
  <2>6. /\ h \in Iterators(names) /\ h.rest = g.rest /\ h.last = g.last
        /\ h.pending = IF r.kind = "end" THEN <<>> ELSE <<r>>
    <3>1. r.kind # "end" => r \in {Result("name", n) : n \in names}
                                   \cup {Result("stuck", Nil), Result("broken", Nil)}
      BY <2>4 DEF Result
    <3> HIDE DEF r, g
    <3>2. QED
      BY <2>5, <3>1 DEF Iterators
  <2> HIDE DEF r, g, h
  <2>7. r.kind # "end" => Head(h.pending) = r /\ h.pending # <<>>
    BY <2>6
  <2>8. h # Nil /\ g # Nil /\ Left(g) = ToSet(g.rest)
    BY <2>4, <2>5, <2>6, PendingFacts
  <2>9. /\ r.kind = "name" => Left(h) = Left(g) \cup {r.name}
        /\ r.kind = "broken" => Left(h) = Left(g)
        /\ r.kind = "stuck" <=> Doomed(h)
    <3>1. CASE r.kind = "end"
      BY <2>6, <2>8, <3>1, PendingFacts
    <3>2. CASE r.kind # "end"
      BY <2>6, <2>7, <2>8, <3>2, PendingFacts
    <3>3. QED
      BY <3>1, <3>2
  <2>10. ASSUME Steady(g), r.kind \in {"name", "end"} PROVE Steady(h)
    <3>1. \A q \in ToSet(h.pending) : q.kind = "name"
      <4>1. ToSet(<<>>) = {} /\ ToSet(<<r>>) = {r}
        BY DEF ToSet
      <4>2. QED
        BY <2>6, <2>10, <4>1
    <3>2. QED
      BY <2>6, <2>8, <2>10, <3>1 DEF Steady
  <2>11. /\ y.cost \in {0, 1} /\ r.kind \in {"name", "end", "stuck", "broken"}
         /\ r.kind = "name" => Left(it) \subseteq Left(g) \cup {r.name}
         /\ r.kind = "end" => Left(it) = {}
         /\ r.kind = "stuck" => Doomed(it) \/ Left(it) \subseteq ToSet(it.rest)
         /\ Steady(it) /\ y.cost = 0 => r.kind \in {"name", "end"} /\ Steady(g)
    BY <2>4 DEF ReadOK, r, g
  <2>12. QED
    BY <2>3, <2>4, <2>6, <2>8, <2>9, <2>10, <2>11 DEF AheadOK
<1>4. QED
  BY <1>1, <1>2, <1>3

-----------------------------------------------------------------------------
(* What two paths share. *)

LEMMA PrefixSeq ==
  ASSUME NEW s, IsSeq(s), NEW l \in 0 .. Len(s)
  PROVE  /\ IsSeq(SubSeq(s, 1, l)) /\ Len(SubSeq(s, 1, l)) = l
         /\ \A i \in 1 .. l : SubSeq(s, 1, l)[i] = s[i]
<1> DEFINE S == ToSet(s)
<1>1. s \in Seq(S) /\ Len(s) \in Nat /\ l \in Nat
  BY SeqElements DEF IsSeq
<1> HIDE DEF S
<1>2. \A i \in 1 .. l : s[i] \in S
  BY <1>1, ElementOfSeq
<1>3. /\ SubSeq(s, 1, l) \in Seq(S) /\ Len(SubSeq(s, 1, l)) = IF 1 <= l THEN l - 1 + 1 ELSE 0
      /\ \A i \in 1 .. l - 1 + 1 : SubSeq(s, 1, l)[i] = s[1 + i - 1]
  BY <1>1, <1>2, SubSeqProperties
<1>4. Len(SubSeq(s, 1, l)) = l /\ \A i \in 1 .. l : SubSeq(s, 1, l)[i] = s[i]
  BY <1>1, <1>3
<1>5. QED
  BY <1>3, <1>4, SeqIsSeq

LEMMA PrefixNames ==
  ASSUME NEW s, IsSeq(s), NEW c, IsSeq(c), IsPrefix(c, s)
  PROVE  Len(c) \in 0 .. Len(s) /\ \A i \in 1 .. Len(c) : c[i] = s[i]
<1>1. Len(c) \in Nat /\ Len(s) \in Nat /\ Len(c) <= Len(s)
      /\ SubSeq(c, 1, Len(c)) = SubSeq(s, 1, Len(c))
  BY SeqElements DEF IsPrefix
<1>2. Len(c) \in 0 .. Len(s) /\ Len(c) \in 0 .. Len(c)
  BY <1>1
<1>3. QED
  BY <1>1, <1>2, PrefixSeq

LEMMA SharedNames ==
  ASSUME NEW s, IsSeq(s), NEW t, IsSeq(t)
  PROVE  LET k == Len(LongestCommonPrefix({s, t}))
         IN /\ k \in Nat /\ k <= Len(s) /\ k <= Len(t)
            /\ \A i \in 1 .. k : s[i] = t[i]
            /\ s # <<>> /\ t # <<>> /\ s[1] = t[1] => k >= 1
<1> DEFINE C == CommonPrefixes({s, t})
           L == {n \in Nat : \E c \in C : Len(c) = Len(s) - n}
<1>1. Len(s) \in Nat /\ Len(t) \in Nat
  BY SeqElements
<1>2. ASSUME NEW c \in C
      PROVE  /\ IsSeq(c) /\ Len(c) \in 0 .. Len(s) /\ Len(c) <= Len(t)
             /\ \A i \in 1 .. Len(c) : c[i] = s[i] /\ c[i] = t[i]
  <2>1. PICK x \in {s, t} : c \in Prefixes(x)
    BY DEF CommonPrefixes
  <2>2. IsSeq(c)
    BY <2>1, PrefixSeq DEF Prefixes
  <2>3. IsPrefix(c, s) /\ IsPrefix(c, t)
    BY DEF CommonPrefixes
  <2>4. QED
    BY <2>2, <2>3, PrefixNames
<1>3. ASSUME NEW l \in 0 .. Len(s), l <= Len(t), \A i \in 1 .. l : s[i] = t[i]
      PROVE  SubSeq(s, 1, l) \in C /\ Len(SubSeq(s, 1, l)) = l
  <2> DEFINE c == SubSeq(s, 1, l)
  <2>1. l \in 0 .. Len(t) /\ l \in 0 .. l
    BY <1>1, <1>3
  <2>2. /\ IsSeq(c) /\ Len(c) = l /\ \A i \in 1 .. l : c[i] = s[i]
        /\ IsSeq(SubSeq(t, 1, l)) /\ Len(SubSeq(t, 1, l)) = l
        /\ \A i \in 1 .. l : SubSeq(t, 1, l)[i] = t[i]
    BY <2>1, PrefixSeq
  <2>3. c = SubSeq(t, 1, l)
    BY <1>3, <2>2, SameSeq
  <2> HIDE DEF c
  <2>4. IsSeq(SubSeq(c, 1, l)) /\ Len(SubSeq(c, 1, l)) = l /\ \A i \in 1 .. l : SubSeq(c, 1, l)[i] = c[i]
    BY <2>1, <2>2, PrefixSeq
  <2>5. SubSeq(c, 1, l) = c
    BY <2>2, <2>4, SameSeq
  <2>6. IsPrefix(c, s) /\ IsPrefix(c, t)
    BY <1>1, <1>3, <2>2, <2>3, <2>5 DEF IsPrefix, c
  <2>7. c \in Prefixes(s)
    BY DEF Prefixes, c
  <2>8. QED
    BY <2>2, <2>6, <2>7 DEF CommonPrefixes, c
<1>4. \E c \in C : \A o \in C : Len(o) <= Len(c)
  <2>1. 0 \in 0 .. Len(s) /\ 0 <= Len(t) /\ \A i \in 1 .. 0 : s[i] = t[i]
    BY <1>1
  <2>2. SubSeq(s, 1, 0) \in C /\ Len(SubSeq(s, 1, 0)) = 0
    BY <1>3, <2>1
  <2> HIDE DEF C
  <2>3. L # {}
    <3>1. Len(SubSeq(s, 1, 0)) = Len(s) - Len(s)
      BY <1>1, <2>2
    <3>2. QED
      BY <1>1, <2>2, <3>1
  <2>4. L \subseteq Nat
    OBVIOUS
  <2>5. \A o \in C : Len(s) - Len(o) \in L
    BY <1>1, <1>2
  <2>6. PICK n \in L : \A m \in L : n <= m
    <3> HIDE DEF L
    <3> QED
      BY <2>3, <2>4, LeastNat
  <2>7. PICK c \in C : Len(c) = Len(s) - n
    OBVIOUS
  <2>8. \A o \in C : Len(o) <= Len(c)
    <3>1. ASSUME NEW o \in C PROVE Len(o) <= Len(c)
      <4>1. n <= Len(s) - Len(o)
        BY <2>5, <2>6
      <4>2. QED
        BY <1>1, <1>2, <2>4, <2>7, <4>1
    <3>2. QED
      BY <3>1
  <2>9. QED
    BY <2>8
<1> DEFINE c == LongestCommonPrefix({s, t})
<1>5. c \in C /\ \A o \in C : Len(o) <= Len(c)
  BY <1>4 DEF LongestCommonPrefix
<1>6. ASSUME s # <<>>, t # <<>>, s[1] = t[1] PROVE Len(c) >= 1
  <2>1. 1 \in 0 .. Len(s) /\ 1 <= Len(t) /\ \A i \in 1 .. 1 : s[i] = t[i]
    BY <1>6, HeadTail
  <2>2. SubSeq(s, 1, 1) \in C /\ Len(SubSeq(s, 1, 1)) = 1
    BY <1>3, <2>1
  <2> HIDE DEF C, c
  <2>3. QED
    BY <1>2, <1>5, <2>2
<1> HIDE DEF C, c
<1>7. /\ Len(c) \in Nat /\ Len(c) <= Len(s) /\ Len(c) <= Len(t)
      /\ \A i \in 1 .. Len(c) : s[i] = t[i]
  BY <1>1, <1>2, <1>5
<1>8. QED
  BY <1>6, <1>7 DEF c

-----------------------------------------------------------------------------
(***************************************************************************)
(* Entries are where they say. Names are resolved at the server's cursor   *)
(* and put under the worker's breadcrumbs: the invariant ties the cursor   *)
(* to the path, the path to the breadcrumbs while names are read, and both *)
(* enumerators, the DA 3 continuation and the nodes of the page to the     *)
(* branch the breadcrumbs lead to.                                         *)
(***************************************************************************)

Scoped == conf.scope # Root

\* DA 2 of a flat namespace lists item IDs, at the start only.
Flat(c, via3) == c.profile.flat /\ ~via3

BranchNames(b) == {Name[k] : k \in KidsOf(b) \cap Branches}

ItemNames(flat, b) ==
  IF flat THEN {Id[i] : i \in ItemsBelow(b)} ELSE {Name[k] : k \in KidsOf(b) \cap Items}

\* Pages of the branch b.
PagesAt(flat, b) ==
  [branches : {Nil} \cup (IF flat THEN {} ELSE Iterators(BranchNames(b))),
   items : {Nil} \cup Iterators(ItemNames(flat, b)),
   merged : SUBSET Words]

\* Work for the branch b.
WorkFor(flat, via3, w, b) ==
  /\ w.id # Nil => b # Root /\ w.id = Id[b]
  /\ w.id = Nil /\ via3 => b = Root
  /\ w.page # Nil => w.page \in PagesAt(flat, b)

StartTrail(scope) == IF scope = Root THEN <<>> ELSE <<Id[scope]>>

\* The breadcrumbs of work lead to a branch, which is the one to read.
Placed(c, via3, w) ==
  /\ TrailOK(c.scope, w.trail)
  /\ w.api = IF via3 THEN "da3" ELSE "da2"
  /\ Flat(c, via3) => w.trail = StartTrail(c.scope)
  /\ \E b \in At(c.scope, w.trail) \cap Branches : WorkFor(Flat(c, via3), via3, w, b)

\* The continuation point of work stands for children of that branch.
Continued(c, r, w) ==
  w.cont # Nil => \A b \in At(c.scope, w.trail) : ToSet(r) \subseteq KidsOf(b)

\* A node of the page read under these breadcrumbs.
NodeOK(c, via3, trail, node) ==
  IF Flat(c, via3)
  THEN /\ ~node.child /\ node.name = node.id
       /\ \E i \in ItemsBelow(c.scope) : Id[i] = node.id
  ELSE /\ node.item => \E i \in At(c.scope, Append(trail, node.name)) \cap Items : Id[i] = node.id
       /\ node.child =>
            \E b \in At(c.scope, Append(trail, node.name)) \cap Branches :
              b # Root /\ node.id \in {Id[b]} \cup (IF via3 THEN {} ELSE {Nil})

EntryOK(c, via3, e) ==
  IF Flat(c, via3)
  THEN e.name = e.id /\ \E i \in ItemsBelow(c.scope) : Id[i] = e.id
  ELSE \E i \in At(c.scope, Append(e.crumbs, e.name)) \cap Items : Id[i] = e.id

Places ==
  /\ path = <<>> \/ TrailOK(conf.scope, path)
  /\ cursor \in At(conf.scope, path)
  /\ IsSeq(rest)
  /\ da3 => path = <<>>
  /\ pc = "start" => path = <<>> /\ queue = <<>>
  /\ pc = "da3" => da3
  /\ pc \in ViaDa2 => ~da3
  /\ \A i \in 1 .. Len(queue) :
       /\ Placed(conf, da3, queue[i])
       /\ queue[i].cont # Nil => i = 1 /\ pc = "pop" /\ Continued(conf, rest, queue[i])
  /\ pc \in Reading =>
       /\ Placed(conf, da3, work) /\ Continued(conf, rest, work)
       /\ IsSeq(nodes) /\ \A i \in 1 .. Len(nodes) : NodeOK(conf, da3, work.trail, nodes[i])
  /\ pc \in {"arrived", "begin", "names", "more"} => path = work.trail
  /\ pc \in {"names", "more"} => work.page # Nil
  /\ \A k \in 1 .. Len(emitted) : EntryOK(conf, da3, emitted[k])

\* A branch enumerator that lists each name once, as a correct server's does.
Even(w) == w.page # Nil => Steady(w.page.branches)

Clean == faults = 0 /\ (Scoped => conf.profile.to)

\* On a correct server nothing is skipped: BROWSE_TO takes the cursor to the
\* scope before the worker walks anywhere, and no enumerator stands still.
Smooth ==
  /\ skips = 0
  /\ \A i \in 1 .. Len(queue) : Even(queue[i])
  /\ pc \in Reading => Even(work)
  /\ Scoped /\ path = <<>> /\ ~da3 =>
       /\ pc \notin {"walk", "arrived", "begin", "names", "more", "emit"}
       /\ pc \in {"pop", "move"} => \A i \in 1 .. Len(queue) : queue[i].id # Nil
       /\ pc = "move" => work.id # Nil

\* Walking down the scope's item ID as if it were a name leads to the scope, or
\* never happens.
Sound == Misnamed => Clean

PlaceInv ==
  /\ conf.scope \in Branches /\ conf.profile \in Profile
  /\ faults \in Nat
  /\ Sound => Places
  /\ Clean => Smooth

LEMMA IteratorsMonotone ==
  ASSUME NEW A, NEW B, A \subseteq B
  PROVE  Iterators(A) \subseteq Iterators(B)
<1> SUFFICES ASSUME NEW it \in Iterators(A) PROVE it \in Iterators(B)
  OBVIOUS
<1>1. Seq(A) \subseteq Seq(B)
  BY SeqMonotonic
<1> DEFINE R(S) == {Result("name", n) : n \in S} \cup {Result("stuck", Nil), Result("broken", Nil)}
<1>2. R(A) \subseteq R(B)
  OBVIOUS
<1>3. it \in [rest : Seq(A), last : A \cup {Nil}, same : Nat,
              pending : {<<>>} \cup {<<r>> : r \in R(A)}]
  BY DEF Iterators
<1>4. {<<r>> : r \in R(A)} \subseteq {<<r>> : r \in R(B)}
  <2> HIDE DEF R
  <2> QED
    BY <1>2
<1>5. it \in [rest : Seq(B), last : B \cup {Nil}, same : Nat,
              pending : {<<>>} \cup {<<r>> : r \in R(B)}]
  <2> HIDE DEF R
  <2> QED
    BY <1>1, <1>3, <1>4
<1>6. QED
  BY <1>5 DEF Iterators

LEMMA PageTypes ==
  ASSUME NEW flat, NEW b \in Nodes
  PROVE  /\ BranchNames(b) \subseteq Words /\ ItemNames(flat, b) \subseteq Words
         /\ Nil \notin BranchNames(b) /\ Nil \notin Iterators(BranchNames(b))
         /\ Nil \notin ItemNames(flat, b) /\ Nil \notin Iterators(ItemNames(flat, b))
         /\ Nil \notin PagesAt(flat, b)
<1>1. KidsOf(b) \subseteq Nodes /\ ItemsBelow(b) \subseteq Nodes
  BY KidFacts, NamespaceAssumption DEF ItemsBelow
<1>2. BranchNames(b) \subseteq Words /\ ItemNames(flat, b) \subseteq Words
  BY <1>1 DEF BranchNames, ItemNames, Words
<1>3. /\ Iterators(BranchNames(b)) \subseteq Iterators(Words)
      /\ Iterators(ItemNames(flat, b)) \subseteq Iterators(Words)
  BY <1>2, IteratorsMonotone
<1>4. PagesAt(flat, b) \subseteq Pages
  BY <1>3 DEF PagesAt, Pages
<1>5. Nil \notin Words /\ Nil \notin Iterators(Words) /\ Nil \notin Pages
  BY BoundsAssumption
<1>6. QED
  BY <1>2, <1>3, <1>4, <1>5

LEMMA PageParts ==
  ASSUME NEW flat, NEW b \in Nodes, NEW page \in PagesAt(flat, b)
  PROVE  /\ page.branches \in {Nil} \cup Iterators(BranchNames(b))
         /\ flat => page.branches = Nil
         /\ page.items \in {Nil} \cup Iterators(ItemNames(flat, b))
         /\ page.merged \subseteq Words
         /\ \A it \in {Nil} \cup (IF flat THEN {} ELSE Iterators(BranchNames(b))) :
              /\ [page EXCEPT !.branches = it] \in PagesAt(flat, b)
              /\ [page EXCEPT !.branches = it].branches = it
              /\ [page EXCEPT !.branches = it].items = page.items
              /\ [page EXCEPT !.branches = it].merged = page.merged
         /\ \A it \in {Nil} \cup Iterators(ItemNames(flat, b)) :
              /\ [page EXCEPT !.items = it] \in PagesAt(flat, b)
              /\ [page EXCEPT !.items = it].branches = page.branches
              /\ [page EXCEPT !.items = it].items = it
              /\ [page EXCEPT !.items = it].merged = page.merged
         /\ \A m \in SUBSET Words :
              /\ [page EXCEPT !.merged = m] \in PagesAt(flat, b)
              /\ [page EXCEPT !.merged = m].branches = page.branches
              /\ [page EXCEPT !.merged = m].items = page.items
              /\ [page EXCEPT !.merged = m].merged = m
BY DEF PagesAt

\* Work whose page changes is for the same branch.
LEMMA PageChanged ==
  ASSUME NEW c, NEW via3, NEW w, WorkOK(w), Placed(c, via3, w), c.scope \in Nodes,
         NEW page,
         page = Nil \/ \E b \in At(c.scope, w.trail) : page \in PagesAt(Flat(c, via3), b)
  PROVE  LET x == [w EXCEPT !.page = page]
         IN /\ Placed(c, via3, x)
            /\ x.trail = w.trail /\ x.page = page /\ x.cont = w.cont /\ x.id = w.id /\ x.api = w.api
<1> DEFINE x == [w EXCEPT !.page = page]
<1>1. x.trail = w.trail /\ x.page = page /\ x.cont = w.cont /\ x.id = w.id /\ x.api = w.api
  BY DEF WorkOK
<1>2. TrailOK(c.scope, w.trail) /\ IsSeq(w.trail)
  BY DEF Placed, TrailOK
<1>3. PICK b \in At(c.scope, w.trail) \cap Branches : WorkFor(Flat(c, via3), via3, w, b)
  BY DEF Placed
<1>4. page = Nil \/ page \in PagesAt(Flat(c, via3), b)
  BY <1>2, OnePlace
<1> HIDE DEF x
<1>5. WorkFor(Flat(c, via3), via3, x, b)
  BY <1>1, <1>3, <1>4 DEF WorkFor
<1>6. Placed(c, via3, x)
  BY <1>1, <1>2, <1>3, <1>5 DEF Placed
<1>7. QED
  BY <1>1, <1>6 DEF x

\* Where work is, in one piece.
LEMMA WorkPlace ==
  ASSUME NEW c, NEW via3, NEW w, Placed(c, via3, w), c.scope \in Branches
  PROVE  \E b \in Branches :
           /\ b \in Nodes /\ At(c.scope, w.trail) = {b}
           /\ TrailOK(c.scope, w.trail) /\ IsSeq(w.trail)
           /\ w.api = IF via3 THEN "da3" ELSE "da2"
           /\ WorkFor(Flat(c, via3), via3, w, b)
           /\ Flat(c, via3) => b = c.scope
<1>1. PICK b \in At(c.scope, w.trail) \cap Branches : WorkFor(Flat(c, via3), via3, w, b)
  BY DEF Placed
<1>2. c.scope \in Nodes /\ TrailOK(c.scope, w.trail) /\ IsSeq(w.trail)
  BY NamespaceAssumption DEF Placed, TrailOK
<1>3. At(c.scope, w.trail) = {b} /\ b \in Nodes
  BY <1>1, <1>2, OnePlace
<1>4. ASSUME Flat(c, via3) PROVE b = c.scope
  <2>1. w.trail = StartTrail(c.scope)
    BY <1>4 DEF Placed
  <2>2. At(c.scope, StartTrail(c.scope)) = {c.scope}
    BY FirstPlace DEF StartTrail
  <2>3. QED
    BY <1>3, <2>1, <2>2
<1>5. w.api = IF via3 THEN "da3" ELSE "da2"
  BY DEF Placed
<1>6. QED
  BY <1>1, <1>2, <1>3, <1>4, <1>5

LEMMA OneKid ==
  ASSUME NEW b \in Nodes, NEW k \in KidsOf(b), NEW l \in KidsOf(b), Name[k] = Name[l]
  PROVE  k = l
BY NamespaceAssumption

LEMMA IdNotNil == ASSUME NEW n \in Nodes PROVE Id[n] # Nil /\ Name[n] # Nil
BY BoundsAssumption DEF Words

LEMMA KnownBranch ==
  ASSUME NEW b \in Branches, b # Root
  PROVE  BranchWithId(Id[b]) = b
<1>1. \A n \in Branches \ {Root} : Id[n] = Id[b] => n = b
  BY NamespaceAssumption
<1>2. QED
  BY <1>1 DEF BranchWithId

\* The work a run begins with.
LEMMA FirstPlaced ==
  ASSUME conf.scope \in Branches, NEW via3
  PROVE  LET w == InitialWork(via3)
         IN /\ Placed(conf, via3, w) /\ w.cont = Nil /\ w.page = Nil
            /\ Scoped => w.id # Nil /\ w.trail # <<>>
<1> DEFINE api == IF via3 THEN "da3" ELSE "da2"
           w == InitialWork(via3)
<1>0. conf.scope \in Nodes
  BY NamespaceAssumption
<1>1. CASE ~Scoped
  <2>1. w = NewWork(api, Nil, <<>>)
    BY <1>1 DEF InitialWork, Scoped
  <2>2. w.api = api /\ w.id = Nil /\ w.trail = <<>> /\ w.cont = Nil /\ w.page = Nil
    BY <2>1 DEF NewWork
  <2>3. conf.scope = Root /\ TrailOK(conf.scope, <<>>) /\ At(conf.scope, <<>>) = {Root}
    BY <1>1, FirstPlace DEF Scoped, TrailOK
  <2> HIDE DEF w
  <2>4. QED
    BY <1>1, <2>2, <2>3 DEF Placed, WorkFor, StartTrail, w
<1>2. CASE Scoped
  <2>1. w = NewWork(api, Id[conf.scope], <<Id[conf.scope]>>)
    BY <1>2 DEF InitialWork, Scoped
  <2>2. /\ w.api = api /\ w.id = Id[conf.scope] /\ w.trail = <<Id[conf.scope]>>
        /\ w.cont = Nil /\ w.page = Nil
    BY <2>1 DEF NewWork
  <2>3. /\ conf.scope # Root /\ TrailOK(conf.scope, <<Id[conf.scope]>>)
        /\ At(conf.scope, <<Id[conf.scope]>>) = {conf.scope}
    BY <1>2, FirstPlace DEF Scoped
  <2>4. Id[conf.scope] # Nil /\ <<Id[conf.scope]>> # <<>>
    BY <1>0, IdNotNil
  <2> HIDE DEF w
  <2>5. QED
    BY <1>2, <2>2, <2>3, <2>4 DEF Placed, WorkFor, StartTrail, w
<1>3. QED
  BY <1>1, <1>2

\* Steps that leave the queue, the cursor and the entries alone.
LEMMA PlacesKept ==
  ASSUME Places, UNCHANGED <<conf, da3, queue, path, cursor, rest, emitted>>,
         pc # "pop", pc' \notin {"start", "da3"},
         pc' \in ViaDa2 => ~da3,
         pc' \in Reading =>
           /\ Placed(conf, da3, work') /\ Continued(conf, rest, work')
           /\ IsSeq(nodes') /\ \A i \in 1 .. Len(nodes') : NodeOK(conf, da3, work'.trail, nodes'[i]),
         pc' \in {"arrived", "begin", "names", "more"} => path = work'.trail,
         pc' \in {"names", "more"} => work'.page # Nil
  PROVE  Places'
BY DEF Places

LEMMA PlaceStart ==
  ASSUME Places, FreshInv, conf.scope \in Branches, Start
  PROVE  Places'
<1>1. /\ pc = "start" /\ conf' = conf /\ pc' \in {"pop", "done"}
      /\ queue' = <<InitialWork(da3')>> \/ queue' = queue
      /\ UNCHANGED <<path, cursor, rest, emitted>>
  BY DEF Start, Ends
<1>2. path = <<>> /\ queue = <<>> /\ emitted = <<>> /\ Len(emitted) = 0
  BY <1>1, NoSeq DEF Places, FreshInv
<1>3. \A i \in 1 .. Len(queue') : Placed(conf', da3', queue'[i]) /\ queue'[i].cont = Nil
  <2>1. CASE queue' = queue
    BY <1>2, <2>1, NoSeq
  <2>2. CASE queue' = <<InitialWork(da3')>>
    <3> DEFINE w == InitialWork(da3')
    <3>1. Placed(conf, da3', w) /\ w.cont = Nil
      BY FirstPlaced
    <3> HIDE DEF w
    <3>2. Len(queue') = 1 /\ queue'[1] = w
      BY <2>2 DEF w
    <3>3. \A i \in 1 .. Len(queue') : queue'[i] = w
      BY <3>2
    <3>4. QED
      BY <1>1, <3>1, <3>3
  <2>3. QED
    BY <1>1, <2>1, <2>2
<1>4. QED
  BY <1>1, <1>2, <1>3 DEF Places, Reading, ViaDa2

LEMMA PlaceFinish ==
  ASSUME Places, Finish
  PROVE  Places'
<1>1. /\ pc = "finish" \/ (pc = "pop" /\ queue = <<>>)
      /\ UNCHANGED <<conf, da3, queue, path, cursor, rest, emitted>>
  BY DEF Finish, Ends
<1>2. pc = "pop" => Len(queue) = 0
  BY <1>1, NoSeq
<1>3. pc' = "done"
  BY DEF Finish, Ends
<1>4. QED
  BY <1>1, <1>2, <1>3 DEF Places, Reading, ViaDa2

\* Steps that end the run, or leave the loop, from anywhere but between branches.
LEMMA PlaceLeave ==
  ASSUME Places, pc # "pop", pc' \in {"finish", "done"},
         UNCHANGED <<conf, da3, queue, path, cursor, rest, emitted>>
  PROVE  Places'
BY PlacesKept DEF Reading, ViaDa2

LEMMA PlacePop ==
  ASSUME Places, FreshInv, Pop
  PROVE  Places'
<1>1. /\ pc = "pop" /\ queue # <<>> /\ work' = Head(queue) /\ queue' = Tail(queue) /\ nodes' = <<>>
      /\ pc' = IF work'.api = "da3" THEN "da3" ELSE "move"
      /\ UNCHANGED <<conf, da3, path, cursor, rest, emitted>>
  BY DEF Pop
<1>2. /\ Len(queue) \in Nat \ {0} /\ work' = queue[1] /\ IsSeq(queue')
      /\ Len(queue') = Len(queue) - 1
      /\ \A i \in 1 .. Len(queue') : queue'[i] = queue[i + 1]
  BY <1>1, HeadTail DEF FreshInv
<1>3. 1 \in 1 .. Len(queue) /\ \A i \in 1 .. Len(queue') : i + 1 \in 1 .. Len(queue) /\ i + 1 # 1
  BY <1>2
<1>4. Placed(conf, da3, work') /\ Continued(conf, rest, work')
  BY <1>2, <1>3 DEF Places, Continued
<1>5. \A i \in 1 .. Len(queue') : Placed(conf, da3, queue'[i]) /\ queue'[i].cont = Nil
  <2> SUFFICES ASSUME NEW i \in 1 .. Len(queue')
               PROVE  Placed(conf, da3, queue'[i]) /\ queue'[i].cont = Nil
    OBVIOUS
  <2> DEFINE k == i + 1
  <2>1. k \in 1 .. Len(queue) /\ k # 1 /\ queue'[i] = queue[k]
    BY <1>2, <1>3
  <2> HIDE DEF k
  <2>2. Placed(conf, da3, queue[k]) /\ queue[k].cont = Nil
    BY <2>1 DEF Places
  <2>3. QED
    BY <2>1, <2>2
<1>6. work'.api = IF da3 THEN "da3" ELSE "da2"
  BY <1>4 DEF Placed
<1>7. pc' \in {"da3", "move"} /\ (pc' = "da3" => da3) /\ (pc' = "move" => ~da3)
  BY <1>1, <1>6
<1>8. IsSeq(nodes') /\ Len(nodes') = 0
  BY <1>1, NoSeq
<1>9. QED
  BY <1>1, <1>4, <1>5, <1>7, <1>8 DEF Places, Reading, ViaDa2

\* What is left of a DA 3 branch are children of the branch.
LEMMA RemainingFacts ==
  ASSUME Places, conf.scope \in Branches, pc = "da3",
         NEW b \in Nodes, At(conf.scope, work.trail) = {b}, WorkFor(Flat(conf, da3), da3, work, b)
  PROVE  /\ IsSeq(Remaining) /\ ToSet(Remaining) \subseteq KidsOf(b)
         /\ ToSet(Remaining) = IF work.cont = Nil THEN KidsOf(b) ELSE ToSet(rest)
<1>1. da3 /\ IsSeq(rest) /\ Continued(conf, rest, work)
  BY DEF Places, Reading
<1>2. CASE work.cont # Nil
  BY <1>1, <1>2 DEF Remaining, Continued
<1>3. CASE work.cont = Nil
  <2>1. Remaining = Kids[b]
    <3>1. CASE work.id = Nil
      BY <1>1, <1>3, <3>1 DEF Remaining, WorkFor
    <3>2. CASE work.id # Nil
      <4>1. b # Root /\ work.id = Id[b]
        BY <3>2 DEF WorkFor
      <4>2. b \in Branches
        <5>1. PICK c \in At(conf.scope, work.trail) \cap Branches : TRUE
          BY DEF Places, Reading, Placed
        <5>2. QED
          BY <5>1
      <4>3. QED
        BY <1>3, <3>2, <4>1, <4>2, KnownBranch DEF Remaining
    <3>3. QED
      BY <3>1, <3>2
  <2>2. Kids[b] \in Seq(Nodes)
    BY NamespaceAssumption
  <2>3. IsSeq(Kids[b])
    BY <2>2, SeqIsSeq
  <2>4. QED
    BY <1>3, <2>1, <2>3 DEF KidsOf
<1>4. QED
  BY <1>2, <1>3

\* The nodes of a DA 3 page are where they say.
LEMMA Da3NodesOK ==
  ASSUME NEW c, c.scope \in Nodes, NEW trail, TrailOK(c.scope, trail),
         NEW b \in At(c.scope, trail), NEW s, IsSeq(s), ToSet(s) \subseteq KidsOf(b)
  PROVE  /\ IsSeq(Da3Nodes(s))
         /\ \A via3 : via3 =>
              \A i \in 1 .. Len(Da3Nodes(s)) : NodeOK(c, via3, trail, Da3Nodes(s)[i])
         /\ Len(Da3Nodes(s)) = Len(s)
         /\ \A i \in 1 .. Len(s) :
              Da3Nodes(s)[i] = Node(Name[s[i]], Id[s[i]], s[i] \in Items, s[i] \in Branches)
<1> DEFINE ns == Da3Nodes(s)
           N(k) == Node(Name[k], Id[k], k \in Items, k \in Branches)
<1>1. DOMAIN s = 1 .. Len(s) /\ Len(s) \in Nat
  BY SeqElements
<1>2. ns = [i \in 1 .. Len(s) |-> N(s[i])]
  BY <1>1 DEF Da3Nodes
<1>3. IsSeq(ns) /\ Len(ns) = Len(s)
  <2>1. ns \in Seq({N(k) : k \in ToSet(s)})
    <3>1. \A i \in 1 .. Len(s) : s[i] \in ToSet(s)
      BY <1>1 DEF ToSet
    <3> HIDE DEF N
    <3>2. QED
      BY <1>1, <1>2, <3>1
  <2>2. Len(ns) = Len(s)
    <3> HIDE DEF N
    <3> QED
      BY <1>1, <1>2
  <2>3. QED
    BY <2>1, <2>2, SeqIsSeq
<1>4. ASSUME NEW via3, via3, NEW i \in 1 .. Len(s) PROVE NodeOK(c, via3, trail, ns[i])
  <2>1. s[i] \in KidsOf(b)
    BY <1>1 DEF ToSet
  <2>2. s[i] \in At(c.scope, Append(trail, Name[s[i]])) /\ s[i] # Root
    BY <2>1, PlaceDown
  <2>3. /\ ns[i].name = Name[s[i]] /\ ns[i].id = Id[s[i]]
        /\ ns[i].item = (s[i] \in Items) /\ ns[i].child = (s[i] \in Branches)
    BY <1>2 DEF Node
  <2> HIDE DEF ns
  <2>4. QED
    BY <1>4, <2>2, <2>3 DEF NodeOK, Flat
<1>5. QED
  BY <1>2, <1>3, <1>4

LEMMA SplitSeq ==
  ASSUME NEW s, IsSeq(s), NEW n \in 0 .. Len(s)
  PROVE  LET p == SubSeq(s, 1, n)
             q == SubSeq(s, n + 1, Len(s))
         IN IsSeq(p) /\ IsSeq(q) /\ ToSet(s) = ToSet(p) \cup ToSet(q)
<1> DEFINE p == SubSeq(s, 1, n)
           q == SubSeq(s, n + 1, Len(s))
           S == ToSet(s)
<1>1. DOMAIN s = 1 .. Len(s) /\ Len(s) \in Nat /\ n \in Nat /\ n <= Len(s)
  BY SeqElements
<1>2. IsSeq(p) /\ Len(p) = n /\ \A i \in 1 .. n : p[i] = s[i]
  BY PrefixSeq
<1>3. IsSeq(q) /\ Len(q) = Len(s) - n /\ \A i \in 1 .. Len(s) - n : q[i] = s[n + i]
  <2>1. s \in Seq(S)
    BY DEF IsSeq
  <2> HIDE DEF S
  <2>2. \A i \in n + 1 .. Len(s) : s[i] \in S
    BY <1>1, <2>1, ElementOfSeq
  <2>3. /\ q \in Seq(S) /\ Len(q) = IF n + 1 <= Len(s) THEN Len(s) - (n + 1) + 1 ELSE 0
        /\ \A i \in 1 .. Len(s) - (n + 1) + 1 : q[i] = s[(n + 1) + i - 1]
    BY <1>1, <2>1, <2>2, SubSeqProperties
  <2>4. IsSeq(q)
    BY <2>3, SeqIsSeq
  <2> HIDE DEF q
  <2>5. Len(q) = Len(s) - n
    <3> DEFINE l == Len(s)
               m == Len(q)
    <3>1. m = IF n + 1 <= l THEN l - (n + 1) + 1 ELSE 0
      BY <2>3
    <3>2. l \in Nat /\ n \in Nat /\ n <= l
      BY <1>1
    <3> HIDE DEF l, m
    <3>3. m = l - n
      BY <3>1, <3>2
    <3>4. QED
      BY <3>3 DEF l, m
  <2>6. \A i \in 1 .. Len(s) - n : i \in 1 .. Len(s) - (n + 1) + 1 /\ (n + 1) + i - 1 = n + i
    BY <1>1
  <2>7. QED
    BY <2>3, <2>4, <2>5, <2>6
<1> HIDE DEF p, q, S
<1>4. DOMAIN p = 1 .. n /\ DOMAIN q = 1 .. Len(s) - n
  BY <1>2, <1>3, SeqElements
<1>5. ASSUME NEW i \in 1 .. Len(s) PROVE s[i] \in ToSet(p) \cup ToSet(q)
  <2>1. CASE i <= n
    BY <1>1, <1>2, <1>4, <2>1 DEF ToSet
  <2>2. CASE ~(i <= n)
    <3>1. i - n \in 1 .. Len(s) - n /\ n + (i - n) = i
      BY <1>1, <2>2
    <3>2. q[i - n] = s[i]
      BY <1>3, <3>1
    <3>3. QED
      BY <1>4, <3>1, <3>2 DEF ToSet
  <2>3. QED
    BY <2>1, <2>2
<1>6. ToSet(p) \subseteq ToSet(s)
  <2>1. \A i \in 1 .. n : i \in 1 .. Len(s)
    BY <1>1
  <2>2. QED
    BY <1>1, <1>2, <1>4, <2>1 DEF ToSet
<1>7. ToSet(q) \subseteq ToSet(s)
  <2>1. \A i \in 1 .. Len(s) - n : n + i \in 1 .. Len(s)
    BY <1>1
  <2>2. QED
    BY <1>1, <1>3, <1>4, <2>1 DEF ToSet
<1>8. ToSet(s) \subseteq ToSet(p) \cup ToSet(q)
  <2>1. \A e \in ToSet(s) : \E i \in 1 .. Len(s) : e = s[i]
    BY <1>1 DEF ToSet
  <2>2. QED
    BY <1>5, <2>1
<1>9. QED
  BY <1>2, <1>3, <1>6, <1>7, <1>8 DEF p, q

LEMMA SameBranch ==
  ASSUME NEW c, NEW via3, NEW w, Placed(c, via3, w),
         NEW x, x.api = w.api, x.id = w.id, x.trail = w.trail, x.page = w.page
  PROVE  Placed(c, via3, x)
BY DEF Placed, WorkFor

\* A DA 3 page: what the step does, whether it is the last one or not.
LEMMA Da3PageStep ==
  ASSUME Places, FreshInv, conf.scope \in Branches, Da3LastPage \/ Da3Page, pc' # "done"
  PROVE  /\ pc = "da3" /\ pc' = "emit" /\ da3
         /\ UNCHANGED <<conf, da3, queue, path, cursor, emitted, seen, skips, pruned, faults>>
         /\ work'.api = work.api /\ work'.id = work.id /\ work'.trail = work.trail
         /\ work'.page = work.page /\ work'.page = Nil
         /\ IsSeq(rest')
         /\ \E b \in Branches : \E s :
              /\ b \in Nodes /\ At(conf.scope, work.trail) = {b}
              /\ nodes' = Da3Nodes(s) /\ IsSeq(s) /\ ToSet(s) \subseteq KidsOf(b)
              /\ ToSet(rest') \subseteq KidsOf(b)
              /\ ToSet(Remaining) \subseteq ToSet(s) \cup ToSet(rest')
              /\ work'.cont = Nil => ToSet(Remaining) \subseteq ToSet(s)
<1>1. pc = "da3" /\ pc \in Reading
  BY DEF Da3LastPage, Da3Page, Reading
<1>2. WorkOK(work) /\ Placed(conf, da3, work) /\ da3
  BY <1>1 DEF FreshInv, Places
<1>3. work.page = Nil
  BY <1>2 DEF WorkOK, Placed
<1>4. PICK b \in Branches :
        b \in Nodes /\ At(conf.scope, work.trail) = {b} /\ WorkFor(Flat(conf, da3), da3, work, b)
  BY <1>2, WorkPlace
<1>5. IsSeq(Remaining) /\ ToSet(Remaining) \subseteq KidsOf(b)
  BY <1>1, <1>4, RemainingFacts
<1>6. CASE Da3LastPage
  <2>1. /\ pc' = "emit" /\ nodes' = Da3Nodes(Remaining) /\ rest' = <<>>
        /\ work' = [work EXCEPT !.cont = Nil, !.empties = 0]
        /\ UNCHANGED <<conf, da3, queue, path, cursor, emitted, seen, skips, pruned, faults>>
    BY <1>6 DEF Da3LastPage
  <2>2. /\ work'.api = work.api /\ work'.id = work.id /\ work'.trail = work.trail
        /\ work'.page = work.page
    BY <1>2, <2>1 DEF WorkOK
  <2>3. IsSeq(rest') /\ ToSet(rest') = {}
    BY <2>1, NoSeq DEF ToSet
  <2>4. QED
    BY <1>1, <1>2, <1>3, <1>4, <1>5, <2>1, <2>2, <2>3
<1>7. CASE Da3Page
  <2>1. PICK n \in 0 .. batch, token \in Tokens \cup {Nil} :
          /\ n <= Len(Remaining)
          /\ IF Acceptable(token, n = 0)
             THEN /\ nodes' = Da3Nodes(SubSeq(Remaining, 1, n))
                  /\ rest' = SubSeq(Remaining, n + 1, Len(Remaining))
                  /\ work' = [work EXCEPT !.cont = token, !.tokens = @ \cup {token},
                                          !.empties = IF n = 0 THEN @ + 1 ELSE 0]
                  /\ pc' = "emit"
                  /\ UNCHANGED <<confVars, queue, batch, path, resultVars, outcome,
                                 userVars, cursor, faults>>
             ELSE Fails(0)
    BY <1>7 DEF Da3Page
  <2>2. Acceptable(token, n = 0)
    BY <2>1 DEF Fails, Ends
  <2>3. token # Nil
    BY <2>2 DEF Acceptable
  <2>4. /\ pc' = "emit" /\ nodes' = Da3Nodes(SubSeq(Remaining, 1, n))
        /\ rest' = SubSeq(Remaining, n + 1, Len(Remaining))
        /\ work' = [work EXCEPT !.cont = token, !.tokens = @ \cup {token},
                                !.empties = IF n = 0 THEN @ + 1 ELSE 0]
        /\ UNCHANGED <<conf, da3, queue, path, cursor, emitted, seen, skips, pruned, faults>>
    BY <2>1, <2>2
  <2>5. /\ work'.api = work.api /\ work'.id = work.id /\ work'.trail = work.trail
        /\ work'.page = work.page /\ work'.cont = token
    BY <1>2, <2>4 DEF WorkOK
  <2> DEFINE R == Remaining
             s == SubSeq(R, 1, n)
  <2>6. n \in 0 .. Len(R) /\ Len(R) \in Nat
    BY <1>5, <2>1, SeqElements
  <2>7. IsSeq(s) /\ IsSeq(rest') /\ ToSet(R) = ToSet(s) \cup ToSet(rest')
    <3> HIDE DEF R
    <3> QED
      BY <1>5, <2>4, <2>6, SplitSeq DEF R
  <2> HIDE DEF s
  <2>8. nodes' = Da3Nodes(s)
    BY <2>4 DEF s
  <2>9. QED
    BY <1>1, <1>2, <1>3, <1>4, <1>5, <2>3, <2>4, <2>5, <2>7, <2>8
<1>8. QED
  BY <1>6, <1>7

LEMMA PlaceDa3 ==
  ASSUME Places, FreshInv, conf.scope \in Branches, Da3LastPage \/ Da3Page
  PROVE  Places'
<1>1. CASE pc' = "done"
  <2>1. pc = "da3" /\ UNCHANGED <<conf, da3, queue, path, cursor, rest, emitted>>
    BY <1>1 DEF Da3LastPage, Da3Page, Fails
  <2>2. QED
    BY <1>1, <2>1, PlaceLeave
<1>2. CASE pc' # "done"
  <2>1. /\ pc = "da3" /\ pc' = "emit" /\ da3
        /\ UNCHANGED <<conf, da3, queue, path, cursor, emitted>>
        /\ work'.api = work.api /\ work'.id = work.id /\ work'.trail = work.trail
        /\ work'.page = work.page /\ IsSeq(rest')
    BY <1>2, Da3PageStep
  <2>2. PICK b \in Branches : \E s :
              /\ b \in Nodes /\ At(conf.scope, work.trail) = {b}
              /\ nodes' = Da3Nodes(s) /\ IsSeq(s) /\ ToSet(s) \subseteq KidsOf(b)
              /\ ToSet(rest') \subseteq KidsOf(b)
    BY <1>2, Da3PageStep
  <2>3. PICK s :
              /\ b \in Nodes /\ At(conf.scope, work.trail) = {b}
              /\ nodes' = Da3Nodes(s) /\ IsSeq(s) /\ ToSet(s) \subseteq KidsOf(b)
              /\ ToSet(rest') \subseteq KidsOf(b)
    BY <2>2
  <2>4. Placed(conf, da3, work) /\ TrailOK(conf.scope, work.trail) /\ conf.scope \in Nodes
    BY <2>1, NamespaceAssumption DEF Places, Reading, Placed
  <2>5. Placed(conf, da3, work') /\ Continued(conf, rest', work')
    BY <2>1, <2>3, <2>4, SameBranch DEF Continued
  <2>6. b \in At(conf.scope, work.trail)
    BY <2>3
  <2>7. IsSeq(nodes') /\ \A i \in 1 .. Len(nodes') : NodeOK(conf, da3, work.trail, nodes'[i])
    BY <2>1, <2>3, <2>4, <2>6, Da3NodesOK
  <2>8. \A i \in 1 .. Len(queue) : queue[i].cont = Nil
    BY <2>1 DEF Places
  <2>9. QED
    BY <2>1, <2>5, <2>7, <2>8 DEF Places, ViaDa2
<1>3. QED
  BY <1>1, <1>2

LEMMA PlaceFallBack ==
  ASSUME Places, FreshInv, conf.scope \in Branches, FallBack
  PROVE  Places'
<1>1. pc = "da3" /\ UNCHANGED <<conf, cursor, rest, emitted>>
  BY DEF FallBack
<1>2. CASE IsInitialDa3Root(work) /\ conf.profile.da2
  <2>1. queue' = <<InitialWork(da3')>> /\ path' = <<>> /\ pc' = "pop"
    BY <1>2 DEF FallBack
  <2>2. emitted = <<>> /\ Len(emitted) = 0 /\ path = <<>>
    BY <1>1, <1>2, NoSeq DEF FreshInv, Places
  <2>3. \A i \in 1 .. Len(queue') : Placed(conf', da3', queue'[i]) /\ queue'[i].cont = Nil
    <3> DEFINE w == InitialWork(da3')
    <3>1. Placed(conf, da3', w) /\ w.cont = Nil
      BY FirstPlaced
    <3> HIDE DEF w
    <3>2. Len(queue') = 1 /\ queue'[1] = w
      BY <2>1 DEF w
    <3>3. \A i \in 1 .. Len(queue') : queue'[i] = w
      BY <3>2
    <3>4. QED
      BY <1>1, <3>1, <3>3
  <2>4. QED
    BY <1>1, <2>1, <2>2, <2>3 DEF Places, Reading, ViaDa2
<1>3. CASE ~(IsInitialDa3Root(work) /\ conf.profile.da2)
  <2>1. pc' = "done" /\ UNCHANGED <<da3, queue, path>>
    BY <1>3 DEF FallBack, Ends
  <2>2. QED
    BY <1>1, <2>1, PlaceLeave
<1>4. QED
  BY <1>2, <1>3

\* What holds while DA 2 work is at hand.
LEMMA Da2Facts ==
  ASSUME Places, FreshInv, conf.scope \in Branches, pc \in ViaDa2
  PROVE  /\ ~da3 /\ conf.scope \in Nodes /\ WorkOK(work) /\ IsSeq(path)
         /\ Placed(conf, da3, work) /\ Continued(conf, rest, work)
         /\ TrailOK(conf.scope, Target) /\ IsSeq(Target)
         /\ IsSeq(nodes) /\ \A i \in 1 .. Len(nodes) : NodeOK(conf, da3, work.trail, nodes[i])
         /\ \A i \in 1 .. Len(queue) : Placed(conf, da3, queue[i]) /\ queue[i].cont = Nil
         /\ \E b \in Branches :
              /\ b \in Nodes /\ At(conf.scope, work.trail) = {b}
              /\ WorkFor(Flat(conf, da3), da3, work, b)
              /\ Flat(conf, da3) => b = conf.scope
<1>1. /\ ~da3 /\ Placed(conf, da3, work) /\ Continued(conf, rest, work) /\ IsSeq(nodes)
      /\ \A i \in 1 .. Len(nodes) : NodeOK(conf, da3, work.trail, nodes[i])
  BY DEF Places, Reading
<1>2. WorkOK(work)
  BY DEF FreshInv, Reading
<1>3. IsSeq(path)
  BY NoSeq DEF Places, TrailOK
<1>4. TrailOK(conf.scope, Target) /\ IsSeq(Target)
  BY <1>1 DEF Placed, TrailOK, Target
<1>5. \A i \in 1 .. Len(queue) : Placed(conf, da3, queue[i]) /\ queue[i].cont = Nil
  BY DEF Places, ViaDa2
<1>6. conf.scope \in Nodes
  BY NamespaceAssumption
<1>7. \E b \in Branches :
              /\ b \in Nodes /\ At(conf.scope, work.trail) = {b}
              /\ WorkFor(Flat(conf, da3), da3, work, b)
              /\ Flat(conf, da3) => b = conf.scope
  BY <1>1, WorkPlace
<1>8. QED
  BY <1>1, <1>2, <1>3, <1>4, <1>5, <1>6, <1>7

\* A move of the cursor: only the path and the cursor change.
LEMMA CursorMoved ==
  ASSUME Places, FreshInv, conf.scope \in Branches, pc \in {"move", "walk"},
         pc' \in {"walk", "arrived"},
         UNCHANGED <<conf, da3, queue, work, nodes, rest, emitted>>,
         TrailOK(conf.scope, path') \/ path' = <<>>,
         cursor' \in At(conf.scope, path'), pc' = "arrived" => path' = Target
  PROVE  Places'
<1>1. pc \in ViaDa2
  BY DEF ViaDa2
<1>2. /\ ~da3 /\ Placed(conf, da3, work) /\ Continued(conf, rest, work) /\ IsSeq(nodes)
      /\ \A i \in 1 .. Len(nodes) : NodeOK(conf, da3, work.trail, nodes[i])
      /\ \A i \in 1 .. Len(queue) : Placed(conf, da3, queue[i]) /\ queue[i].cont = Nil
  BY <1>1, Da2Facts
<1>3. QED
  BY <1>2 DEF Places, Target

LEMMA PlaceBrowseTo ==
  ASSUME Places, FreshInv, conf.scope \in Branches, BrowseTo
  PROVE  Places'
<1>1. /\ pc = "move" /\ work.id # Nil /\ cursor' = BranchWithId(work.id) /\ path' = Target
      /\ pc' = "arrived" /\ UNCHANGED <<conf, da3, queue, work, nodes, rest, emitted>>
  BY DEF BrowseTo, Jumps
<1>2. PICK b \in Branches :
        /\ b \in Nodes /\ At(conf.scope, work.trail) = {b}
        /\ WorkFor(Flat(conf, da3), da3, work, b)
  BY <1>1, Da2Facts DEF ViaDa2
<1>3. b # Root /\ work.id = Id[b]
  BY <1>1, <1>2 DEF WorkFor
<1>4. cursor' \in At(conf.scope, path')
  BY <1>1, <1>2, <1>3, KnownBranch DEF Target
<1>5. TrailOK(conf.scope, path')
  BY <1>1, Da2Facts DEF ViaDa2
<1>6. QED
  BY <1>1, <1>4, <1>5, CursorMoved

\* Facts about the shared prefix of the path and the target.
LEMMA SharedFacts ==
  ASSUME Places, FreshInv, conf.scope \in Branches, pc \in ViaDa2
  PROVE  /\ Shared \in Nat /\ Shared <= Len(path) /\ Shared <= Len(Target)
         /\ Len(path) \in Nat /\ Len(Target) \in Nat
         /\ \A i \in 1 .. Shared : path[i] = Target[i]
         /\ Scoped /\ path # <<>> => Shared >= 1
<1>1. IsSeq(path) /\ IsSeq(Target) /\ TrailOK(conf.scope, Target)
  BY Da2Facts
<1>2. Scoped /\ path # <<>> => Target # <<>> /\ path[1] = Target[1]
  BY <1>1 DEF Places, TrailOK, Scoped
<1> DEFINE s == path
           t == Target
           k == Len(LongestCommonPrefix({s, t}))
<1>3. IsSeq(s) /\ IsSeq(t)
  BY <1>1
<1> HIDE DEF s, t
<1>4. /\ k \in Nat /\ k <= Len(s) /\ k <= Len(t) /\ Len(s) \in Nat /\ Len(t) \in Nat
      /\ \A i \in 1 .. k : s[i] = t[i]
      /\ s # <<>> /\ t # <<>> /\ s[1] = t[1] => k >= 1
  BY <1>3, SharedNames, SeqElements
<1>5. k = Shared
  BY DEF s, t, Shared
<1> HIDE DEF k
<1>6. QED
  BY <1>2, <1>4, <1>5 DEF s, t

LEMMA PlaceWalkUp ==
  ASSUME Places, FreshInv, conf.scope \in Branches, WalkUp
  PROVE  Places'
<1>1. /\ pc \in {"move", "walk"} /\ Len(path) > Shared /\ cursor' = Parent(cursor)
      /\ path' = Front(path) /\ pc' = "walk"
      /\ UNCHANGED <<conf, da3, queue, work, nodes, rest, emitted>>
  BY DEF WalkUp, Walks, CursorUp
<1>2. Shared \in Nat /\ Len(path) \in Nat /\ (Scoped /\ path # <<>> => Shared >= 1)
  BY <1>1, SharedFacts DEF ViaDa2
<1>3. path # <<>> /\ (Scoped => Len(path) > 1)
  <2>1. path # <<>>
    <3>1. Len(path) # 0
      BY <1>1, <1>2
    <3>2. QED
      BY <3>1, NoSeq
  <2>2. Shared \in Nat /\ Len(path) \in Nat /\ (Scoped => Shared >= 1)
    BY <1>2, <2>1
  <2>3. QED
    BY <1>1, <2>1, <2>2
<1>4. TrailOK(conf.scope, path) /\ cursor \in At(conf.scope, path) /\ conf.scope \in Nodes
  BY <1>3, NamespaceAssumption DEF Places
<1>5. Parent(cursor) \in At(conf.scope, Front(path)) /\ TrailOK(conf.scope, Front(path))
  BY <1>3, <1>4, PlaceUp DEF Scoped
<1>6. QED
  BY <1>1, <1>5, CursorMoved

\* On the way down the path is a proper part of the target.
LEMMA OnTheWay ==
  ASSUME Places, FreshInv, conf.scope \in Branches, AtShared
  PROVE  /\ pc \in {"move", "walk"} /\ Len(path) \in Nat /\ Len(path) < Len(Target)
         /\ \A i \in 1 .. Len(path) : path[i] = Target[i]
<1>1. pc \in {"move", "walk"} /\ Len(path) = Shared /\ path # Target
  BY DEF AtShared, Walks
<1>2. /\ Shared <= Len(Target) /\ Len(path) \in Nat /\ Len(Target) \in Nat
      /\ \A i \in 1 .. Len(path) : path[i] = Target[i]
  BY <1>1, SharedFacts DEF ViaDa2
<1>3. IsSeq(path) /\ IsSeq(Target)
  BY <1>1, Da2Facts DEF ViaDa2
<1>4. Len(path) # Len(Target)
  BY <1>1, <1>2, <1>3, SameSeq
<1>5. QED
  BY <1>1, <1>2, <1>4

LEMMA PlaceWalkDown ==
  ASSUME Places, FreshInv, conf.scope \in Branches, WalkDown,
         Scoped /\ path = <<>> => ~Misnamed
  PROVE  Places'
<1>1. /\ AtShared /\ path' = Append(path, DownName) /\ pc' = "walk"
      /\ UNCHANGED <<conf, da3, queue, work, nodes, rest, emitted>>
  BY DEF WalkDown
<1>2. cursor' \in ChildNamed(cursor, DownName) \cap Branches
  BY DEF WalkDown
<1>3. /\ pc \in {"move", "walk"} /\ Len(path) \in Nat /\ Len(path) < Len(Target)
  BY <1>1, OnTheWay
<1>4. cursor' \in KidsOf(cursor) /\ Name[cursor'] = DownName /\ cursor \in At(conf.scope, path)
  BY <1>2 DEF ChildNamed, Places
<1>5. TrailOK(conf.scope, path') /\ cursor' \in At(conf.scope, path')
  <2>0. conf.scope \in Nodes
    BY NamespaceAssumption
  <2>1. CASE TrailOK(conf.scope, path)
    BY <1>1, <1>4, <2>0, <2>1, FullAppend, PlaceDown
  <2>2. CASE ~TrailOK(conf.scope, path)
    <3>1. path = <<>> /\ Scoped
      BY <2>2, NoSeq DEF Places, TrailOK, Scoped
    <3>2. cursor = Root
      BY <1>4, <3>1, FirstPlace
    <3>3. DownName = Id[conf.scope]
      <4>1. Len(path) + 1 = 1
        BY <3>1, NoSeq
      <4>2. Target[1] = Id[conf.scope]
        BY <1>3, <3>1, Da2Facts DEF TrailOK, Scoped, ViaDa2
      <4>3. QED
        BY <4>1, <4>2 DEF DownName
    <3>4. cursor' = conf.scope
      BY <1>2, <3>1, <3>2, <3>3 DEF Misnamed, Scoped
    <3>5. path' = <<Id[conf.scope]>>
      BY <1>1, <3>1, <3>3
    <3>6. QED
      BY <3>1, <3>4, <3>5, FirstPlace DEF Scoped
  <2>3. QED
    BY <2>1, <2>2
<1>6. QED
  BY <1>1, <1>3, <1>5, CursorMoved

\* Steps within a page: the work stays for its branch, and what is new among
\* the nodes is in place.
LEMMA PageStep ==
  ASSUME Places, FreshInv, conf.scope \in Branches, pc \in ViaDa2,
         pc' \in ViaDa2 \cup {"emit"},
         UNCHANGED <<conf, da3, queue, path, cursor, rest, emitted>>,
         NEW page, work' = [work EXCEPT !.page = page],
         page = Nil \/ \E b \in At(conf.scope, work.trail) : page \in PagesAt(Flat(conf, da3), b),
         nodes' = nodes \/ \E node : nodes' = Append(nodes, node) /\ NodeOK(conf, da3, work.trail, node),
         pc' \in {"arrived", "begin", "names", "more"} => path = work.trail,
         pc' \in {"names", "more"} => page # Nil
  PROVE  Places'
<1>1. /\ ~da3 /\ conf.scope \in Nodes /\ WorkOK(work)
      /\ Placed(conf, da3, work) /\ Continued(conf, rest, work) /\ IsSeq(nodes)
      /\ \A i \in 1 .. Len(nodes) : NodeOK(conf, da3, work.trail, nodes[i])
  BY Da2Facts
<1>2. /\ Placed(conf, da3, work') /\ work'.trail = work.trail /\ work'.page = page
      /\ work'.cont = work.cont
  BY <1>1, PageChanged
<1>3. Continued(conf, rest, work')
  BY <1>1, <1>2 DEF Continued
<1>4. IsSeq(nodes') /\ \A i \in 1 .. Len(nodes') : NodeOK(conf, da3, work.trail, nodes'[i])
  <2>1. CASE nodes' = nodes
    BY <1>1, <2>1
  <2>2. CASE nodes' # nodes
    <3>1. PICK node : nodes' = Append(nodes, node) /\ NodeOK(conf, da3, work.trail, node)
      BY <2>2
    <3>2. /\ IsSeq(nodes') /\ Len(nodes) \in Nat /\ Len(nodes') = Len(nodes) + 1
          /\ \A i \in 1 .. Len(nodes) : nodes'[i] = nodes[i]
          /\ nodes'[Len(nodes) + 1] = node
      BY <1>1, <3>1, AppendSeq
    <3>3. \A i \in 1 .. Len(nodes') : i \in 1 .. Len(nodes) \/ i = Len(nodes) + 1
      BY <3>2
    <3>4. QED
      BY <1>1, <3>1, <3>2, <3>3
  <2>3. QED
    BY <2>1, <2>2
<1>5. pc # "pop" /\ pc' \notin {"start", "da3"}
  BY DEF ViaDa2
<1>6. QED
  BY <1>1, <1>2, <1>3, <1>4, <1>5, PlacesKept

\* The page that is being listed, and the cursor where it was asked for.
LEMMA ListingFacts ==
  ASSUME Places, FreshInv, conf.scope \in Branches, pc \in {"begin", "names", "more"}
  PROVE  /\ cursor \in Branches /\ cursor \in Nodes /\ At(conf.scope, work.trail) = {cursor}
         /\ WorkFor(Flat(conf, da3), da3, work, cursor) /\ path = work.trail /\ ~da3
         /\ Flat(conf, da3) <=> conf.profile.flat
         /\ Flat(conf, da3) => cursor = conf.scope
         /\ pc # "begin" => work.page # Nil /\ work.page \in PagesAt(Flat(conf, da3), cursor)
<1>1. pc \in ViaDa2
  BY DEF ViaDa2
<1>2. PICK b \in Branches :
              /\ b \in Nodes /\ At(conf.scope, work.trail) = {b}
              /\ WorkFor(Flat(conf, da3), da3, work, b)
              /\ Flat(conf, da3) => b = conf.scope
  BY <1>1, Da2Facts
<1>3. path = work.trail /\ cursor \in At(conf.scope, path) /\ ~da3
  BY <1>1 DEF Places
<1>4. cursor = b
  BY <1>2, <1>3
<1>5. pc # "begin" => work.page # Nil
  BY DEF Places
<1>6. Flat(conf, da3) <=> conf.profile.flat
  BY <1>3 DEF Flat
<1>7. QED
  BY <1>2, <1>3, <1>4, <1>5, <1>6 DEF WorkFor

LEMMA PlaceBegin ==
  ASSUME Places, FreshInv, conf.scope \in Branches, Begin
  PROVE  Places'
<1> DEFINE page == IF conf.profile.flat
                   THEN Page(Nil, Iterator(SetToSeq({Id[i] : i \in ItemsBelow(cursor)})))
                   ELSE Page(Iterator(NamesOf(cursor, Branches)), Iterator(NamesOf(cursor, Items)))
<1>1. /\ pc = "begin" /\ work' = [work EXCEPT !.page = page] /\ pc' = "move"
      /\ UNCHANGED <<conf, da3, queue, nodes, path, cursor, rest, emitted>>
  BY DEF Begin
<1>2. /\ cursor \in Nodes /\ At(conf.scope, work.trail) = {cursor}
      /\ Flat(conf, da3) <=> conf.profile.flat
  BY <1>1, ListingFacts
<1>3. page \in PagesAt(Flat(conf, da3), cursor)
  <2>1. CASE Flat(conf, da3)
    <3>1. page = Page(Nil, Iterator(SetToSeq({Id[i] : i \in ItemsBelow(cursor)})))
      BY <1>2, <2>1
    <3>2. /\ SetToSeq({Id[i] : i \in ItemsBelow(cursor)}) \in Seq({Id[i] : i \in ItemsBelow(cursor)})
          /\ IsInjective(SetToSeq({Id[i] : i \in ItemsBelow(cursor)}))
          /\ Nil \notin ItemNames(Flat(conf, da3), cursor)
          /\ ItemNames(Flat(conf, da3), cursor) = {Id[i] : i \in ItemsBelow(cursor)}
      BY <1>2, <2>1, IdsListed, PageTypes DEF ItemNames
    <3>3. Iterator(SetToSeq({Id[i] : i \in ItemsBelow(cursor)}))
            \in Iterators(ItemNames(Flat(conf, da3), cursor))
      BY <3>2, NewIterator
    <3>4. QED
      BY <2>1, <3>1, <3>3 DEF Page, PagesAt
  <2>2. CASE ~Flat(conf, da3)
    <3>1. page = Page(Iterator(NamesOf(cursor, Branches)), Iterator(NamesOf(cursor, Items)))
      BY <1>2, <2>2
    <3>2. /\ NamesOf(cursor, Branches) \in Seq(BranchNames(cursor))
          /\ IsInjective(NamesOf(cursor, Branches)) /\ Nil \notin BranchNames(cursor)
          /\ NamesOf(cursor, Items) \in Seq(ItemNames(Flat(conf, da3), cursor))
          /\ IsInjective(NamesOf(cursor, Items)) /\ Nil \notin ItemNames(Flat(conf, da3), cursor)
      BY <1>2, <2>2, NamesListed, PageTypes DEF ItemNames, BranchNames
    <3>3. /\ Iterator(NamesOf(cursor, Branches)) \in Iterators(BranchNames(cursor))
          /\ Iterator(NamesOf(cursor, Items)) \in Iterators(ItemNames(Flat(conf, da3), cursor))
      BY <3>2, NewIterator
    <3>4. QED
      BY <2>2, <3>1, <3>3 DEF Page, PagesAt
  <2>3. QED
    BY <2>1, <2>2
<1> HIDE DEF page
<1>4. QED
  BY <1>1, <1>2, <1>3, PageStep DEF ViaDa2

\* A branch name is read and resolved.
LEMMA NextBranchStep ==
  ASSUME Places, FreshInv, conf.scope \in Branches, NextBranch
  PROVE  /\ pc = "names" /\ pc' = pc /\ Listing /\ work.page.branches # Nil
         /\ ~Flat(conf, da3)
         /\ UNCHANGED <<conf, da3, queue, path, cursor, rest, emitted, seen, skips, pruned>>
         /\ \E x \in NextOf(work.page.branches), refused \in 0 .. 1 : \E id, page :
              /\ x.f.res.kind = "name" /\ Spend(x.cost + refused)
              /\ ReadOK(BranchNames(cursor), work.page.branches, x)
              /\ id \in {Nil} \cup {Id[k] : k \in ChildNamed(cursor, x.f.res.name) \cap Items}
              /\ nodes' = Append(nodes, Node(x.f.res.name, id, id # Nil, TRUE))
              /\ work' = [work EXCEPT !.page = page]
              /\ page \in PagesAt(Flat(conf, da3), cursor)
              /\ page.branches = x.f.it /\ page.items = work.page.items
              /\ page.merged = Merged(work.page.merged, x.f.res.name, id)
<1>1. /\ pc = "names" /\ pc' = pc /\ Listing /\ work.page.branches # Nil
      /\ UNCHANGED <<conf, da3, queue, path, cursor, rest, emitted, seen, skips, pruned>>
  BY DEF NextBranch, Listing
<1>2. /\ cursor \in Nodes /\ work.page \in PagesAt(Flat(conf, da3), cursor)
  BY <1>1, ListingFacts
<1>3. ~Flat(conf, da3) /\ work.page.branches \in Iterators(BranchNames(cursor))
  BY <1>1, <1>2, PageParts
<1>4. PICK x \in NextOf(work.page.branches), refused \in 0 .. 1 :
       /\ x.f.res.kind = "name"
       /\ Spend(x.cost + refused)
       /\ LET name == x.f.res.name
              ids == {Id[k] : k \in ChildNamed(cursor, name) \cap Items}
          IN \E id \in IF refused = 1 \/ ids = {} THEN {Nil} ELSE ids :
               /\ nodes' = Append(nodes, Node(name, id, id # Nil, TRUE))
               /\ work' = [work EXCEPT !.page.branches = x.f.it,
                             !.page.merged = Merged(@, name, id)]
  BY DEF NextBranch
<1> DEFINE name == x.f.res.name
           ids == {Id[k] : k \in ChildNamed(cursor, name) \cap Items}
<1>5. PICK id \in IF refused = 1 \/ ids = {} THEN {Nil} ELSE ids :
               /\ nodes' = Append(nodes, Node(name, id, id # Nil, TRUE))
               /\ work' = [work EXCEPT !.page.branches = x.f.it,
                             !.page.merged = Merged(@, name, id)]
  BY <1>4
<1>6. ReadOK(BranchNames(cursor), work.page.branches, x)
  BY <1>2, <1>3, <1>4, NextFacts, PageTypes
<1>7. x.f.it \in Iterators(BranchNames(cursor)) /\ name \in BranchNames(cursor)
  BY <1>4, <1>6 DEF ReadOK
<1> DEFINE p1 == [work.page EXCEPT !.branches = x.f.it]
           m == Merged(work.page.merged, name, id)
           p2 == [p1 EXCEPT !.merged = m]
<1>8. m \in SUBSET Words
  BY <1>2, <1>7, PageParts, PageTypes DEF Merged
<1>9. /\ p1 \in PagesAt(Flat(conf, da3), cursor) /\ p1.branches = x.f.it /\ p1.items = work.page.items
      /\ p1.merged = work.page.merged
  BY <1>2, <1>3, <1>7, PageParts
<1>10. /\ p2 \in PagesAt(Flat(conf, da3), cursor) /\ p2.branches = x.f.it /\ p2.items = work.page.items
       /\ p2.merged = m
  <2> HIDE DEF p1, m
  <2> QED
    BY <1>2, <1>8, <1>9, PageParts
<1>11. work' = [work EXCEPT !.page = p2]
  <2>1. WorkOK(work)
    BY <1>1, Da2Facts DEF ViaDa2
  <2>2. work.page = [branches |-> work.page.branches, items |-> work.page.items,
                     merged |-> work.page.merged]
    BY <1>2 DEF PagesAt
  <2>3. QED
    BY <1>5, <2>1, <2>2 DEF WorkOK
<1>12. id \in {Nil} \cup ids
  BY <1>5
<1> HIDE DEF p2
<1>13. /\ x.f.res.kind = "name" /\ Spend(x.cost + refused)
       /\ ReadOK(BranchNames(cursor), work.page.branches, x)
       /\ id \in {Nil} \cup {Id[k] : k \in ChildNamed(cursor, x.f.res.name) \cap Items}
       /\ nodes' = Append(nodes, Node(x.f.res.name, id, id # Nil, TRUE))
       /\ work' = [work EXCEPT !.page = p2]
       /\ p2 \in PagesAt(Flat(conf, da3), cursor)
       /\ p2.branches = x.f.it /\ p2.items = work.page.items
       /\ p2.merged = Merged(work.page.merged, x.f.res.name, id)
  BY <1>4, <1>5, <1>6, <1>10, <1>11, <1>12
<1>14. QED
  BY <1>1, <1>3, <1>13, Zenon

LEMMA PlaceNextBranch ==
  ASSUME Places, FreshInv, conf.scope \in Branches, NextBranch
  PROVE  Places'
<1>1. /\ pc = "names" /\ pc' = pc /\ ~Flat(conf, da3)
      /\ UNCHANGED <<conf, da3, queue, path, cursor, rest, emitted>>
  BY NextBranchStep
<1>0. PICK x \in NextOf(work.page.branches), refused \in 0 .. 1 : \E id, page :
              /\ x.f.res.kind = "name"
              /\ ReadOK(BranchNames(cursor), work.page.branches, x)
              /\ id \in {Nil} \cup {Id[k] : k \in ChildNamed(cursor, x.f.res.name) \cap Items}
              /\ nodes' = Append(nodes, Node(x.f.res.name, id, id # Nil, TRUE))
              /\ work' = [work EXCEPT !.page = page]
              /\ page \in PagesAt(Flat(conf, da3), cursor)
  BY NextBranchStep
<1>2. PICK id, page :
              /\ x.f.res.kind = "name"
              /\ ReadOK(BranchNames(cursor), work.page.branches, x)
              /\ id \in {Nil} \cup {Id[k] : k \in ChildNamed(cursor, x.f.res.name) \cap Items}
              /\ nodes' = Append(nodes, Node(x.f.res.name, id, id # Nil, TRUE))
              /\ work' = [work EXCEPT !.page = page]
              /\ page \in PagesAt(Flat(conf, da3), cursor)
  BY <1>0
<1> DEFINE name == x.f.res.name
           node == Node(name, id, id # Nil, TRUE)
<1>3. name \in BranchNames(cursor)
  BY <1>2 DEF ReadOK
<1>4. /\ cursor \in Nodes /\ At(conf.scope, work.trail) = {cursor} /\ ~da3 /\ path = work.trail
      /\ TrailOK(conf.scope, work.trail) /\ conf.scope \in Nodes
  BY <1>1, ListingFacts, Da2Facts DEF ViaDa2, Target
<1>5. PICK k \in KidsOf(cursor) \cap Branches : Name[k] = name
  BY <1>3 DEF BranchNames
<1>6. k \in At(conf.scope, Append(work.trail, name)) /\ k # Root
  BY <1>4, <1>5, PlaceDown
<1>7. id \in {Id[k], Nil} /\ (id # Nil => k \in Items)
  <2>1. ChildNamed(cursor, name) = {k}
    BY <1>4, <1>5, OneKid DEF ChildNamed
  <2>2. QED
    BY <1>2, <2>1
<1>8. NodeOK(conf, da3, work.trail, node)
  <2>1. node.name = name /\ node.id = id /\ node.item = (id # Nil) /\ node.child = TRUE
    BY DEF Node
  <2> HIDE DEF node, name
  <2>2. QED
    BY <1>1, <1>4, <1>5, <1>6, <1>7, <2>1 DEF NodeOK
<1>9. page \in PagesAt(Flat(conf, da3), cursor) /\ page # Nil
  BY <1>1, <1>2, <1>4, PageTypes
<1> HIDE DEF node
<1>10. nodes' = Append(nodes, node)
  BY <1>2 DEF node
<1>11. QED
  BY <1>1, <1>2, <1>4, <1>8, <1>9, <1>10, PageStep DEF ViaDa2

LEMMA EndBranchesStep ==
  ASSUME Places, FreshInv, conf.scope \in Branches, EndBranches
  PROVE  /\ pc = "names" /\ pc' = pc /\ work.page.branches # Nil /\ ~Flat(conf, da3)
         /\ UNCHANGED <<conf, da3, queue, nodes, path, cursor, rest, emitted, seen>>
         /\ \E x \in NextOf(work.page.branches) :
              /\ ReadOK(BranchNames(cursor), work.page.branches, x) /\ Spend(x.cost)
              /\ \/ x.f.res.kind = "end" /\ UNCHANGED <<skips, pruned>>
                 \/ x.f.res.kind = "stuck" /\ SkipIterator
         /\ \E page :
              /\ work' = [work EXCEPT !.page = page] /\ page \in PagesAt(Flat(conf, da3), cursor)
              /\ page.branches = Nil /\ page.items = work.page.items
              /\ page.merged = work.page.merged
<1>1. /\ pc = "names" /\ pc' = pc /\ work.page.branches # Nil
      /\ UNCHANGED <<conf, da3, queue, nodes, path, cursor, rest, emitted, seen>>
      /\ work' = [work EXCEPT !.page = [work.page EXCEPT !.branches = Nil]]
  BY DEF EndBranches, Listing
<1>2. /\ cursor \in Nodes /\ work.page \in PagesAt(Flat(conf, da3), cursor)
  BY <1>1, ListingFacts
<1>3. ~Flat(conf, da3) /\ work.page.branches \in Iterators(BranchNames(cursor))
  BY <1>1, <1>2, PageParts
<1>4. PICK x \in NextOf(work.page.branches) :
        /\ Spend(x.cost)
        /\ \/ x.f.res.kind = "end" /\ UNCHANGED <<skips, pruned>>
           \/ x.f.res.kind = "stuck" /\ SkipIterator
  BY DEF EndBranches
<1>5. ReadOK(BranchNames(cursor), work.page.branches, x)
  BY <1>2, <1>3, NextFacts, PageTypes
<1> DEFINE page == [work.page EXCEPT !.branches = Nil]
<1>6. /\ page \in PagesAt(Flat(conf, da3), cursor) /\ page.branches = Nil
      /\ page.items = work.page.items /\ page.merged = work.page.merged
  BY <1>2, PageParts
<1>7. work' = [work EXCEPT !.page = page]
  BY <1>1
<1> HIDE DEF page
<1>8. QED
  BY <1>1, <1>3, <1>4, <1>5, <1>6, <1>7

LEMMA PlaceEndBranches ==
  ASSUME Places, FreshInv, conf.scope \in Branches, EndBranches
  PROVE  Places'
<1>1. /\ pc = "names" /\ pc' = pc
      /\ UNCHANGED <<conf, da3, queue, nodes, path, cursor, rest, emitted>>
  BY EndBranchesStep
<1>2. PICK page : work' = [work EXCEPT !.page = page] /\ page \in PagesAt(Flat(conf, da3), cursor)
  BY EndBranchesStep
<1>3. At(conf.scope, work.trail) = {cursor} /\ path = work.trail /\ page # Nil
  BY <1>1, <1>2, ListingFacts, PageTypes
<1>4. QED
  BY <1>1, <1>2, <1>3, PageStep DEF ViaDa2

\* An item's name is read and, unless merged, resolved.
LEMMA NextItemStep ==
  ASSUME Places, FreshInv, conf.scope \in Branches, NextItem
  PROVE  /\ pc = "names" /\ pc' = pc /\ work.page.branches = Nil /\ work.page.items # Nil
         /\ UNCHANGED <<conf, da3, queue, path, cursor, rest, emitted, seen, skips, pruned>>
         /\ \E x \in NextOf(work.page.items) : \E page :
              /\ x.f.res.kind = "name" /\ Spend(x.cost)
              /\ ReadOK(ItemNames(Flat(conf, da3), cursor), work.page.items, x)
              /\ \/ x.f.res.name \in work.page.merged /\ nodes' = nodes
                 \/ /\ x.f.res.name \notin work.page.merged
                    /\ \E id : /\ nodes' = Append(nodes, Node(x.f.res.name, id, TRUE, FALSE))
                               /\ IF Flat(conf, da3) THEN id = x.f.res.name
                                  ELSE id \in {Id[k] : k \in ChildNamed(cursor, x.f.res.name)}
              /\ work' = [work EXCEPT !.page = page]
              /\ page \in PagesAt(Flat(conf, da3), cursor)
              /\ page.branches = Nil /\ page.items = x.f.it /\ page.merged = work.page.merged
<1>1. /\ pc = "names" /\ pc' = pc /\ work.page.branches = Nil /\ work.page.items # Nil
      /\ UNCHANGED <<conf, da3, queue, path, cursor, rest, emitted, seen, skips, pruned>>
  BY DEF NextItem, Listing
<1>2. /\ cursor \in Nodes /\ work.page \in PagesAt(Flat(conf, da3), cursor)
      /\ Flat(conf, da3) <=> conf.profile.flat
  BY <1>1, ListingFacts
<1>3. work.page.items \in Iterators(ItemNames(Flat(conf, da3), cursor))
  BY <1>1, <1>2, PageParts
<1>4. PICK x \in NextOf(work.page.items) :
       /\ x.f.res.kind = "name"
       /\ Spend(x.cost)
       /\ LET name == x.f.res.name
          IN IF name \in work.page.merged THEN nodes' = nodes
             ELSE \E id \in IF conf.profile.flat THEN {name}
                            ELSE {Id[k] : k \in ChildNamed(cursor, name)} :
                    nodes' = Append(nodes, Node(name, id, TRUE, FALSE))
       /\ work' = [work EXCEPT !.page.items = x.f.it]
  BY DEF NextItem
<1>5. ReadOK(ItemNames(Flat(conf, da3), cursor), work.page.items, x)
  BY <1>2, <1>3, NextFacts, PageTypes
<1>6. x.f.it \in Iterators(ItemNames(Flat(conf, da3), cursor))
  BY <1>5 DEF ReadOK
<1> DEFINE page == [work.page EXCEPT !.items = x.f.it]
<1>7. /\ page \in PagesAt(Flat(conf, da3), cursor) /\ page.branches = Nil
      /\ page.items = x.f.it /\ page.merged = work.page.merged
  BY <1>1, <1>2, <1>6, PageParts
<1>8. work' = [work EXCEPT !.page = page]
  BY <1>4
<1>9. \/ x.f.res.name \in work.page.merged /\ nodes' = nodes
      \/ /\ x.f.res.name \notin work.page.merged
         /\ \E id : /\ nodes' = Append(nodes, Node(x.f.res.name, id, TRUE, FALSE))
                    /\ IF Flat(conf, da3) THEN id = x.f.res.name
                       ELSE id \in {Id[k] : k \in ChildNamed(cursor, x.f.res.name)}
  BY <1>2, <1>4
<1> HIDE DEF page
<1>10. QED
  BY <1>1, <1>4, <1>5, <1>7, <1>8, <1>9, Zenon

LEMMA PlaceNextItem ==
  ASSUME Places, FreshInv, conf.scope \in Branches, NextItem
  PROVE  Places'
<1>1. /\ pc = "names" /\ pc' = pc
      /\ UNCHANGED <<conf, da3, queue, path, cursor, rest, emitted>>
  BY NextItemStep
<1>2. PICK x \in NextOf(work.page.items) : \E page :
              /\ x.f.res.kind = "name"
              /\ ReadOK(ItemNames(Flat(conf, da3), cursor), work.page.items, x)
              /\ \/ nodes' = nodes
                 \/ \E id : /\ nodes' = Append(nodes, Node(x.f.res.name, id, TRUE, FALSE))
                            /\ IF Flat(conf, da3) THEN id = x.f.res.name
                               ELSE id \in {Id[k] : k \in ChildNamed(cursor, x.f.res.name)}
              /\ work' = [work EXCEPT !.page = page]
              /\ page \in PagesAt(Flat(conf, da3), cursor)
  BY NextItemStep
<1> DEFINE name == x.f.res.name
<1>3. PICK page : work' = [work EXCEPT !.page = page] /\ page \in PagesAt(Flat(conf, da3), cursor)
  BY <1>2
<1>4. /\ cursor \in Nodes /\ At(conf.scope, work.trail) = {cursor} /\ ~da3 /\ path = work.trail
      /\ TrailOK(conf.scope, work.trail) /\ conf.scope \in Nodes /\ page # Nil
      /\ Flat(conf, da3) => cursor = conf.scope
  BY <1>1, <1>3, ListingFacts, Da2Facts, PageTypes DEF ViaDa2, Target
<1>5. name \in ItemNames(Flat(conf, da3), cursor)
  BY <1>2 DEF ReadOK
<1>6. ASSUME NEW id, IF Flat(conf, da3) THEN id = name
                     ELSE id \in {Id[k] : k \in ChildNamed(cursor, name)}
      PROVE  NodeOK(conf, da3, work.trail, Node(name, id, TRUE, FALSE))
  <2> DEFINE node == Node(name, id, TRUE, FALSE)
  <2>1. node.name = name /\ node.id = id /\ node.item = TRUE /\ node.child = FALSE
    BY DEF Node
  <2>2. CASE Flat(conf, da3)
    <3>1. \E i \in ItemsBelow(conf.scope) : Id[i] = id
      BY <1>4, <1>5, <1>6, <2>2 DEF ItemNames
    <3> HIDE DEF node, name
    <3>2. QED
      BY <1>6, <2>1, <2>2, <3>1 DEF NodeOK, node
  <2>3. CASE ~Flat(conf, da3)
    <3>1. PICK k \in KidsOf(cursor) \cap Items : Name[k] = name
      BY <1>5, <2>3 DEF ItemNames
    <3>2. k \in At(conf.scope, Append(work.trail, name))
      BY <1>4, <3>1, PlaceDown
    <3>3. id = Id[k]
      <4>1. ChildNamed(cursor, name) = {k}
        BY <1>4, <3>1, OneKid DEF ChildNamed
      <4>2. QED
        BY <1>6, <2>3, <4>1
    <3> HIDE DEF node, name
    <3>4. QED
      BY <2>1, <2>3, <3>1, <3>2, <3>3 DEF NodeOK, node
  <2>4. QED
    BY <2>2, <2>3
<1>7. nodes' = nodes \/ \E node : nodes' = Append(nodes, node) /\ NodeOK(conf, da3, work.trail, node)
  BY <1>2, <1>6
<1>8. QED
  BY <1>1, <1>3, <1>4, <1>7, PageStep DEF ViaDa2

LEMMA PlaceEndItems ==
  ASSUME Places, FreshInv, conf.scope \in Branches, EndItems
  PROVE  Places'
<1> DEFINE page == [work.page EXCEPT !.items = Nil]
<1>1. /\ pc = "names" /\ pc' = pc /\ work' = [work EXCEPT !.page = page]
      /\ UNCHANGED <<conf, da3, queue, nodes, path, cursor, rest, emitted>>
  BY DEF EndItems, Listing
<1>2. /\ cursor \in Nodes /\ work.page \in PagesAt(Flat(conf, da3), cursor)
      /\ At(conf.scope, work.trail) = {cursor} /\ path = work.trail
  BY <1>1, ListingFacts
<1>3. page \in PagesAt(Flat(conf, da3), cursor) /\ page # Nil
  BY <1>2, PageParts, PageTypes
<1> HIDE DEF page
<1>4. QED
  BY <1>1, <1>2, <1>3, PageStep DEF ViaDa2

\* What has_more finds: a branch name or a failure read ahead is kept; else the
\* branches are over (or given up) and the items are asked.
MoreBranches(page, b) ==
  /\ b.f.res.kind \in {"name", "broken"}
  /\ Spend(b.cost)
  /\ page # Nil
  /\ page.branches = b.f.it /\ page.items = work.page.items /\ page.merged = work.page.merged
  /\ UNCHANGED <<skips, pruned>>

MoreItems(page, b, i) ==
  /\ b.f.res.kind \in {"end", "stuck"}
  /\ Spend(b.cost + i.cost)
  /\ i.f.res.kind = "end" => page = Nil
  /\ i.f.res.kind # "end" =>
       /\ page # Nil
       /\ page.branches = IF b.f.res.kind = "stuck" THEN Nil ELSE b.f.it
       /\ page.items = i.f.it /\ page.merged = work.page.merged
  /\ IF b.f.res.kind = "stuck" THEN SkipIterator ELSE UNCHANGED <<skips, pruned>>

LEMMA HasMoreStep ==
  ASSUME Places, FreshInv, conf.scope \in Branches, HasMore
  PROVE  /\ pc = "more" /\ pc' = "emit" /\ cursor \in Nodes
         /\ UNCHANGED <<conf, da3, queue, nodes, path, cursor, rest, emitted, seen>>
         /\ \E page : \E b \in Peeks(work.page.branches) :
              /\ work' = [work EXCEPT !.page = page]
              /\ page = Nil \/ page \in PagesAt(Flat(conf, da3), cursor)
              /\ AheadOK(BranchNames(cursor), work.page.branches, b)
              /\ \/ MoreBranches(page, b)
                 \/ \E i \in Peeks(work.page.items) :
                      /\ AheadOK(ItemNames(Flat(conf, da3), cursor), work.page.items, i)
                      /\ MoreItems(page, b, i)
<1>1. /\ pc = "more" /\ pc' = "emit"
      /\ UNCHANGED <<conf, da3, queue, nodes, path, cursor, rest, emitted, seen>>
  BY DEF HasMore
<1> DEFINE old == work.page
           flat == Flat(conf, da3)
<1>2. cursor \in Nodes /\ old \in PagesAt(flat, cursor) /\ WorkOK(work)
  BY <1>1, ListingFacts, Da2Facts DEF ViaDa2
<1>3. /\ old.branches \in {Nil} \cup Iterators(BranchNames(cursor))
      /\ old.items \in {Nil} \cup Iterators(ItemNames(flat, cursor))
      /\ flat => old.branches = Nil
  BY <1>2, PageParts
<1>4. PICK b \in Peeks(old.branches) :
       IF b.f.res.kind \in {"name", "broken"}
       THEN /\ Spend(b.cost)
            /\ work' = [work EXCEPT !.page.branches = b.f.it]
            /\ UNCHANGED <<skips, pruned>>
       ELSE \E i \in Peeks(old.items) :
            /\ Spend(b.cost + i.cost)
            /\ work' = [work EXCEPT !.page =
                 IF i.f.res.kind = "end" THEN Nil
                 ELSE [@ EXCEPT !.branches = IF b.f.res.kind = "stuck" THEN Nil ELSE b.f.it,
                                !.items = i.f.it]]
            /\ IF b.f.res.kind = "stuck" THEN SkipIterator ELSE UNCHANGED <<skips, pruned>>
  BY DEF HasMore
<1>5. AheadOK(BranchNames(cursor), old.branches, b)
  BY <1>2, <1>3, <1>4, PeekFacts, PageTypes
<1>6. b.f.it \in {Nil} \cup Iterators(BranchNames(cursor)) /\ b.f.res.kind \in {"name", "end", "stuck", "broken"}
  BY <1>5 DEF AheadOK
<1>7. flat => b.f.it = Nil /\ b.f.res.kind = "end"
  <2>1. ASSUME flat PROVE b.f.it = Nil /\ b.f.res.kind = "end"
    <3>1. b = [f |-> [res |-> Result("end", Nil), it |-> Nil], cost |-> 0]
      BY <1>3, <1>4, <2>1 DEF Peeks
    <3>2. QED
      BY <3>1 DEF Result
  <2>2. QED
    BY <2>1
<1>8. b.f.it \in {Nil} \cup (IF flat THEN {} ELSE Iterators(BranchNames(cursor)))
  BY <1>6, <1>7
<1>9. CASE b.f.res.kind \in {"name", "broken"}
  <2> DEFINE page == [old EXCEPT !.branches = b.f.it]
  <2>1. work' = [work EXCEPT !.page = page] /\ Spend(b.cost) /\ UNCHANGED <<skips, pruned>>
    BY <1>4, <1>9
  <2>2. /\ page \in PagesAt(flat, cursor)
        /\ page.branches = b.f.it /\ page.items = old.items /\ page.merged = old.merged
    BY <1>2, <1>8, PageParts
  <2> HIDE DEF page, flat
  <2>3. page # Nil
    BY <1>2, <2>2, PageTypes
  <2>4. MoreBranches(page, b)
    BY <1>9, <2>1, <2>2, <2>3 DEF MoreBranches
  <2>5. QED
    BY <1>1, <1>2, <1>4, <1>5, <2>1, <2>2, <2>4 DEF flat
<1>10. CASE b.f.res.kind \notin {"name", "broken"}
  <2>1. PICK i \in Peeks(old.items) :
            /\ Spend(b.cost + i.cost)
            /\ work' = [work EXCEPT !.page =
                 IF i.f.res.kind = "end" THEN Nil
                 ELSE [@ EXCEPT !.branches = IF b.f.res.kind = "stuck" THEN Nil ELSE b.f.it,
                                !.items = i.f.it]]
            /\ IF b.f.res.kind = "stuck" THEN SkipIterator ELSE UNCHANGED <<skips, pruned>>
    BY <1>4, <1>10
  <2>2. AheadOK(ItemNames(flat, cursor), old.items, i)
    BY <1>2, <1>3, <2>1, PeekFacts, PageTypes
  <2>3. i.f.it \in {Nil} \cup Iterators(ItemNames(flat, cursor))
    BY <2>2 DEF AheadOK
  <2> DEFINE bs == IF b.f.res.kind = "stuck" THEN Nil ELSE b.f.it
             p1 == [old EXCEPT !.branches = bs]
             p2 == [p1 EXCEPT !.items = i.f.it]
             page == IF i.f.res.kind = "end" THEN Nil ELSE p2
  <2>4. bs \in {Nil} \cup (IF flat THEN {} ELSE Iterators(BranchNames(cursor)))
    BY <1>8
  <2>5. p1 \in PagesAt(flat, cursor) /\ p1.branches = bs /\ p1.merged = old.merged
    <3> HIDE DEF bs
    <3> QED
      BY <1>2, <2>4, PageParts
  <2>6. /\ p2 \in PagesAt(flat, cursor) /\ p2.branches = bs /\ p2.items = i.f.it
        /\ p2.merged = old.merged
    <3> HIDE DEF p1, bs
    <3> QED
      BY <1>2, <2>3, <2>5, PageParts
  <2>7. work' = [work EXCEPT !.page = page]
    <3>1. old = [branches |-> old.branches, items |-> old.items, merged |-> old.merged]
      BY <1>2 DEF PagesAt
    <3>2. p2 = [old EXCEPT !.branches = bs, !.items = i.f.it]
      BY <3>1
    <3> HIDE DEF p2
    <3>3. QED
      BY <1>2, <2>1, <3>2 DEF WorkOK
  <2> HIDE DEF p1, p2
  <2>8. p2 # Nil
    <3> HIDE DEF flat
    <3> QED
      BY <1>2, <2>6, PageTypes
  <2>9. /\ i.f.res.kind = "end" => page = Nil
        /\ i.f.res.kind # "end" =>
             /\ page # Nil
             /\ page.branches = bs
             /\ page.items = i.f.it /\ page.merged = old.merged
        /\ page = Nil \/ page \in PagesAt(flat, cursor)
    BY <2>6, <2>8
  <2> HIDE DEF page
  <2>10. MoreItems(page, b, i)
    BY <1>6, <1>10, <2>1, <2>9 DEF MoreItems
  <2>11. /\ work' = [work EXCEPT !.page = page]
         /\ page = Nil \/ page \in PagesAt(Flat(conf, da3), cursor)
         /\ AheadOK(BranchNames(cursor), work.page.branches, b)
         /\ \E j \in Peeks(work.page.items) :
              /\ AheadOK(ItemNames(Flat(conf, da3), cursor), work.page.items, j)
              /\ MoreItems(page, b, j)
    BY <1>5, <2>1, <2>2, <2>7, <2>9, <2>10
  <2>12. QED
    BY <1>1, <1>2, <1>4, <2>11, Zenon
<1>11. QED
  BY <1>9, <1>10

LEMMA PlaceHasMore ==
  ASSUME Places, FreshInv, conf.scope \in Branches, HasMore
  PROVE  Places'
<1>1. /\ pc = "more" /\ pc' = "emit"
      /\ UNCHANGED <<conf, da3, queue, nodes, path, cursor, rest, emitted>>
  BY HasMoreStep
<1>2. PICK page : /\ work' = [work EXCEPT !.page = page]
                  /\ page = Nil \/ page \in PagesAt(Flat(conf, da3), cursor)
  BY HasMoreStep
<1>3. At(conf.scope, work.trail) = {cursor}
  BY <1>1, ListingFacts
<1>4. QED
  BY <1>1, <1>2, <1>3, PageStep DEF ViaDa2

\* The work is not touched.
LEMMA PlaceMoves ==
  ASSUME Places, FreshInv, conf.scope \in Branches, BrowseToRefused \/ Arrive \/ PageRead
  PROVE  Places'
<1>1. /\ pc \in ViaDa2 /\ pc' \in ViaDa2 /\ work' = work
      /\ UNCHANGED <<conf, da3, queue, nodes, path, cursor, rest, emitted>>
  BY DEF BrowseToRefused, Arrive, PageRead, Jumps, Walks, ViaDa2
<1>2. /\ pc' \in {"arrived", "begin", "names", "more"} => path = work.trail
      /\ pc' \in {"names", "more"} => work.page # Nil
  <2>1. CASE BrowseToRefused
    BY <2>1 DEF BrowseToRefused
  <2>2. CASE Arrive
    BY <2>2 DEF Arrive, Places, Target
  <2>3. CASE PageRead
    BY <2>3 DEF PageRead, Places
  <2>4. QED
    BY <2>1, <2>2, <2>3
<1>3. /\ ~da3 /\ Placed(conf, da3, work) /\ Continued(conf, rest, work) /\ IsSeq(nodes)
      /\ \A i \in 1 .. Len(nodes) : NodeOK(conf, da3, work.trail, nodes[i])
  BY <1>1, Da2Facts
<1>4. QED
  BY <1>1, <1>2, <1>3, PlacesKept DEF ViaDa2

LEMMA PlaceSkipBranch ==
  ASSUME Places, FreshInv, conf.scope \in Branches, SkipBranch
  PROVE  Places'
<1>1. /\ pc \in {"move", "walk"} /\ pc' = "emit" /\ work' = [work EXCEPT !.page = Nil]
      /\ UNCHANGED <<conf, da3, queue, nodes, path, cursor, rest, emitted>>
  BY DEF SkipBranch, AtShared, Walks
<1>2. QED
  BY <1>1, PageStep DEF ViaDa2

LEMMA EmitStep ==
  ASSUME Emit
  PROVE  LET node == Head(nodes)
         IN /\ pc = "emit" /\ pc' = pc /\ nodes # <<>>
            /\ UNCHANGED <<conf, da3, work, path, cursor, rest, skips, pruned, faults>>
            /\ nodes' = <<>> \/ nodes' = Tail(nodes)
            /\ \/ queue' = queue
               \/ /\ node.child
                  /\ queue' = Append(queue, NewWork(work.api, node.id, Append(work.trail, node.name)))
            /\ \/ emitted' = emitted
               \/ /\ node.item
                  /\ emitted' = Append(emitted, [id |-> node.id, name |-> node.name,
                                                 crumbs |-> work.trail])
BY DEF Emit, IsNew, Leaves

LEMMA PlaceEmit ==
  ASSUME Places, FreshInv, conf.scope \in Branches, IsSeq(emitted), Emit
  PROVE  Places'
<1> DEFINE node == Head(nodes)
           next == NewWork(work.api, node.id, Append(work.trail, node.name))
           entry == [id |-> node.id, name |-> node.name, crumbs |-> work.trail]
<1>1. /\ pc = "emit" /\ pc' = pc /\ nodes # <<>>
      /\ UNCHANGED <<conf, da3, work, path, cursor, rest>>
      /\ nodes' = <<>> \/ nodes' = Tail(nodes)
      /\ queue' = queue \/ (node.child /\ queue' = Append(queue, next))
      /\ emitted' = emitted \/ (node.item /\ emitted' = Append(emitted, entry))
  BY EmitStep
<1>2. /\ Placed(conf, da3, work) /\ Continued(conf, rest, work) /\ IsSeq(nodes)
      /\ \A i \in 1 .. Len(nodes) : NodeOK(conf, da3, work.trail, nodes[i])
      /\ IsSeq(queue) /\ conf.scope \in Nodes
  BY <1>1, NamespaceAssumption DEF Places, Reading, FreshInv
<1>3. /\ Len(nodes) \in Nat \ {0} /\ node = nodes[1] /\ IsSeq(Tail(nodes))
      /\ Len(Tail(nodes)) = Len(nodes) - 1
      /\ \A i \in 1 .. Len(Tail(nodes)) : Tail(nodes)[i] = nodes[i + 1]
  BY <1>1, <1>2, HeadTail
<1>4. NodeOK(conf, da3, work.trail, node)
  BY <1>2, <1>3
<1>5. IsSeq(nodes') /\ \A i \in 1 .. Len(nodes') : NodeOK(conf, da3, work.trail, nodes'[i])
  <2>1. CASE nodes' = <<>>
    BY <2>1, NoSeq
  <2>2. CASE nodes' = Tail(nodes)
    <3>1. \A i \in 1 .. Len(Tail(nodes)) : i + 1 \in 1 .. Len(nodes)
      BY <1>3
    <3>2. QED
      BY <1>2, <1>3, <2>2, <3>1
  <2>3. QED
    BY <1>1, <2>1, <2>2
<1>6. TrailOK(conf.scope, work.trail) /\ work.api = IF da3 THEN "da3" ELSE "da2"
  BY <1>2 DEF Placed
<1> HIDE DEF node
<1>7. node.child => Placed(conf, da3, next) /\ next.cont = Nil
  <2> SUFFICES ASSUME node.child PROVE Placed(conf, da3, next) /\ next.cont = Nil
    OBVIOUS
  <2>1. /\ next.api = work.api /\ next.id = node.id /\ next.trail = Append(work.trail, node.name)
        /\ next.cont = Nil /\ next.page = Nil
    BY DEF NewWork
  <2>2. ~Flat(conf, da3)
    BY <1>4 DEF NodeOK
  <2>3. TrailOK(conf.scope, next.trail)
    BY <1>2, <1>6, <2>1, FullAppend
  <2>4. PICK b \in At(conf.scope, Append(work.trail, node.name)) \cap Branches :
          b # Root /\ node.id \in {Id[b]} \cup (IF da3 THEN {} ELSE {Nil})
    BY <1>4, <2>2 DEF NodeOK
  <2>5. b \in Nodes /\ Id[b] # Nil
    BY <2>4, NamespaceAssumption, IdNotNil
  <2> HIDE DEF next
  <2>6. WorkFor(Flat(conf, da3), da3, next, b)
    BY <2>1, <2>4, <2>5 DEF WorkFor
  <2>7. QED
    BY <1>6, <2>1, <2>2, <2>3, <2>4, <2>6 DEF Placed
<1> HIDE DEF next
<1>8. \A i \in 1 .. Len(queue') : Placed(conf, da3, queue'[i]) /\ queue'[i].cont = Nil
  <2>1. \A i \in 1 .. Len(queue) : Placed(conf, da3, queue[i]) /\ queue[i].cont = Nil
    BY <1>1 DEF Places
  <2>2. CASE queue' = queue
    BY <2>1, <2>2
  <2>3. CASE queue' # queue
    <3>1. node.child /\ queue' = Append(queue, next)
      BY <1>1, <2>3 DEF node
    <3>2. /\ Len(queue) \in Nat /\ Len(queue') = Len(queue) + 1
          /\ \A i \in 1 .. Len(queue) : queue'[i] = queue[i]
          /\ queue'[Len(queue) + 1] = next
      BY <1>2, <3>1, AppendSeq
    <3>3. \A i \in 1 .. Len(queue') : i \in 1 .. Len(queue) \/ i = Len(queue) + 1
      BY <3>2
    <3>4. QED
      BY <1>7, <2>1, <3>1, <3>2, <3>3
  <2>4. QED
    BY <2>2, <2>3
<1>9. node.item => EntryOK(conf, da3, entry)
  <2>1. entry.id = node.id /\ entry.name = node.name /\ entry.crumbs = work.trail
    OBVIOUS
  <2> HIDE DEF entry
  <2>2. QED
    BY <1>4, <2>1 DEF NodeOK, EntryOK
<1> HIDE DEF entry
<1>10. \A k \in 1 .. Len(emitted') : EntryOK(conf, da3, emitted'[k])
  <2>1. \A k \in 1 .. Len(emitted) : EntryOK(conf, da3, emitted[k])
    BY DEF Places
  <2>2. CASE emitted' = emitted
    BY <2>1, <2>2
  <2>3. CASE emitted' # emitted
    <3>1. node.item /\ emitted' = Append(emitted, entry)
      BY <1>1, <2>3 DEF node
    <3>2. /\ Len(emitted) \in Nat /\ Len(emitted') = Len(emitted) + 1
          /\ \A i \in 1 .. Len(emitted) : emitted'[i] = emitted[i]
          /\ emitted'[Len(emitted) + 1] = entry
      BY <3>1, AppendSeq
    <3>3. \A i \in 1 .. Len(emitted') : i \in 1 .. Len(emitted) \/ i = Len(emitted) + 1
      BY <3>2
    <3>4. QED
      BY <1>9, <2>1, <3>1, <3>2, <3>3
  <2>4. QED
    BY <2>2, <2>3
<1>11. QED
  BY <1>1, <1>2, <1>5, <1>8, <1>10 DEF Places, ViaDa2

LEMMA EndSliceStep ==
  ASSUME FreshInv, EndSlice
  PROVE  /\ pc = "emit" /\ nodes = <<>> /\ pc' \in {"pop", "finish"}
         /\ UNCHANGED <<conf, da3, path, cursor, rest, emitted, seen, skips, pruned, faults>>
         /\ \/ pc' = "finish" /\ queue' = queue
            \/ pc' = "pop" /\ ~Continues /\ queue' = queue
            \/ pc' = "pop" /\ Continues /\ queue' = <<work>> \o queue
<1>1. IsSeq(queue)
  BY DEF FreshInv
<1>2. <<>> \o queue = queue
  BY <1>1, Prepend
<1>3. QED
  BY <1>2 DEF EndSlice

LEMMA PlaceEndSlice ==
  ASSUME Places, FreshInv, conf.scope \in Branches, EndSlice
  PROVE  Places'
<1>1. /\ pc = "emit" /\ pc' \in {"pop", "finish"}
      /\ UNCHANGED <<conf, da3, path, cursor, rest, emitted>>
      /\ queue' = queue \/ (pc' = "pop" /\ queue' = <<work>> \o queue)
  BY EndSliceStep
<1>2. /\ Placed(conf, da3, work) /\ Continued(conf, rest, work) /\ IsSeq(queue)
      /\ \A i \in 1 .. Len(queue) : Placed(conf, da3, queue[i]) /\ queue[i].cont = Nil
  BY <1>1 DEF Places, Reading, FreshInv
<1>3. CASE queue' = queue
  BY <1>1, <1>2, <1>3 DEF Places, Reading, ViaDa2
<1>4. CASE pc' = "pop" /\ queue' = <<work>> \o queue
  <2>1. /\ Len(queue) \in Nat /\ Len(queue') = Len(queue) + 1
        /\ queue'[1] = work
        /\ \A i \in 1 .. Len(queue) : queue'[i + 1] = queue[i]
    <3> DEFINE s == queue
               longer == <<work>> \o s
    <3>1. IsSeq(s)
      BY <1>2
    <3> HIDE DEF s
    <3>2. /\ IsSeq(longer) /\ Len(s) \in Nat /\ Len(longer) = Len(s) + 1 /\ longer[1] = work
          /\ \A i \in 1 .. Len(s) : longer[i + 1] = s[i]
      BY <3>1, Prepend
    <3>3. queue' = longer
      BY <1>4 DEF s
    <3> HIDE DEF longer
    <3>4. QED
      BY <3>2, <3>3 DEF s
  <2>2. ASSUME NEW i \in 1 .. Len(queue'), i # 1
        PROVE  Placed(conf, da3, queue'[i]) /\ queue'[i].cont = Nil
    <3>1. i - 1 \in 1 .. Len(queue) /\ (i - 1) + 1 = i
      BY <2>1, <2>2
    <3>2. queue'[i] = queue[i - 1]
      BY <2>1, <3>1
    <3>3. QED
      BY <1>2, <3>1, <3>2
  <2>3. \A i \in 1 .. Len(queue') :
          /\ Placed(conf, da3, queue'[i])
          /\ queue'[i].cont # Nil => i = 1 /\ Continued(conf, rest, queue'[i])
    BY <1>2, <2>1, <2>2
  <2>4. QED
    BY <1>1, <1>4, <2>3 DEF Places, Reading, ViaDa2
<1>5. QED
  BY <1>1, <1>3, <1>4

\* What a fetch costs; a server that misbehaved is never correct again.
LEMMA FetchCost == ASSUME NEW it, NEW x \in NextOf(it) \cup Peeks(it) PROVE x.cost \in {0, 1}
<1>1. \A f \in Fetches(it) : f.cost \in {0, 1}
  BY DEF Fetches
<1>2. QED
  BY <1>1 DEF NextOf, Peeks, PeekOf

LEMMA FaultsGrow ==
  ASSUME faults \in Nat, [Next]_vars
  PROVE  faults' \in Nat /\ faults <= faults'
<1>1. ASSUME NEW n \in {0, 1}, NEW m \in {0, 1}, Spend(n + m) PROVE faults' \in Nat /\ faults <= faults'
  BY <1>1 DEF Spend
<1>2. ASSUME NEW n \in {0, 1}, Spend(n) PROVE faults' \in Nat /\ faults <= faults'
  BY <1>2 DEF Spend
<1>3. CASE faults' = faults
  BY <1>3
<1>4. CASE StartFails \/ Da3PageFails \/ MoveFails \/ CallFails
  BY <1>2, <1>4 DEF StartFails, Da3PageFails, MoveFails, CallFails, Fails
<1>5. CASE Da3Page
  BY <1>2, <1>5 DEF Da3Page, Fails
<1>6. CASE FallBack \/ BrowseToRefused \/ SkipBranch
  BY <1>2, <1>6 DEF FallBack, BrowseToRefused, SkipBranch
<1>7. CASE NextBranch
  <2>1. PICK x \in NextOf(work.page.branches), refused \in 0 .. 1 : Spend(x.cost + refused)
    BY <1>7 DEF NextBranch
  <2>2. x.cost \in {0, 1} /\ refused \in {0, 1}
    BY FetchCost
  <2>3. QED
    BY <1>1, <2>1, <2>2
<1>8. CASE EndBranches
  <2>1. PICK x \in NextOf(work.page.branches) : Spend(x.cost)
    BY <1>8 DEF EndBranches
  <2>2. QED
    BY <1>2, <2>1, FetchCost
<1>9. CASE NextItem \/ EndItems
  <2>1. PICK x \in NextOf(work.page.items) : Spend(x.cost)
    BY <1>9 DEF NextItem, EndItems
  <2>2. QED
    BY <1>2, <2>1, FetchCost
<1>10. CASE IteratorFails
  <2>1. PICK it : \E x \in NextOf(it) : Spend(x.cost)
    BY <1>10 DEF IteratorFails, Fails
  <2>2. QED
    BY <1>2, <2>1, FetchCost
<1>11. CASE HasMore
  <2>1. PICK b \in Peeks(work.page.branches) :
          Spend(b.cost) \/ \E i \in Peeks(work.page.items) : Spend(b.cost + i.cost)
    BY <1>11 DEF HasMore
  <2>2. CASE Spend(b.cost)
    BY <1>2, <2>2, FetchCost
  <2>3. CASE \E i \in Peeks(work.page.items) : Spend(b.cost + i.cost)
    <3>1. PICK i \in Peeks(work.page.items) : Spend(b.cost + i.cost)
      BY <2>3
    <3>2. b.cost \in {0, 1} /\ i.cost \in {0, 1}
      BY FetchCost
    <3>3. QED
      BY <1>1, <3>1, <3>2
  <2>4. QED
    BY <2>1, <2>2, <2>3
<1>12. CASE \/ Start \/ Finish \/ Pop \/ StopAtBoundary \/ Da3LastPage \/ BrowseTo \/ WalkUp
            \/ WalkDown \/ Arrive \/ Begin \/ PageRead \/ Emit \/ EndSlice
            \/ Cancel \/ CloseReceiver \/ UNCHANGED vars
  BY <1>3, <1>12 DEF Start, Finish, Pop, StopAtBoundary, Da3LastPage, BrowseTo, WalkUp, WalkDown,
    Arrive, Begin, PageRead, Emit, EndSlice, Cancel, CloseReceiver, vars, serverVars
<1>13. QED
  BY <1>4, <1>5, <1>6, <1>7, <1>8, <1>9, <1>10, <1>11, <1>12 DEF Next, Worker, Da3, Move, Read

LEMMA ScopeKept == ASSUME [Next]_vars PROVE conf' = conf
BY DEF Next, Worker, vars, confVars, Cancel, CloseReceiver, Start, StartFails, Finish, Pop,
  StopAtBoundary, Da3, Da3LastPage, Da3Page, Da3PageFails, FallBack, Fails, Move, BrowseTo,
  BrowseToRefused, WalkUp, WalkDown, SkipBranch, Arrive, MoveFails, Read, Begin, NextBranch,
  EndBranches, NextItem, EndItems, IteratorFails, CallFails, PageRead, HasMore, Emit, EndSlice

LEMMA CleanBefore ==
  ASSUME faults \in Nat, [Next]_vars, Clean'
  PROVE  Clean /\ faults' = 0 /\ faults = 0
<1>1. conf' = conf /\ faults' \in Nat /\ faults <= faults'
  BY ScopeKept, FaultsGrow
<1>2. QED
  BY <1>1 DEF Clean, Scoped

\* Steps that leave the queue and the count of skips alone.
LEMMA SmoothKept ==
  ASSUME Smooth, UNCHANGED <<conf, queue, skips>>, pc' \in Reading => Even(work'),
         Scoped /\ path' = <<>> /\ ~da3' =>
           /\ pc' \notin {"walk", "arrived", "begin", "names", "more", "emit"}
           /\ pc' \in {"pop", "move"} => \A i \in 1 .. Len(queue) : queue[i].id # Nil
           /\ pc' = "move" => work'.id # Nil
  PROVE  Smooth'
BY DEF Smooth, Scoped

LEMMA EvenPage ==
  ASSUME NEW w, NEW v, v.page = w.page \/ v.page = Nil, Even(w)
  PROVE  Even(v)
BY DEF Even

\* Starting, the fallback included: the scope is addressed by its item ID.
LEMMA SmoothFirst ==
  ASSUME Smooth, conf.scope \in Branches, Start \/ FallBack
  PROVE  Smooth'
<1>1. /\ UNCHANGED <<conf, skips>> /\ pc' \in {"pop", "done"}
      /\ queue' = <<InitialWork(da3')>> \/ (queue' = queue /\ pc' = "done")
         \/ (queue' = queue /\ pc = "start" /\ pc' = "pop")
  BY DEF Start, FallBack, Ends
<1>2. queue' = <<InitialWork(da3')>> \/ (queue' = queue /\ pc' = "done")
  BY DEF Start, FallBack, Ends
<1>3. CASE queue' = queue /\ pc' = "done"
  BY <1>1, <1>3, SmoothKept DEF Reading, ViaDa2
<1>4. CASE queue' = <<InitialWork(da3')>>
  <2> DEFINE w == InitialWork(da3')
  <2>1. w.page = Nil /\ (Scoped => w.id # Nil)
    BY FirstPlaced
  <2> HIDE DEF w
  <2>2. Len(queue') = 1 /\ queue'[1] = w
    BY <1>4 DEF w
  <2>3. \A i \in 1 .. Len(queue') : queue'[i] = w
    BY <2>2
  <2>4. \A i \in 1 .. Len(queue') : Even(queue'[i]) /\ (Scoped => queue'[i].id # Nil)
    BY <2>1, <2>3 DEF Even
  <2>5. QED
    BY <1>1, <2>4 DEF Smooth, Scoped, Reading, ViaDa2
<1>5. QED
  BY <1>2, <1>3, <1>4

LEMMA SmoothPop ==
  ASSUME Smooth, FreshInv, Places, Pop
  PROVE  Smooth'
<1>1. /\ pc = "pop" /\ queue # <<>> /\ work' = Head(queue) /\ queue' = Tail(queue)
      /\ pc' \in {"da3", "move"} /\ UNCHANGED <<conf, da3, path, skips>>
  BY DEF Pop
<1>2. /\ Len(queue) \in Nat \ {0} /\ work' = queue[1]
      /\ Len(queue') = Len(queue) - 1
      /\ \A i \in 1 .. Len(queue') : queue'[i] = queue[i + 1]
  BY <1>1, HeadTail DEF FreshInv
<1>3. 1 \in 1 .. Len(queue) /\ \A i \in 1 .. Len(queue') : i + 1 \in 1 .. Len(queue)
  BY <1>2
<1>4. /\ Even(work') /\ \A i \in 1 .. Len(queue') : Even(queue'[i])
      /\ Scoped /\ path = <<>> /\ ~da3 =>
           work'.id # Nil /\ \A i \in 1 .. Len(queue') : queue'[i].id # Nil
  BY <1>1, <1>2, <1>3 DEF Smooth
<1>5. QED
  BY <1>1, <1>4 DEF Smooth, Scoped

\* The cursor, on a server that does as it is told.
LEMMA SmoothMoves ==
  ASSUME Smooth, FreshInv, Places, conf.scope \in Branches, conf.profile \in Profile,
         faults = 0, faults' = 0, Clean',
         BrowseTo \/ BrowseToRefused \/ WalkUp \/ WalkDown \/ Arrive
  PROVE  Smooth'
<1>1. /\ UNCHANGED <<conf, da3, queue, skips, work>> /\ pc \in ViaDa2 /\ pc' \in ViaDa2 /\ pc' # "move"
  BY DEF BrowseTo, BrowseToRefused, WalkUp, WalkDown, Arrive, Jumps, Walks, AtShared, ViaDa2
<1>2. Even(work) /\ Even(work')
  BY <1>1 DEF Smooth, Reading, Even
<1>3. /\ TrailOK(conf.scope, Target) /\ IsSeq(path) /\ ~da3
      /\ Shared \in Nat /\ Len(path) \in Nat /\ (Scoped /\ path # <<>> => Shared >= 1)
  BY <1>1, Da2Facts, SharedFacts
<1>4. ASSUME Scoped PROVE Target # <<>>
  BY <1>3, <1>4 DEF TrailOK, Scoped
<1>5. ASSUME Scoped, BrowseToRefused PROVE FALSE
  <2>1. conf.profile.to /\ Spend(1)
    BY <1>1, <1>5 DEF BrowseToRefused, Clean, Scoped
  <2>2. QED
    BY <2>1 DEF Spend
<1>6. ASSUME Scoped, path' = <<>> PROVE FALSE
  <2>1. CASE BrowseTo
    BY <1>4, <1>6, <2>1 DEF BrowseTo
  <2>2. CASE WalkUp
    <3>1. Len(path) > Shared
      BY <2>2 DEF WalkUp
    <3>2. path # <<>>
      BY <1>3, <3>1, NoSeq
    <3>3. Len(path) - 1 # 0
      <4> DEFINE l == Len(path)
      <4>1. Shared >= 1
        BY <1>3, <1>6, <3>2
      <4>2. Shared \in Nat /\ l \in Nat /\ l > Shared
        BY <1>3, <3>1
      <4> HIDE DEF l
      <4>3. l - 1 # 0
        BY <4>1, <4>2
      <4>4. QED
        BY <4>3 DEF l
    <3>4. Len(Front(path)) = Len(path) - 1
      BY <1>3, <3>2, FrontSeq
    <3>5. Front(path) = <<>>
      BY <1>6, <2>2 DEF WalkUp
    <3>6. Len(Front(path)) = 0
      BY <3>5, NoSeq
    <3>7. QED
      BY <3>3, <3>4, <3>6
  <2>3. CASE WalkDown
    BY <1>3, <1>6, <2>3, AppendSeq DEF WalkDown
  <2>4. CASE Arrive
    <3>1. path = <<>> /\ (pc = "arrived" \/ (Walks /\ path = Target))
      BY <1>6, <2>4 DEF Arrive
    <3>2. pc \in {"arrived", "walk"}
      BY <1>4, <1>6, <3>1 DEF Walks
    <3>3. QED
      BY <1>3, <1>6, <3>1, <3>2 DEF Smooth
  <2>5. QED
    BY <1>5, <1>6, <2>1, <2>2, <2>3, <2>4
<1>7. QED
  BY <1>1, <1>2, <1>6, SmoothKept

\* A name on the way, which the server listed, is not refused.
LEMMA SmoothSkipBranch ==
  ASSUME Smooth, FreshInv, Places, conf.scope \in Branches, faults = 0, faults' = 0, SkipBranch
  PROVE  FALSE
<1>1. AtShared /\ Spend(IF ChildNamed(cursor, DownName) \cap Branches = {} THEN 0 ELSE 1)
  BY DEF SkipBranch
<1>2. /\ pc \in {"move", "walk"} /\ Len(path) \in Nat /\ Len(path) < Len(Target)
      /\ \A i \in 1 .. Len(path) : path[i] = Target[i]
  BY <1>1, OnTheWay
<1>3. /\ ~da3 /\ conf.scope \in Nodes /\ TrailOK(conf.scope, Target) /\ IsSeq(path)
      /\ \E b \in Branches : b \in Nodes /\ At(conf.scope, work.trail) = {b}
  BY <1>2, Da2Facts DEF ViaDa2
<1>4. ~(Scoped /\ path = <<>>)
  <2> SUFFICES ASSUME Scoped, path = <<>> PROVE FALSE
    OBVIOUS
  <2>1. pc = "move" /\ work.id # Nil
    BY <1>2, <1>3 DEF Smooth
  <2>2. path # Target
    BY <1>1 DEF AtShared
  <2>3. QED
    BY <1>1, <2>1, <2>2 DEF AtShared, Walks, Jumps
<1>5. TrailOK(conf.scope, path) /\ cursor \in At(conf.scope, path)
  <2>1. (path = <<>> \/ TrailOK(conf.scope, path)) /\ cursor \in At(conf.scope, path)
    BY DEF Places
  <2>2. QED
    BY <1>3, <1>4, <2>1 DEF TrailOK, Scoped
<1>6. PICK b \in Branches : b \in At(conf.scope, Target)
  BY <1>3 DEF Target
<1>7. ChildNamed(cursor, Target[Len(path) + 1]) \cap Branches # {}
  BY <1>2, <1>3, <1>5, <1>6, PlaceAhead
<1>8. Spend(1)
  BY <1>1, <1>7 DEF DownName
<1>9. QED
  BY <1>8 DEF Spend

\* The names, on a server that lists each of them once.
LEMMA SmoothBegin ==
  ASSUME Smooth, FreshInv, Places, conf.scope \in Branches, Begin
  PROVE  Smooth'
<1>1. /\ pc = "begin" /\ pc' = "move" /\ UNCHANGED <<conf, da3, queue, skips, path>>
      /\ work' = [work EXCEPT !.page =
           IF conf.profile.flat
           THEN Page(Nil, Iterator(SetToSeq({Id[i] : i \in ItemsBelow(cursor)})))
           ELSE Page(Iterator(NamesOf(cursor, Branches)), Iterator(NamesOf(cursor, Items)))]
  BY DEF Begin
<1>2. ~(Scoped /\ path = <<>> /\ ~da3)
  BY <1>1 DEF Smooth
<1>3. WorkOK(work) /\ cursor \in Nodes
  BY <1>1, ListingFacts DEF FreshInv, Reading, ViaDa2
<1>4. work'.page.branches \in {Nil, Iterator(NamesOf(cursor, Branches))}
  BY <1>1, <1>3 DEF WorkOK, Page
<1>5. Steady(Iterator(NamesOf(cursor, Branches)))
  <2>1. /\ NamesOf(cursor, Branches) \in Seq(BranchNames(cursor))
        /\ IsInjective(NamesOf(cursor, Branches))
    BY <1>3, NamesListed DEF BranchNames
  <2>2. Nil \notin BranchNames(cursor)
    BY <1>3, IdNotNil, KidFacts DEF BranchNames
  <2>3. QED
    BY <2>1, <2>2, NewIterator
<1>6. Steady(Nil)
  BY DEF Steady
<1>7. QED
  BY <1>1, <1>2, <1>4, <1>5, <1>6, SmoothKept DEF Even

\* Within a page.
LEMMA SmoothPage ==
  ASSUME Smooth, UNCHANGED <<conf, da3, queue, path, skips>>, pc \in ViaDa2 \ {"move"},
         pc' \in ViaDa2 \cup {"emit", "done"}, pc' \in Reading => Even(work')
  PROVE  Smooth'
<1>1. ASSUME Scoped, path = <<>>, ~da3
      PROVE  pc = "move"
  BY <1>1 DEF Smooth, ViaDa2
<1>2. QED
  BY <1>1, SmoothKept

LEMMA SmoothNames ==
  ASSUME Smooth, FreshInv, Places, conf.scope \in Branches, faults = 0, faults' = 0,
         NextBranch \/ EndBranches \/ NextItem \/ EndItems
  PROVE  Smooth'
<1>1. /\ pc = "names" /\ pc' = pc /\ UNCHANGED <<conf, da3, queue, path>>
      /\ work.page # Nil /\ WorkOK(work) /\ Even(work)
  <2>1. pc = "names" /\ pc' = pc /\ UNCHANGED <<conf, da3, queue, path>>
    BY DEF NextBranch, EndBranches, NextItem, EndItems, Listing
  <2>2. QED
    BY <2>1, ListingFacts DEF FreshInv, Smooth, Reading, ViaDa2
<1>2. Steady(work.page.branches)
  BY <1>1 DEF Even
<1>3. CASE NextBranch
  <2>1. skips' = skips
    BY <1>3 DEF NextBranch
  <2>2. PICK x \in NextOf(work.page.branches), refused \in 0 .. 1 : \E page :
          /\ x.f.res.kind = "name" /\ Spend(x.cost + refused)
          /\ ReadOK(BranchNames(cursor), work.page.branches, x)
          /\ work' = [work EXCEPT !.page = page] /\ page.branches = x.f.it
    BY <1>3, NextBranchStep
  <2>3. x.cost \in {0, 1} /\ refused \in {0, 1}
    BY FetchCost
  <2>4. x.cost = 0
    BY <2>2, <2>3 DEF Spend
  <2>5. Steady(x.f.it)
    BY <1>2, <2>2, <2>4 DEF ReadOK
  <2>6. work'.page.branches = x.f.it
    BY <1>1, <2>2 DEF WorkOK
  <2>7. QED
    BY <1>1, <2>1, <2>5, <2>6, SmoothPage DEF Even, ViaDa2
<1>4. CASE EndBranches
  <2>1. PICK x \in NextOf(work.page.branches) :
          /\ ReadOK(BranchNames(cursor), work.page.branches, x) /\ Spend(x.cost)
          /\ \/ x.f.res.kind = "end" /\ skips' = skips
             \/ x.f.res.kind = "stuck"
    BY <1>4, EndBranchesStep
  <2>2. x.cost = 0
    BY <2>1, FetchCost DEF Spend
  <2>3. skips' = skips
    BY <1>2, <2>1, <2>2 DEF ReadOK
  <2>4. PICK page : work' = [work EXCEPT !.page = page] /\ page.branches = Nil
    BY <1>4, EndBranchesStep
  <2>5. work'.page.branches = Nil
    BY <1>1, <2>4 DEF WorkOK
  <2>6. QED
    BY <1>1, <2>3, <2>5, SmoothPage DEF Even, Steady, ViaDa2
<1>5. CASE NextItem
  <2>1. skips' = skips
    BY <1>5 DEF NextItem
  <2>2. PICK page : work' = [work EXCEPT !.page = page] /\ page.branches = Nil
    BY <1>5, NextItemStep
  <2>3. work'.page.branches = Nil
    BY <1>1, <2>2 DEF WorkOK
  <2>4. QED
    BY <1>1, <2>1, <2>3, SmoothPage DEF Even, Steady, ViaDa2
<1>6. CASE EndItems
  <2>1. skips' = skips /\ work' = [work EXCEPT !.page.items = Nil] /\ work.page.branches = Nil
    BY <1>6 DEF EndItems
  <2>2. work.page \in PagesAt(Flat(conf, da3), cursor)
    BY <1>1, ListingFacts
  <2>3. work'.page.branches = Nil
    BY <1>1, <2>1, <2>2 DEF WorkOK, PagesAt
  <2>4. QED
    BY <1>1, <2>1, <2>3, SmoothPage DEF Even, Steady, ViaDa2
<1>7. QED
  BY <1>3, <1>4, <1>5, <1>6

LEMMA SmoothHasMore ==
  ASSUME Smooth, FreshInv, Places, conf.scope \in Branches, faults = 0, faults' = 0, HasMore
  PROVE  Smooth'
<1>1. /\ pc = "more" /\ pc' = "emit" /\ UNCHANGED <<conf, da3, queue, path>>
      /\ work.page # Nil /\ WorkOK(work) /\ Even(work)
  <2>1. pc = "more" /\ pc' = "emit" /\ UNCHANGED <<conf, da3, queue, path>>
    BY DEF HasMore
  <2>2. QED
    BY <2>1, ListingFacts DEF FreshInv, Smooth, Reading, ViaDa2
<1>2. Steady(work.page.branches)
  BY <1>1 DEF Even
<1>3. PICK page : \E b \in Peeks(work.page.branches) :
        /\ work' = [work EXCEPT !.page = page]
        /\ AheadOK(BranchNames(cursor), work.page.branches, b)
        /\ \/ MoreBranches(page, b)
           \/ \E i \in Peeks(work.page.items) : MoreItems(page, b, i)
  BY HasMoreStep
<1>4. PICK b \in Peeks(work.page.branches) :
        /\ AheadOK(BranchNames(cursor), work.page.branches, b)
        /\ \/ MoreBranches(page, b)
           \/ \E i \in Peeks(work.page.items) : MoreItems(page, b, i)
  BY <1>3
<1>5. work'.page = page
  BY <1>1, <1>3 DEF WorkOK
<1>6. b.cost = 0
  <2>1. CASE MoreBranches(page, b)
    BY <2>1, FetchCost DEF MoreBranches, Spend
  <2>2. CASE \E i \in Peeks(work.page.items) : MoreItems(page, b, i)
    <3>1. PICK i \in Peeks(work.page.items) : Spend(b.cost + i.cost)
      BY <2>2 DEF MoreItems
    <3>2. b.cost \in {0, 1} /\ i.cost \in {0, 1}
      BY FetchCost
    <3>3. QED
      BY <3>1, <3>2 DEF Spend
  <2>3. QED
    BY <1>4, <2>1, <2>2
<1>7. Steady(b.f.it) /\ b.f.res.kind \in {"name", "end"}
  BY <1>2, <1>4, <1>6 DEF AheadOK
<1>8. skips' = skips /\ (page # Nil => page.branches = b.f.it)
  BY <1>4, <1>7 DEF MoreBranches, MoreItems
<1>9. QED
  BY <1>1, <1>5, <1>7, <1>8, SmoothPage DEF Even, ViaDa2

LEMMA SmoothEmit ==
  ASSUME Smooth, FreshInv, Emit \/ EndSlice
  PROVE  Smooth'
<1>1. /\ pc = "emit" /\ UNCHANGED <<conf, da3, work, path, skips>>
      /\ pc' \in {"emit", "pop", "finish"}
  <2>1. CASE Emit
    BY <2>1, EmitStep
  <2>2. CASE EndSlice
    BY <2>2, EndSliceStep DEF EndSlice, pageVars
  <2>3. QED
    BY <2>1, <2>2
<1>2. ~(Scoped /\ path = <<>> /\ ~da3) /\ Even(work) /\ IsSeq(queue)
  BY <1>1 DEF Smooth, FreshInv, Reading
<1>3. \A i \in 1 .. Len(queue) : Even(queue[i])
  BY DEF Smooth
<1>4. \A i \in 1 .. Len(queue') : Even(queue'[i])
  <2>1. CASE queue' = queue
    BY <1>3, <2>1
  <2>2. CASE \E id, trail : queue' = Append(queue, NewWork(work.api, id, trail))
    <3>1. PICK w : queue' = Append(queue, w) /\ w.page = Nil
      BY <2>2 DEF NewWork
    <3>2. /\ Len(queue) \in Nat /\ Len(queue') = Len(queue) + 1
          /\ \A i \in 1 .. Len(queue) : queue'[i] = queue[i]
          /\ queue'[Len(queue) + 1] = w
      BY <1>2, <3>1, AppendSeq
    <3>3. \A i \in 1 .. Len(queue') : i \in 1 .. Len(queue) \/ i = Len(queue) + 1
      BY <3>2
    <3>4. QED
      BY <1>3, <3>1, <3>2, <3>3 DEF Even
  <2>3. CASE queue' = <<work>> \o queue
    <3>1. /\ Len(queue) \in Nat /\ Len(queue') = Len(queue) + 1
          /\ \A i \in 1 .. Len(queue) : queue'[i + 1] = queue[i]
          /\ queue'[1] = work
      BY <1>2, <2>3, Prepend
    <3>2. \A i \in 1 .. Len(queue') : i = 1 \/ (i - 1 \in 1 .. Len(queue) /\ (i - 1) + 1 = i)
      BY <3>1
    <3>3. QED
      BY <1>2, <1>3, <3>1, <3>2
  <2>4. CASE Emit
    BY <2>1, <2>2, <2>4, EmitStep
  <2>5. CASE EndSlice
    BY <2>1, <2>3, <2>5, EndSliceStep
  <2>6. QED
    BY <2>4, <2>5
<1>5. QED
  BY <1>1, <1>2, <1>4 DEF Smooth, Scoped, Reading, ViaDa2

LEMMA PlaceInit == Init => PlaceInv
<1> SUFFICES ASSUME Init PROVE PlaceInv
  OBVIOUS
<1>1. /\ conf.scope \in Branches /\ conf.profile \in Profile /\ faults = 0 /\ skips = 0
      /\ pc = "start" /\ queue = <<>> /\ path = <<>> /\ cursor = Root /\ rest = <<>> /\ emitted = <<>>
  BY BoundsAssumption DEF Init
<1>2. IsSeq(<<>>) /\ Len(<<>>) = 0 /\ At(conf.scope, <<>>) = {Root}
  BY <1>1, NoSeq, FirstPlace
<1>3. 1 .. Len(queue) = {} /\ 1 .. Len(emitted) = {}
  BY <1>1, <1>2
<1>4. Places
  BY <1>1, <1>2, <1>3 DEF Places, Reading, ViaDa2
<1>5. Smooth
  BY <1>1, <1>3 DEF Smooth, Reading, ViaDa2
<1>6. QED
  BY <1>1, <1>4, <1>5 DEF PlaceInv

LEMMA PlacesNext ==
  ASSUME OnceInv, FreshInv, Places, conf.scope \in Branches, Sound, Clean => Smooth, [Next]_vars
  PROVE  Places'
<1>1. CASE UNCHANGED vars \/ Cancel \/ CloseReceiver
  <2>1. UNCHANGED <<conf, da3, pc, queue, work, nodes, path, emitted, cursor, rest>>
    BY <1>1 DEF vars, confVars, pageVars, resultVars, serverVars, Cancel, CloseReceiver
  <2>2. QED
    BY <2>1 DEF Places
<1>2. CASE \/ StartFails \/ Da3PageFails \/ MoveFails \/ IteratorFails \/ CallFails \/ StopAtBoundary
  <2>1. /\ pc # "pop" /\ pc' \in {"done", "finish"}
        /\ UNCHANGED <<conf, da3, queue, path, cursor, rest, emitted>>
    BY <1>2 DEF StartFails, Da3PageFails, MoveFails, IteratorFails, CallFails, StopAtBoundary,
      Fails, Ends, Jumps, Walks, Listing
  <2>2. QED
    BY <2>1, PlaceLeave
<1>3. CASE WalkDown
  <2>1. ASSUME Scoped, path = <<>> PROVE ~Misnamed
    <3> SUFFICES ASSUME Misnamed PROVE FALSE
      OBVIOUS
    <3>1. Smooth
      BY DEF Sound
    <3>2. AtShared /\ pc \in {"move", "walk"}
      BY <1>3 DEF WalkDown, AtShared, Walks
    <3>3. ~da3
      BY <3>2 DEF Places, ViaDa2
    <3>4. pc = "move" /\ work.id # Nil
      BY <2>1, <3>1, <3>2, <3>3 DEF Smooth
    <3>5. QED
      BY <3>2, <3>4 DEF AtShared, Walks, Jumps
  <2>2. QED
    BY <1>3, <2>1, PlaceWalkDown
<1>4. CASE Emit
  BY <1>4, PlaceEmit DEF OnceInv
<1>5. CASE Start
  BY <1>5, PlaceStart
<1>6. CASE Finish
  BY <1>6, PlaceFinish
<1>7. CASE Pop
  BY <1>7, PlacePop
<1>8. CASE Da3LastPage \/ Da3Page
  BY <1>8, PlaceDa3
<1>9. CASE FallBack
  BY <1>9, PlaceFallBack
<1>10. CASE BrowseTo
  BY <1>10, PlaceBrowseTo
<1>11. CASE WalkUp
  BY <1>11, PlaceWalkUp
<1>12. CASE BrowseToRefused \/ Arrive \/ PageRead
  BY <1>12, PlaceMoves
<1>13. CASE SkipBranch
  BY <1>13, PlaceSkipBranch
<1>14. CASE Begin
  BY <1>14, PlaceBegin
<1>15. CASE NextBranch
  BY <1>15, PlaceNextBranch
<1>16. CASE EndBranches
  BY <1>16, PlaceEndBranches
<1>17. CASE NextItem
  BY <1>17, PlaceNextItem
<1>18. CASE EndItems
  BY <1>18, PlaceEndItems
<1>19. CASE HasMore
  BY <1>19, PlaceHasMore
<1>20. CASE EndSlice
  BY <1>20, PlaceEndSlice
<1>21. QED
  BY <1>1, <1>2, <1>3, <1>4, <1>5, <1>6, <1>7, <1>8, <1>9, <1>10, <1>11, <1>12, <1>13, <1>14,
    <1>15, <1>16, <1>17, <1>18, <1>19, <1>20 DEF Next, Worker, Da3, Move, Read

LEMMA SmoothNext ==
  ASSUME FreshInv, Places, Smooth, conf.scope \in Branches, conf.profile \in Profile,
         faults = 0, faults' = 0, Clean', [Next]_vars
  PROVE  Smooth'
<1>1. CASE UNCHANGED vars \/ Cancel \/ CloseReceiver
  <2>1. UNCHANGED <<conf, da3, pc, queue, work, path, skips>>
    BY <1>1 DEF vars, confVars, pageVars, resultVars, Cancel, CloseReceiver
  <2>2. QED
    BY <2>1 DEF Smooth, Even, Scoped
<1>2. CASE \/ StartFails \/ Da3PageFails \/ MoveFails \/ IteratorFails \/ CallFails \/ StopAtBoundary
           \/ Finish
  <2>1. /\ pc' \in {"done", "finish"} /\ UNCHANGED <<conf, queue, skips>>
    BY <1>2 DEF StartFails, Da3PageFails, MoveFails, IteratorFails, CallFails, StopAtBoundary,
      Finish, Fails, Ends, resultVars
  <2>2. QED
    BY <2>1, SmoothKept DEF Reading, ViaDa2
<1>3. CASE Da3LastPage \/ Da3Page
  <2>1. CASE pc' = "done"
    <3>1. UNCHANGED <<conf, queue, skips>>
      BY <1>3 DEF Da3LastPage, Da3Page, Fails, resultVars, confVars
    <3>2. QED
      BY <2>1, <3>1, SmoothKept DEF Reading, ViaDa2
  <2>2. CASE pc' # "done"
    <3>1. /\ pc = "da3" /\ UNCHANGED <<conf, da3, queue, skips>> /\ da3 /\ work'.page = Nil
      BY <1>3, <2>2, Da3PageStep
    <3>2. QED
      BY <3>1, SmoothKept DEF Even
  <2>3. QED
    BY <2>1, <2>2
<1>4. CASE PageRead
  <2>1. /\ pc = "names" /\ pc' = "more" /\ UNCHANGED <<conf, da3, queue, work, path, skips>>
    BY <1>4 DEF PageRead, confVars, pageVars, resultVars
  <2>2. Even(work)
    BY <2>1 DEF Smooth, Reading, ViaDa2
  <2>3. QED
    BY <2>1, <2>2, SmoothPage DEF ViaDa2, Even
<1>5. CASE Start \/ FallBack
  BY <1>5, SmoothFirst
<1>6. CASE Pop
  BY <1>6, SmoothPop
<1>7. CASE BrowseTo \/ BrowseToRefused \/ WalkUp \/ WalkDown \/ Arrive
  BY <1>7, SmoothMoves
<1>8. CASE SkipBranch
  BY <1>8, SmoothSkipBranch
<1>9. CASE Begin
  BY <1>9, SmoothBegin
<1>10. CASE NextBranch \/ EndBranches \/ NextItem \/ EndItems
  BY <1>10, SmoothNames
<1>11. CASE HasMore
  BY <1>11, SmoothHasMore
<1>12. CASE Emit \/ EndSlice
  BY <1>12, SmoothEmit
<1>13. QED
  BY <1>1, <1>2, <1>3, <1>4, <1>5, <1>6, <1>7, <1>8, <1>9, <1>10, <1>11, <1>12
  DEF Next, Worker, Da3, Move, Read

LEMMA PlaceNext == OnceInv /\ FreshInv /\ PlaceInv /\ [Next]_vars => PlaceInv'
<1> SUFFICES ASSUME OnceInv, FreshInv, PlaceInv, [Next]_vars PROVE PlaceInv'
  OBVIOUS
<1>1. conf' = conf /\ faults' \in Nat
  BY ScopeKept, FaultsGrow DEF PlaceInv
<1>2. /\ conf.scope \in Branches /\ conf.profile \in Profile /\ faults \in Nat
      /\ Sound => Places
      /\ Clean => Smooth
  BY DEF PlaceInv
<1>3. ASSUME Sound' PROVE Places'
  <2>1. Sound
    BY <1>1, <1>2, <1>3, CleanBefore DEF Sound, Misnamed
  <2>2. QED
    BY <1>2, <2>1, PlacesNext
<1>4. ASSUME Clean' PROVE Smooth'
  <2>1. Clean /\ faults = 0 /\ faults' = 0
    BY <1>2, <1>4, CleanBefore
  <2>2. Sound
    BY <2>1 DEF Sound
  <2>3. QED
    BY <1>2, <1>4, <2>1, <2>2, SmoothNext
<1>5. QED
  BY <1>1, <1>2, <1>3, <1>4 DEF PlaceInv

\* Every entry delivered names an item that is where its breadcrumbs say, under
\* the item ID delivered with it: names are resolved at the server's cursor and
\* put under the worker's path, and the two never part, whatever the fallbacks,
\* refused moves, skipped branches and page boundaries in between.
THEOREM EntriesAreInPlace == Spec => []EntriesInPlace
<1>1. OnceInv /\ PlaceInv => EntriesInPlace
  <2> SUFFICES ASSUME OnceInv, PlaceInv, ~Misnamed, NEW k \in DOMAIN emitted
               PROVE  LET e == emitted[k]
                      IN IF conf.profile.flat /\ ~da3
                         THEN e.name = e.id /\ \E i \in ItemsBelow(conf.scope) : Id[i] = e.id
                         ELSE \E i \in NodesAt(Append(e.crumbs, e.name)) \cap Items : Id[i] = e.id
    BY DEF EntriesInPlace
  <2>1. Places
    BY DEF PlaceInv, Sound
  <2>2. k \in 1 .. Len(emitted)
    BY SeqElements DEF OnceInv
  <2>3. EntryOK(conf, da3, emitted[k])
    BY <2>1, <2>2 DEF Places
  <2>4. QED
    BY <2>3 DEF EntryOK, Flat, NodesAt, At
<1>2. QED
  BY <1>1, OnceInit, OnceNext, FreshInit, FreshNext, PlaceInit, PlaceNext, PTL DEF Spec

\* A server that answers correctly never has a branch skipped: the walks up and
\* down only use names it has listed, and its enumerators never stand still.
THEOREM SkipsAreExplained == Spec => []SkipsExplained
<1>1. PlaceInv => SkipsExplained
  <2> SUFFICES ASSUME PlaceInv, skips > 0, faults = 0, ~(conf.scope # Root /\ ~conf.profile.to)
               PROVE  FALSE
    BY DEF SkipsExplained, PlaceInv
  <2>1. Clean
    BY DEF Clean, Scoped
  <2>2. skips = 0
    BY <2>1 DEF PlaceInv, Smooth
  <2>3. QED
    BY <2>2
<1>2. QED
  BY <1>1, OnceInit, OnceNext, FreshInit, FreshNext, PlaceInit, PlaceNext, PTL DEF Spec

-----------------------------------------------------------------------------
(***************************************************************************)
(* Nothing is lost. Until the run stops, every item below the scope is     *)
(* found, given up with a warning, or still ahead: below a queued branch,  *)
(* in the rest of the branch being read, or among the nodes of its page.   *)
(***************************************************************************)

Found(i) == Id[i] \in seen \/ (skips > 0 /\ pruned \cap Above[i] # {})

\* A page of the branch b that still is to list the item, or a branch on the way
\* to it. When the items stand still, as read ahead, the run is going to fail.
Leads(flat, b, page, i) ==
  \/ Doomed(page.items)
  \/ IF flat THEN Id[i] \in Left(page.items)
     ELSE \E k \in KidsOf(b) : \/ k \in Above[i] /\ Name[k] \in Left(page.branches)
                               \/ k = i /\ Name[k] \in Left(page.items)

Covers(c, via3, r, w, i) ==
  \E b \in At(c.scope, w.trail) :
    /\ b \in Above[i]
    /\ w.cont # Nil => \E k \in ToSet(r) : k = i \/ k \in Above[i]
    /\ w.page # Nil => Leads(Flat(c, via3), b, w.page, i)

NodeCovers(c, trail, node, i) ==
  \/ node.item /\ node.id = Id[i]
  \/ node.child /\ \E k \in At(c.scope, Append(trail, node.name)) : k \in Above[i]

AheadOf(i) ==
  \/ \E j \in 1 .. Len(queue) : Covers(conf, da3, rest, queue[j], i)
  \/ pc \in Reading /\ (pc = "emit" => Continues) /\ Covers(conf, da3, rest, work, i)
  \/ pc \in Reading /\ \E k \in 1 .. Len(nodes) : NodeCovers(conf, work.trail, nodes[k], i)

ItemIds(s) == {s[k].id : k \in {l \in 1 .. Len(s) : s[l].item}}

\* A branch enumerator that stood still is gone at once, and a leaf name merged
\* with a branch has its item among those found.
Settled(c, via3, w, ids) ==
  w.page # Nil =>
    /\ ~Doomed(w.page.branches)
    /\ IF Flat(c, via3) THEN w.page.merged = {}
       ELSE \A b \in At(c.scope, w.trail) : \A k \in KidsOf(b) \cap Items :
              Name[k] \in w.page.merged => Id[k] \in ids

Covered ==
  /\ \A i \in ItemsBelow(conf.scope) : Found(i) \/ AheadOf(i)
  /\ \A j \in 1 .. Len(queue) : Settled(conf, da3, queue[j], seen)
  /\ pc \in Reading => Settled(conf, da3, work, seen \cup ItemIds(nodes))
  /\ pc = "da3" => nodes = <<>>

SeenOut == \A x \in seen : \E k \in 1 .. Len(emitted) : emitted[k].id = x

Active == ~cancelled /\ ~Stopped

CoverInv ==
  /\ skips \in Nat
  /\ pc = "finish" => Stopped
  /\ Active => SeenOut
  /\ ~Misnamed /\ Active /\ pc \in Reading \cup {"pop"} => Covered
  /\ NothingLostSilently

\* An enumerator that stands still says so when it is asked.
LEMMA StuckNext ==
  ASSUME NEW names, Nil \notin Iterators(names), NEW it \in {Nil} \cup Iterators(names), Doomed(it)
  PROVE  /\ it \in Iterators(names)
         /\ \A x \in NextOf(it) \cup Peeks(it) : x.f.res.kind = "stuck"
<1>1. it # Nil /\ it \in Iterators(names) /\ \E r \in ToSet(it.pending) : r.kind = "stuck"
  BY DEF Doomed
<1>2. PICK r : it.pending = <<>> \/ it.pending = <<r>>
  BY <1>1 DEF Iterators
<1>3. ToSet(<<>>) = {} /\ ToSet(<<r>>) = {r}
  BY DEF ToSet
<1>4. it.pending = <<r>> /\ r.kind = "stuck"
  BY <1>1, <1>2, <1>3
<1>5. it.pending # <<>> /\ Head(it.pending) = r
  BY <1>4
<1>6. \A x \in NextOf(it) \cup Peeks(it) : x.f.res = r
  BY <1>1, <1>5 DEF NextOf, Peeks, PeekOf
<1>7. QED
  BY <1>1, <1>4, <1>6

LEMMA IdsOf ==
  ASSUME NEW s, NEW id
  PROVE  id \in ItemIds(s) <=> \E k \in 1 .. Len(s) : s[k].item /\ s[k].id = id
BY DEF ItemIds

\* What the continuation stands for matters only to the branch it belongs to.
LEMMA CoversAny ==
  ASSUME NEW c, NEW via3, NEW r, NEW s, NEW w, w.cont = Nil, NEW i, Covers(c, via3, r, w, i)
  PROVE  Covers(c, via3, s, w, i)
BY DEF Covers

LEMMA SettledMore ==
  ASSUME NEW c, NEW via3, NEW w, NEW S, NEW T, S \subseteq T, Settled(c, via3, w, S)
  PROVE  Settled(c, via3, w, T)
BY DEF Settled

\* The work a run begins with leads to every item below the scope.
LEMMA FirstCovers ==
  ASSUME conf.scope \in Branches, NEW via3, NEW r, NEW i \in ItemsBelow(conf.scope)
  PROVE  Covers(conf, via3, r, InitialWork(via3), i)
<1> DEFINE w == InitialWork(via3)
<1>1. Placed(conf, via3, w) /\ w.cont = Nil /\ w.page = Nil
  BY FirstPlaced
<1>2. At(conf.scope, w.trail) = {conf.scope}
  BY FirstPlace DEF InitialWork, NewWork
<1>3. conf.scope \in Above[i]
  BY DEF ItemsBelow
<1> HIDE DEF w
<1>4. QED
  BY <1>1, <1>2, <1>3 DEF Covers, w

LEMMA CoverFirst ==
  ASSUME conf.scope \in Branches, Start \/ FallBack, pc' = "pop"
  PROVE  Covered'
<1>1. conf' = conf /\ queue' = <<InitialWork(da3')>>
  BY DEF Start, FallBack, Ends
<1> DEFINE w == InitialWork(da3')
<1>2. w.page = Nil /\ \A i \in ItemsBelow(conf.scope) : Covers(conf, da3', rest', w, i)
  BY FirstCovers, FirstPlaced
<1> HIDE DEF w
<1>3. Len(queue') = 1 /\ queue'[1] = w
  BY <1>1 DEF w
<1>4. 1 \in 1 .. Len(queue') /\ \A j \in 1 .. Len(queue') : queue'[j] = w
  BY <1>3
<1>5. \A i \in ItemsBelow(conf.scope) : \E j \in 1 .. Len(queue') : Covers(conf', da3', rest', queue'[j], i)
  BY <1>1, <1>2, <1>4
<1>6. \A j \in 1 .. Len(queue') : Settled(conf', da3', queue'[j], seen')
  BY <1>2, <1>4 DEF Settled
<1>7. QED
  BY <1>1, <1>5, <1>6 DEF Covered, AheadOf, Reading, ViaDa2

LEMMA CoverPop ==
  ASSUME Places, FreshInv, Covered, Pop
  PROVE  Covered'
<1>1. /\ pc = "pop" /\ queue # <<>> /\ work' = Head(queue) /\ queue' = Tail(queue) /\ nodes' = <<>>
      /\ pc' \in {"da3", "move"} /\ UNCHANGED <<conf, da3, rest, seen, skips, pruned>>
  BY DEF Pop, resultVars, serverVars, confVars
<1>2. /\ Len(queue) \in Nat \ {0} /\ work' = queue[1]
      /\ Len(queue') = Len(queue) - 1
      /\ \A i \in 1 .. Len(queue') : queue'[i] = queue[i + 1]
  BY <1>1, HeadTail DEF FreshInv
<1>3. /\ 1 \in 1 .. Len(queue) /\ \A i \in 1 .. Len(queue') : i + 1 \in 1 .. Len(queue)
      /\ \A j \in 1 .. Len(queue) : j # 1 => j - 1 \in 1 .. Len(queue') /\ (j - 1) + 1 = j
  BY <1>2
<1>4. /\ Settled(conf, da3, work', seen)
      /\ \A j \in 1 .. Len(queue') : Settled(conf, da3, queue'[j], seen)
  BY <1>2, <1>3 DEF Covered
<1>5. Settled(conf, da3, work', seen \cup ItemIds(nodes'))
  BY <1>4, SettledMore
<1>6. ASSUME NEW i \in ItemsBelow(conf.scope), ~Found(i)
      PROVE  \/ Covers(conf, da3, rest, work', i)
             \/ \E j \in 1 .. Len(queue') : Covers(conf, da3, rest, queue'[j], i)
  <2>1. PICK j \in 1 .. Len(queue) : Covers(conf, da3, rest, queue[j], i)
    BY <1>1, <1>6 DEF Covered, AheadOf, Reading, ViaDa2
  <2>2. CASE j = 1
    BY <1>2, <2>1, <2>2
  <2>3. CASE j # 1
    BY <1>2, <1>3, <2>1, <2>3
  <2>4. QED
    BY <2>2, <2>3
<1>7. QED
  BY <1>1, <1>4, <1>5, <1>6 DEF Covered, AheadOf, Found, Reading, ViaDa2

\* Steps on the branch being read. What it led to it still leads to, or there is
\* a node for it, or it is given up.
LEMMA CoverWork ==
  ASSUME Covered, UNCHANGED <<conf, da3, queue, rest, seen>>,
         pc \in Reading \ {"emit"}, pc' \in Reading \ {"da3"}, work'.trail = work.trail,
         pruned \subseteq pruned', skips > 0 => skips' > 0,
         \A k \in 1 .. Len(nodes) : \E l \in 1 .. Len(nodes') : nodes'[l] = nodes[k],
         Settled(conf, da3, work', seen \cup ItemIds(nodes')),
         \A i \in ItemsBelow(conf.scope) : Covers(conf, da3, rest, work, i) =>
           \/ Found(i)'
           \/ (pc' = "emit" => Continues') /\ Covers(conf, da3, rest, work', i)
           \/ \E l \in 1 .. Len(nodes') : NodeCovers(conf, work.trail, nodes'[l], i)
  PROVE  Covered'
<1>1. ASSUME NEW i \in ItemsBelow(conf.scope) PROVE Found(i)' \/ AheadOf(i)'
  <2>1. CASE Found(i)
    BY <2>1 DEF Found
  <2>2. CASE \E j \in 1 .. Len(queue) : Covers(conf, da3, rest, queue[j], i)
    BY <2>2 DEF AheadOf
  <2>3. CASE Covers(conf, da3, rest, work, i)
    BY <2>3 DEF AheadOf, Reading
  <2>4. CASE \E k \in 1 .. Len(nodes) : NodeCovers(conf, work.trail, nodes[k], i)
    BY <2>4 DEF AheadOf, Reading
  <2>5. QED
    BY <2>1, <2>2, <2>3, <2>4 DEF Covered, AheadOf
<1>2. \A j \in 1 .. Len(queue') : Settled(conf', da3', queue'[j], seen')
  BY DEF Covered
<1>3. QED
  BY <1>1, <1>2 DEF Covered, Reading

LEMMA CoverMoves ==
  ASSUME Covered, BrowseTo \/ BrowseToRefused \/ WalkUp \/ WalkDown \/ Arrive \/ PageRead
  PROVE  Covered'
<1>1. /\ UNCHANGED <<conf, da3, queue, rest, seen, skips, pruned, work, nodes>>
      /\ pc \in ViaDa2 /\ pc' \in ViaDa2
  BY DEF BrowseTo, BrowseToRefused, WalkUp, WalkDown, Arrive, PageRead, Jumps, Walks, AtShared, ViaDa2,
    confVars, pageVars, resultVars, serverVars
<1>2. Settled(conf, da3, work', seen \cup ItemIds(nodes'))
  BY <1>1 DEF Covered, Reading
<1>3. pc \in Reading \ {"emit"} /\ pc' \in Reading \ {"da3"} /\ pc' # "emit"
  BY <1>1 DEF Reading, ViaDa2
<1>4. QED
  BY <1>1, <1>2, <1>3, CoverWork

\* A branch that is refused is given up with all below it.
LEMMA CoverSkipBranch ==
  ASSUME Places, FreshInv, conf.scope \in Branches, skips \in Nat, Covered, SkipBranch
  PROVE  Covered'
<1>1. /\ UNCHANGED <<conf, da3, queue, rest, seen, nodes>>
      /\ pc \in {"move", "walk"} /\ pc' = "emit"
      /\ skips' = skips + 1 /\ pruned' = pruned \cup NodesAt(Target)
      /\ work' = [work EXCEPT !.page = Nil]
  BY DEF SkipBranch, AtShared, Walks, confVars
<1>2. WorkOK(work)
  BY <1>1 DEF FreshInv, Reading, ViaDa2
<1>3. work'.trail = work.trail /\ work'.page = Nil
  BY <1>1, <1>2 DEF WorkOK
<1>4. ASSUME NEW i \in ItemsBelow(conf.scope), Covers(conf, da3, rest, work, i)
      PROVE  Found(i)'
  <2>1. PICK b \in At(conf.scope, work.trail) : b \in Above[i]
    BY <1>4 DEF Covers
  <2>2. b \in pruned' /\ skips' > 0
    BY <1>1, <2>1 DEF Target, NodesAt, At
  <2>3. QED
    BY <2>1, <2>2 DEF Found
<1>5. Settled(conf, da3, work', seen \cup ItemIds(nodes'))
  BY <1>3 DEF Settled
<1>6. pc \in Reading \ {"emit"} /\ pc' \in Reading \ {"da3"} /\ skips' > 0 /\ pruned \subseteq pruned'
  BY <1>1 DEF Reading, ViaDa2
<1>7. QED
  BY <1>1, <1>3, <1>4, <1>5, <1>6, CoverWork

\* New enumerators list every child.
LEMMA CoverBegin ==
  ASSUME Places, FreshInv, conf.scope \in Branches, Covered, Begin
  PROVE  Covered'
<1>1. /\ UNCHANGED <<conf, da3, queue, rest, seen, skips, pruned, nodes>>
      /\ pc = "begin" /\ pc' = "move"
      /\ work' = [work EXCEPT !.page =
           IF conf.profile.flat
           THEN Page(Nil, Iterator(SetToSeq({Id[i] : i \in ItemsBelow(cursor)})))
           ELSE Page(Iterator(NamesOf(cursor, Branches)), Iterator(NamesOf(cursor, Items)))]
  BY DEF Begin, confVars, resultVars, serverVars
<1>2. /\ WorkOK(work) /\ cursor \in Nodes /\ At(conf.scope, work.trail) = {cursor}
      /\ (Flat(conf, da3) <=> conf.profile.flat) /\ (Flat(conf, da3) => cursor = conf.scope)
  BY <1>1, ListingFacts DEF FreshInv, Reading, ViaDa2
<1> DEFINE page == work'.page
<1>3. /\ page = IF conf.profile.flat
                THEN Page(Nil, Iterator(SetToSeq({Id[i] : i \in ItemsBelow(cursor)})))
                ELSE Page(Iterator(NamesOf(cursor, Branches)), Iterator(NamesOf(cursor, Items)))
      /\ work'.trail = work.trail /\ work'.cont = work.cont
  BY <1>1, <1>2 DEF WorkOK
<1> HIDE DEF page
<1>4. ASSUME NEW names, NEW s \in Seq(names), ToSet(s) = names, IsInjective(s),
             names \subseteq Words
      PROVE  ~Doomed(Iterator(s)) /\ Left(Iterator(s)) = names
  <2>1. Nil \notin names /\ Nil \notin Iterators(names)
    BY <1>4, BoundsAssumption, IteratorsMonotone
  <2>2. Iterator(s) \in Iterators(names) /\ ~Doomed(Iterator(s))
        /\ (Iterator(s) # Nil => Left(Iterator(s)) = ToSet(s))
    BY <1>4, <2>1, NewIterator
  <2>3. QED
    BY <1>4, <2>1, <2>2
<1>5. \A S : {Name[k] : k \in KidsOf(cursor) \cap S} \subseteq Words
  BY <1>2, KidFacts DEF Words
<1>6. \A S : ~Doomed(Iterator(NamesOf(cursor, S)))
             /\ Left(Iterator(NamesOf(cursor, S))) = {Name[k] : k \in KidsOf(cursor) \cap S}
  BY <1>2, <1>4, <1>5, NamesListed
<1>7. {Id[i] : i \in ItemsBelow(cursor)} \subseteq Words
  BY NamespaceAssumption DEF ItemsBelow, Words
<1>8. Left(Iterator(SetToSeq({Id[i] : i \in ItemsBelow(cursor)}))) = {Id[i] : i \in ItemsBelow(cursor)}
  BY <1>2, <1>4, <1>7, IdsListed
<1>9. ~Doomed(page.branches) /\ page.merged = {}
  BY <1>3, <1>6 DEF Page, Doomed
<1>10. Settled(conf, da3, work', seen \cup ItemIds(nodes'))
  BY <1>9 DEF Settled, page
<1>11. ASSUME NEW i \in ItemsBelow(conf.scope), Covers(conf, da3, rest, work, i)
       PROVE  Covers(conf, da3, rest, work', i)
  <2>1. cursor \in Above[i] /\ i \in Items /\ i \in Nodes
    BY <1>2, <1>11, NamespaceAssumption DEF Covers, ItemsBelow
  <2>2. PICK k \in KidsOf(cursor) : k = i \/ k \in Above[i]
    BY <2>1, AboveStep
  <2>3. k = i \/ k \in Branches
    BY <2>1, <2>2, AboveStep
  <2>4. Leads(Flat(conf, da3), cursor, page, i)
    <3>1. CASE Flat(conf, da3)
      <4>1. Left(page.items) = {Id[l] : l \in ItemsBelow(cursor)}
        BY <1>2, <1>3, <1>8, <3>1 DEF Page
      <4>2. QED
        BY <1>2, <3>1, <4>1 DEF Leads
    <3>2. CASE ~Flat(conf, da3)
      <4>1. /\ Left(page.branches) = {Name[l] : l \in KidsOf(cursor) \cap Branches}
            /\ Left(page.items) = {Name[l] : l \in KidsOf(cursor) \cap Items}
        BY <1>2, <1>3, <1>6, <3>2 DEF Page
      <4>2. (k = i /\ Name[k] \in Left(page.items)) \/ (k \in Above[i] /\ Name[k] \in Left(page.branches))
        BY <2>1, <2>2, <2>3, <4>1
      <4>3. QED
        BY <3>2, <4>2 DEF Leads
    <3>3. QED
      BY <3>1, <3>2
  <2>5. QED
    BY <1>2, <1>3, <1>11, <2>1, <2>4 DEF Covers, page
<1>12. pc \in Reading \ {"emit"} /\ pc' \in Reading \ {"da3"} /\ pc' # "emit"
  BY <1>1 DEF Reading, ViaDa2
<1>13. QED
  BY <1>1, <1>3, <1>10, <1>11, <1>12, CoverWork

LEMMA NodeFields ==
  ASSUME NEW name, NEW id, NEW item \in BOOLEAN, NEW child \in BOOLEAN
  PROVE  LET node == Node(name, id, item, child)
         IN /\ node.name = name /\ node.id = id
            /\ node.item <=> item
            /\ node.child <=> child
BY DEF Node

\* A DA 3 page: what is not on it is left to the continuation.
LEMMA CoverDa3 ==
  ASSUME Places, FreshInv, conf.scope \in Branches, Covered, Da3LastPage \/ Da3Page, pc' # "done"
  PROVE  Covered'
<1>1. /\ pc = "da3" /\ pc' = "emit" /\ da3
      /\ UNCHANGED <<conf, da3, queue, seen, skips, pruned>>
      /\ work'.trail = work.trail /\ work'.page = Nil
  BY Da3PageStep
<1>2. PICK b \in Branches : \E s :
        /\ b \in Nodes /\ At(conf.scope, work.trail) = {b}
        /\ nodes' = Da3Nodes(s) /\ IsSeq(s) /\ ToSet(s) \subseteq KidsOf(b)
        /\ ToSet(Remaining) \subseteq ToSet(s) \cup ToSet(rest')
        /\ work'.cont = Nil => ToSet(Remaining) \subseteq ToSet(s)
  BY Da3PageStep
<1>3. PICK s :
        /\ b \in Nodes /\ At(conf.scope, work.trail) = {b}
        /\ nodes' = Da3Nodes(s) /\ IsSeq(s) /\ ToSet(s) \subseteq KidsOf(b)
        /\ ToSet(Remaining) \subseteq ToSet(s) \cup ToSet(rest')
        /\ work'.cont = Nil => ToSet(Remaining) \subseteq ToSet(s)
  BY <1>2
<1>4. /\ TrailOK(conf.scope, work.trail) /\ conf.scope \in Nodes
      /\ WorkFor(Flat(conf, da3), da3, work, b)
  <2>1. Placed(conf, da3, work)
    BY <1>1 DEF Places, Reading
  <2>2. PICK c \in Branches : /\ At(conf.scope, work.trail) = {c} /\ TrailOK(conf.scope, work.trail)
                             /\ WorkFor(Flat(conf, da3), da3, work, c)
    BY <2>1, WorkPlace
  <2>3. c = b /\ conf.scope \in Nodes
    BY <1>3, <2>2, NamespaceAssumption
  <2>4. QED
    BY <2>2, <2>3
<1>5. /\ Len(nodes') = Len(s)
      /\ \A j \in 1 .. Len(s) :
           nodes'[j] = Node(Name[s[j]], Id[s[j]], s[j] \in Items, s[j] \in Branches)
  BY <1>3, <1>4, Da3NodesOK
<1>6. ToSet(Remaining) = IF work.cont = Nil THEN KidsOf(b) ELSE ToSet(rest)
  BY <1>1, <1>3, <1>4, RemainingFacts
<1>7. \A j \in 1 .. Len(queue) : queue[j].cont = Nil
  BY <1>1 DEF Places
<1>8. ASSUME NEW i \in ItemsBelow(conf.scope), Covers(conf, da3, rest, work, i)
      PROVE  \/ work'.cont # Nil /\ Covers(conf, da3, rest', work', i)
             \/ \E j \in 1 .. Len(nodes') : NodeCovers(conf, work.trail, nodes'[j], i)
  <2>1. /\ b \in Above[i] /\ i \in Nodes /\ i \in Items
        /\ work.cont # Nil => \E k \in ToSet(rest) : k = i \/ k \in Above[i]
    BY <1>3, <1>8, NamespaceAssumption DEF Covers, ItemsBelow
  <2>2. \E k \in KidsOf(b) : k = i \/ k \in Above[i]
    BY <2>1, AboveStep
  <2>3. PICK k \in ToSet(Remaining) : k = i \/ k \in Above[i]
    BY <1>6, <2>1, <2>2
  <2>4. CASE k \in ToSet(s)
    <3>1. PICK j \in 1 .. Len(s) : s[j] = k
      BY <1>3, <2>4, SeqElements DEF ToSet
    <3>2. /\ nodes'[j].name = Name[k] /\ nodes'[j].id = Id[k]
          /\ nodes'[j].item <=> k \in Items
          /\ nodes'[j].child <=> k \in Branches
      <4> DEFINE item == k \in Items
                 child == k \in Branches
                 node == Node(Name[k], Id[k], item, child)
      <4>1. nodes'[j] = node
        BY <1>5, <3>1
      <4>2. item \in BOOLEAN /\ child \in BOOLEAN
        OBVIOUS
      <4> HIDE DEF item, child
      <4>3. node.name = Name[k] /\ node.id = Id[k] /\ (node.item <=> item) /\ (node.child <=> child)
        BY <4>2, NodeFields
      <4> HIDE DEF node
      <4>4. QED
        BY <4>1, <4>3 DEF item, child
    <3>3. k \in KidsOf(b)
      BY <1>3, <2>4
    <3>4. k \in At(conf.scope, Append(work.trail, Name[k]))
      BY <1>3, <1>4, <3>3, PlaceDown
    <3>5. CASE k = i
      <4>1. nodes'[j].item /\ nodes'[j].id = Id[i]
        BY <2>1, <3>2, <3>5
      <4>2. QED
        BY <1>5, <3>1, <4>1 DEF NodeCovers
    <3>6. CASE k \in Above[i]
      <4>1. k \in Branches
        BY <2>1, <3>6, AboveStep
      <4>2. nodes'[j].child /\ nodes'[j].name = Name[k]
        BY <3>2, <4>1
      <4>3. QED
        BY <1>5, <3>1, <3>4, <3>6, <4>2 DEF NodeCovers
    <3>7. QED
      BY <2>3, <3>5, <3>6
  <2>5. CASE k \notin ToSet(s)
    <3>1. work'.cont # Nil /\ k \in ToSet(rest')
      BY <1>3, <2>3, <2>5
    <3>2. Covers(conf, da3, rest', work', i)
      BY <1>1, <1>3, <2>1, <2>3, <3>1 DEF Covers
    <3>3. QED
      BY <3>1, <3>2
  <2>6. QED
    BY <2>4, <2>5
<1>9. ASSUME NEW i \in ItemsBelow(conf.scope) PROVE Found(i)' \/ AheadOf(i)'
  <2>1. nodes = <<>> /\ Len(nodes) = 0
    BY <1>1, NoSeq DEF Covered
  <2>2. CASE Found(i)
    BY <1>1, <2>2 DEF Found
  <2>3. CASE \E j \in 1 .. Len(queue) : Covers(conf, da3, rest, queue[j], i)
    <3>1. \E j \in 1 .. Len(queue) : Covers(conf, da3, rest', queue[j], i)
      BY <1>7, <2>3, CoversAny
    <3>2. QED
      BY <1>1, <3>1 DEF AheadOf
  <2>4. CASE Covers(conf, da3, rest, work, i)
    <3>1. CASE work'.cont # Nil /\ Covers(conf, da3, rest', work', i)
      BY <1>1, <3>1 DEF AheadOf, Continues, Reading
    <3>2. CASE \E j \in 1 .. Len(nodes') : NodeCovers(conf, work.trail, nodes'[j], i)
      BY <1>1, <3>2 DEF AheadOf, Reading
    <3>3. QED
      BY <1>8, <2>4, <3>1, <3>2
  <2>5. QED
    BY <2>1, <2>2, <2>3, <2>4 DEF Covered, AheadOf
<1>10. \A j \in 1 .. Len(queue) : Settled(conf, da3, queue[j], seen)
  BY DEF Covered
<1>11. Settled(conf', da3', work', seen' \cup ItemIds(nodes'))
  BY <1>1 DEF Settled
<1>12. QED
  BY <1>1, <1>9, <1>10, <1>11 DEF Covered

\* Within a page at the cursor.
LEMMA LeadsOn ==
  ASSUME At(conf.scope, work.trail) = {cursor}, NEW page, WorkOK(work),
         work' = [work EXCEPT !.page = page], NEW i, Covers(conf, da3, rest, work, i),
         page # Nil => Leads(Flat(conf, da3), cursor, page, i)
  PROVE  Covers(conf, da3, rest, work', i)
<1>1. work'.trail = work.trail /\ work'.cont = work.cont /\ work'.page = page
  BY DEF WorkOK
<1>2. QED
  BY <1>1 DEF Covers

LEMMA LeadsNow ==
  ASSUME At(conf.scope, work.trail) = {cursor}, work.page # Nil,
         NEW i, Covers(conf, da3, rest, work, i)
  PROVE  cursor \in Above[i] /\ Leads(Flat(conf, da3), cursor, work.page, i)
BY DEF Covers

LEMMA OneMore ==
  ASSUME NEW s, IsSeq(s), NEW n
  PROVE  /\ \A k \in 1 .. Len(s) : \E l \in 1 .. Len(Append(s, n)) : Append(s, n)[l] = s[k]
         /\ \E l \in 1 .. Len(Append(s, n)) : Append(s, n)[l] = n
         /\ ItemIds(s) \subseteq ItemIds(Append(s, n))
         /\ n.item => n.id \in ItemIds(Append(s, n))
<1> DEFINE t == Append(s, n)
<1>1. /\ Len(s) \in Nat /\ Len(t) = Len(s) + 1
      /\ \A k \in 1 .. Len(s) : t[k] = s[k]
      /\ t[Len(s) + 1] = n
  BY AppendSeq
<1> HIDE DEF t
<1>2. Len(s) + 1 \in 1 .. Len(t) /\ \A k \in 1 .. Len(s) : k \in 1 .. Len(t)
  BY <1>1
<1>3. \A k \in 1 .. Len(s) : \E l \in 1 .. Len(t) : t[l] = s[k]
  BY <1>1, <1>2
<1>4. \E l \in 1 .. Len(t) : t[l] = n
  BY <1>1, <1>2
<1>5. ASSUME NEW id \in ItemIds(s) PROVE id \in ItemIds(t)
  <2>1. PICK k \in 1 .. Len(s) : s[k].item /\ s[k].id = id
    BY IdsOf
  <2>2. PICK l \in 1 .. Len(t) : t[l] = s[k]
    BY <1>3
  <2>3. QED
    BY <2>1, <2>2, IdsOf
<1>6. n.item => n.id \in ItemIds(t)
  BY <1>4, IdsOf
<1>7. QED
  BY <1>3, <1>4, <1>5, <1>6 DEF t

\* What the covering lemmas need of a page being listed.
LEMMA AtNames ==
  ASSUME Places, FreshInv, conf.scope \in Branches, Covered, pc \in {"names", "more"}
  PROVE  /\ cursor \in Nodes /\ At(conf.scope, work.trail) = {cursor}
         /\ conf.scope \in Nodes /\ TrailOK(conf.scope, work.trail)
         /\ Flat(conf, da3) => cursor = conf.scope
         /\ WorkOK(work) /\ IsSeq(nodes) /\ work.page # Nil
         /\ work.page \in PagesAt(Flat(conf, da3), cursor)
         /\ ~Doomed(work.page.branches)
         /\ IF Flat(conf, da3) THEN work.page.merged = {}
            ELSE \A k \in KidsOf(cursor) \cap Items :
                   Name[k] \in work.page.merged => Id[k] \in seen \cup ItemIds(nodes)
<1>1. pc \in Reading /\ pc \in ViaDa2
  BY DEF Reading, ViaDa2
<1>2. /\ cursor \in Nodes /\ At(conf.scope, work.trail) = {cursor}
      /\ Flat(conf, da3) => cursor = conf.scope
      /\ work.page # Nil /\ work.page \in PagesAt(Flat(conf, da3), cursor)
  BY ListingFacts
<1>3. /\ conf.scope \in Nodes /\ TrailOK(conf.scope, work.trail) /\ WorkOK(work) /\ IsSeq(nodes)
  BY <1>1, Da2Facts DEF Target
<1>4. Settled(conf, da3, work, seen \cup ItemIds(nodes))
  BY <1>1 DEF Covered
<1>5. QED
  BY <1>2, <1>3, <1>4 DEF Settled

LEMMA NotDoomed == ASSUME NEW it, it.pending = <<>> PROVE ~Doomed(it)
BY DEF Doomed, ToSet

LEMMA CoverNextBranch ==
  ASSUME Places, FreshInv, conf.scope \in Branches, Covered, NextBranch
  PROVE  Covered'
<1>1. /\ pc = "names" /\ pc' = pc /\ ~Flat(conf, da3)
      /\ UNCHANGED <<conf, da3, queue, rest, seen, skips, pruned>>
  BY NextBranchStep
<1>2. /\ cursor \in Nodes /\ At(conf.scope, work.trail) = {cursor}
      /\ conf.scope \in Nodes /\ TrailOK(conf.scope, work.trail)
      /\ WorkOK(work) /\ IsSeq(nodes) /\ work.page # Nil
      /\ \A k \in KidsOf(cursor) \cap Items :
           Name[k] \in work.page.merged => Id[k] \in seen \cup ItemIds(nodes)
  BY <1>1, AtNames
<1>3. PICK x \in NextOf(work.page.branches), refused \in 0 .. 1 : \E id, page :
        /\ x.f.res.kind = "name"
        /\ ReadOK(BranchNames(cursor), work.page.branches, x)
        /\ id \in {Nil} \cup {Id[k] : k \in ChildNamed(cursor, x.f.res.name) \cap Items}
        /\ nodes' = Append(nodes, Node(x.f.res.name, id, id # Nil, TRUE))
        /\ work' = [work EXCEPT !.page = page]
        /\ page \in PagesAt(Flat(conf, da3), cursor)
        /\ page.branches = x.f.it /\ page.items = work.page.items
        /\ page.merged = Merged(work.page.merged, x.f.res.name, id)
  BY NextBranchStep
<1> DEFINE name == x.f.res.name
<1>4. PICK id, page :
        /\ id \in {Nil} \cup {Id[k] : k \in ChildNamed(cursor, name) \cap Items}
        /\ nodes' = Append(nodes, Node(name, id, id # Nil, TRUE))
        /\ work' = [work EXCEPT !.page = page]
        /\ page \in PagesAt(Flat(conf, da3), cursor)
        /\ page.branches = x.f.it /\ page.items = work.page.items
        /\ page.merged = Merged(work.page.merged, name, id)
  BY <1>3
<1>5. /\ name \in BranchNames(cursor) /\ x.f.it.pending = <<>>
      /\ Left(work.page.branches) \subseteq Left(x.f.it) \cup {name}
  BY <1>3 DEF ReadOK
<1> HIDE DEF name
<1>6. PICK node : /\ nodes' = Append(nodes, node)
                  /\ node.name = name /\ node.id = id /\ node.child
                  /\ node.item <=> id # Nil
  <2> DEFINE node == Node(name, id, id # Nil, TRUE)
  <2>1. node.name = name /\ node.id = id /\ node.child /\ (node.item <=> id # Nil)
    BY DEF Node
  <2>2. nodes' = Append(nodes, node)
    BY <1>4
  <2> HIDE DEF node
  <2>3. QED
    BY <2>1, <2>2
<1>7. work'.page = page /\ work'.trail = work.trail
  BY <1>2, <1>4 DEF WorkOK
<1>8. /\ \A k \in 1 .. Len(nodes) : \E l \in 1 .. Len(nodes') : nodes'[l] = nodes[k]
      /\ \E l \in 1 .. Len(nodes') : nodes'[l] = node
      /\ ItemIds(nodes) \subseteq ItemIds(nodes')
      /\ node.item => node.id \in ItemIds(nodes')
  <2> DEFINE t == Append(nodes, node)
  <2>1. IsSeq(nodes) /\ nodes' = t
    BY <1>2, <1>6
  <2>2. /\ \A k \in 1 .. Len(nodes) : \E l \in 1 .. Len(t) : t[l] = nodes[k]
        /\ \E l \in 1 .. Len(t) : t[l] = node
        /\ ItemIds(nodes) \subseteq ItemIds(t)
        /\ node.item => node.id \in ItemIds(t)
    BY <2>1, OneMore, Zenon
  <2> HIDE DEF t
  <2>3. QED
    BY <2>1, <2>2
<1>9. ASSUME NEW k \in KidsOf(cursor) \cap Items, Name[k] \in page.merged
      PROVE  Id[k] \in seen \cup ItemIds(nodes')
  <2>1. CASE Name[k] \in work.page.merged
    BY <1>2, <1>8, <2>1
  <2>2. CASE Name[k] \notin work.page.merged
    <3>1. id # Nil /\ Name[k] = name
      BY <1>4, <1>9, <2>2 DEF Merged
    <3>2. PICK l \in ChildNamed(cursor, name) \cap Items : Id[l] = id
      BY <1>4, <3>1
    <3>3. l = k
      BY <1>2, <3>1, <3>2, OneKid DEF ChildNamed
    <3>4. QED
      BY <1>6, <1>8, <3>1, <3>2, <3>3
  <2>3. QED
    BY <2>1, <2>2
<1>10. Settled(conf, da3, work', seen \cup ItemIds(nodes'))
  BY <1>1, <1>2, <1>4, <1>5, <1>7, <1>9, NotDoomed DEF Settled
<1>11. ASSUME NEW i \in ItemsBelow(conf.scope), Covers(conf, da3, rest, work, i)
       PROVE  \/ Covers(conf, da3, rest, work', i)
              \/ \E l \in 1 .. Len(nodes') : NodeCovers(conf, work.trail, nodes'[l], i)
  <2>1. cursor \in Above[i] /\ Leads(Flat(conf, da3), cursor, work.page, i)
    BY <1>2, <1>11, LeadsNow
  <2>2. CASE \E k \in KidsOf(cursor) : k \in Above[i] /\ Name[k] = name
    <3>1. PICK k \in KidsOf(cursor) : k \in Above[i] /\ Name[k] = name
      BY <2>2
    <3>2. k \in At(conf.scope, Append(work.trail, name))
      BY <1>2, <3>1, PlaceDown
    <3>3. NodeCovers(conf, work.trail, node, i)
      BY <1>6, <3>1, <3>2 DEF NodeCovers
    <3>4. QED
      BY <1>8, <3>3
  <2>3. CASE ~\E k \in KidsOf(cursor) : k \in Above[i] /\ Name[k] = name
    <3>1. Leads(Flat(conf, da3), cursor, page, i)
      BY <1>1, <1>4, <1>5, <2>1, <2>3 DEF Leads
    <3>2. QED
      BY <1>2, <1>4, <1>11, <3>1, LeadsOn
  <2>4. QED
    BY <2>2, <2>3
<1>12. pc \in Reading \ {"emit"} /\ pc' \in Reading \ {"da3"} /\ pc' # "emit"
  BY <1>1 DEF Reading, ViaDa2
<1>13. QED
  BY <1>1, <1>7, <1>8, <1>10, <1>11, <1>12, CoverWork

LEMMA CoverEndBranches ==
  ASSUME Places, FreshInv, conf.scope \in Branches, skips \in Nat, Covered, EndBranches
  PROVE  Covered'
<1>1. /\ pc = "names" /\ pc' = pc /\ work.page.branches # Nil /\ ~Flat(conf, da3)
      /\ UNCHANGED <<conf, da3, queue, rest, seen, nodes>>
  BY EndBranchesStep
<1>2. /\ cursor \in Nodes /\ At(conf.scope, work.trail) = {cursor}
      /\ WorkOK(work) /\ work.page # Nil /\ ~Doomed(work.page.branches)
      /\ \A k \in KidsOf(cursor) \cap Items :
           Name[k] \in work.page.merged => Id[k] \in seen \cup ItemIds(nodes)
  BY <1>1, AtNames
<1>3. PICK x \in NextOf(work.page.branches) :
        /\ ReadOK(BranchNames(cursor), work.page.branches, x)
        /\ \/ x.f.res.kind = "end" /\ UNCHANGED <<skips, pruned>>
           \/ x.f.res.kind = "stuck" /\ SkipIterator
  BY EndBranchesStep
<1>4. PICK page :
        /\ work' = [work EXCEPT !.page = page] /\ page \in PagesAt(Flat(conf, da3), cursor)
        /\ page.branches = Nil /\ page.items = work.page.items
        /\ page.merged = work.page.merged
  BY EndBranchesStep
<1>5. work'.page = page /\ work'.trail = work.trail
  BY <1>2, <1>4 DEF WorkOK
<1>6. ~Doomed(Nil) /\ pruned \subseteq pruned' /\ (skips > 0 => skips' > 0)
  BY <1>3 DEF Doomed, SkipIterator
<1>7. Settled(conf, da3, work', seen \cup ItemIds(nodes'))
  BY <1>1, <1>2, <1>4, <1>5, <1>6 DEF Settled
<1>8. ASSUME NEW i \in ItemsBelow(conf.scope), Covers(conf, da3, rest, work, i)
      PROVE  Found(i)' \/ Covers(conf, da3, rest, work', i)
  <2>1. cursor \in Above[i] /\ Leads(Flat(conf, da3), cursor, work.page, i)
    BY <1>2, <1>8, LeadsNow
  <2>2. CASE \E k \in KidsOf(cursor) : k \in Above[i] /\ Name[k] \in Left(work.page.branches)
    <3>1. PICK k \in KidsOf(cursor) : k \in Above[i] /\ Name[k] \in Left(work.page.branches)
      BY <2>2
    <3>2. x.f.res.kind = "stuck" /\ SkipIterator
      BY <1>3, <3>1 DEF ReadOK
    <3>3. Name[k] \in ToSet(work.page.branches.rest)
      BY <1>2, <1>3, <3>1, <3>2 DEF ReadOK
    <3>4. skips' > 0 /\ k \in pruned'
      BY <3>2, <3>3 DEF SkipIterator
    <3>5. QED
      BY <3>1, <3>4 DEF Found
  <2>3. CASE ~\E k \in KidsOf(cursor) : k \in Above[i] /\ Name[k] \in Left(work.page.branches)
    <3>1. Leads(Flat(conf, da3), cursor, page, i)
      BY <1>1, <1>4, <2>1, <2>3 DEF Leads
    <3>2. QED
      BY <1>2, <1>4, <1>8, <3>1, LeadsOn
  <2>4. QED
    BY <2>2, <2>3
<1>9. pc \in Reading \ {"emit"} /\ pc' \in Reading \ {"da3"} /\ pc' # "emit"
  BY <1>1 DEF Reading, ViaDa2
<1>10. QED
  BY <1>1, <1>5, <1>6, <1>7, <1>8, <1>9, CoverWork

LEMMA NamesAreWords ==
  ASSUME NEW flat, NEW b \in Nodes
  PROVE  /\ ItemNames(flat, b) \subseteq Words /\ BranchNames(b) \subseteq Words
         /\ Nil \notin Iterators(ItemNames(flat, b)) /\ Nil \notin Iterators(BranchNames(b))
<1>1. ItemNames(flat, b) \subseteq Words /\ BranchNames(b) \subseteq Words
  BY KidFacts, NamespaceAssumption DEF ItemNames, BranchNames, Words, ItemsBelow
<1>2. QED
  BY <1>1, IteratorsMonotone, BoundsAssumption

LEMMA CoverNextItem ==
  ASSUME Places, FreshInv, conf.scope \in Branches, Covered, NextItem
  PROVE  Covered'
<1>1. /\ pc = "names" /\ pc' = pc /\ work.page.branches = Nil /\ work.page.items # Nil
      /\ UNCHANGED <<conf, da3, queue, rest, seen, skips, pruned>>
  BY NextItemStep
<1>2. /\ cursor \in Nodes /\ At(conf.scope, work.trail) = {cursor}
      /\ WorkOK(work) /\ IsSeq(nodes) /\ work.page # Nil
      /\ Flat(conf, da3) => cursor = conf.scope
      /\ work.page \in PagesAt(Flat(conf, da3), cursor)
      /\ IF Flat(conf, da3) THEN work.page.merged = {}
         ELSE \A k \in KidsOf(cursor) \cap Items :
                Name[k] \in work.page.merged => Id[k] \in seen \cup ItemIds(nodes)
  BY <1>1, AtNames
<1>3. PICK x \in NextOf(work.page.items) : \E page :
        /\ x.f.res.kind = "name"
        /\ ReadOK(ItemNames(Flat(conf, da3), cursor), work.page.items, x)
        /\ \/ x.f.res.name \in work.page.merged /\ nodes' = nodes
           \/ /\ x.f.res.name \notin work.page.merged
              /\ \E id : /\ nodes' = Append(nodes, Node(x.f.res.name, id, TRUE, FALSE))
                         /\ IF Flat(conf, da3) THEN id = x.f.res.name
                            ELSE id \in {Id[k] : k \in ChildNamed(cursor, x.f.res.name)}
        /\ work' = [work EXCEPT !.page = page]
        /\ page.branches = Nil /\ page.items = x.f.it /\ page.merged = work.page.merged
  BY NextItemStep
<1> DEFINE name == x.f.res.name
<1>4. PICK page :
        /\ \/ name \in work.page.merged /\ nodes' = nodes
           \/ /\ name \notin work.page.merged
              /\ \E id : /\ nodes' = Append(nodes, Node(name, id, TRUE, FALSE))
                         /\ IF Flat(conf, da3) THEN id = name
                            ELSE id \in {Id[k] : k \in ChildNamed(cursor, name)}
        /\ work' = [work EXCEPT !.page = page]
        /\ page.branches = Nil /\ page.items = x.f.it /\ page.merged = work.page.merged
  BY <1>3
<1>5. Left(work.page.items) \subseteq Left(x.f.it) \cup {name}
  BY <1>3 DEF ReadOK
<1> HIDE DEF name
<1>6. ~Doomed(work.page.items)
  <2>1. work.page.items \in {Nil} \cup Iterators(ItemNames(Flat(conf, da3), cursor))
    BY <1>2 DEF PagesAt
  <2>2. QED
    BY <1>2, <1>3, <2>1, NamesAreWords, StuckNext
<1>7. work'.page = page /\ work'.trail = work.trail
  BY <1>2, <1>4 DEF WorkOK
<1>8. /\ \A k \in 1 .. Len(nodes) : \E l \in 1 .. Len(nodes') : nodes'[l] = nodes[k]
      /\ ItemIds(nodes) \subseteq ItemIds(nodes')
      /\ name \notin work.page.merged =>
           \E l \in 1 .. Len(nodes') :
             /\ nodes'[l].item
             /\ IF Flat(conf, da3) THEN nodes'[l].id = name
                ELSE nodes'[l].id \in {Id[k] : k \in ChildNamed(cursor, name)}
  <2>1. CASE name \in work.page.merged
    BY <1>4, <2>1
  <2>2. CASE name \notin work.page.merged
    <3>1. PICK id : /\ nodes' = Append(nodes, Node(name, id, TRUE, FALSE))
                    /\ IF Flat(conf, da3) THEN id = name
                       ELSE id \in {Id[k] : k \in ChildNamed(cursor, name)}
      BY <1>4, <2>2
    <3> DEFINE node == Node(name, id, TRUE, FALSE)
               t == Append(nodes, node)
    <3>2. nodes' = t
      BY <3>1
    <3>3. node.item /\ node.id = id
      BY DEF Node
    <3> HIDE DEF node
    <3>4. /\ \A k \in 1 .. Len(nodes) : \E l \in 1 .. Len(t) : t[l] = nodes[k]
          /\ \E l \in 1 .. Len(t) : t[l] = node
          /\ ItemIds(nodes) \subseteq ItemIds(t)
          /\ node.item => node.id \in ItemIds(t)
      <4>1. IsSeq(nodes)
        BY <1>2
      <4>2. QED
        BY <4>1, OneMore, Zenon
    <3> HIDE DEF t
    <3>5. PICK l \in 1 .. Len(t) : t[l] = node
      BY <3>4
    <3>6. QED
      BY <3>1, <3>2, <3>3, <3>4, <3>5
  <2>3. QED
    BY <2>1, <2>2
<1>9. ~Doomed(Nil)
  BY DEF Doomed
<1>10. Settled(conf, da3, work', seen \cup ItemIds(nodes'))
  BY <1>2, <1>4, <1>7, <1>8, <1>9 DEF Settled
<1>11. ASSUME NEW i \in ItemsBelow(conf.scope), Covers(conf, da3, rest, work, i)
       PROVE  \/ Found(i)' \/ Covers(conf, da3, rest, work', i)
              \/ \E l \in 1 .. Len(nodes') : NodeCovers(conf, work.trail, nodes'[l], i)
  <2>1. cursor \in Above[i] /\ Leads(Flat(conf, da3), cursor, work.page, i) /\ i \in Items
    BY <1>2, <1>11, LeadsNow DEF ItemsBelow
  <2>2. Left(work.page.branches) = {}
    BY <1>1 DEF Left
  <2>3. CASE Id[i] \in ItemIds(nodes')
    <3>1. \E l \in 1 .. Len(nodes') : nodes'[l].item /\ nodes'[l].id = Id[i]
      BY <2>3, IdsOf
    <3>2. QED
      BY <3>1 DEF NodeCovers
  <2>4. CASE Flat(conf, da3) /\ Id[i] = name
    <3>1. \E l \in 1 .. Len(nodes') : nodes'[l].item /\ nodes'[l].id = Id[i]
      BY <1>2, <1>8, <2>4
    <3>2. QED
      BY <3>1 DEF NodeCovers
  <2>5. CASE Flat(conf, da3) /\ Id[i] # name
    <3>1. Leads(Flat(conf, da3), cursor, page, i)
      BY <1>4, <1>5, <1>6, <2>1, <2>5 DEF Leads
    <3>2. QED
      BY <1>2, <1>4, <1>11, <3>1, LeadsOn
  <2>6. CASE ~Flat(conf, da3) /\ i \in KidsOf(cursor) /\ Name[i] = name
    <3>1. CASE name \in work.page.merged
      <4>1. Id[i] \in seen \cup ItemIds(nodes)
        BY <1>2, <2>1, <2>6, <3>1
      <4>2. QED
        BY <1>1, <1>8, <2>3, <4>1 DEF Found
    <3>2. CASE name \notin work.page.merged
      <4>1. PICK l \in 1 .. Len(nodes') : nodes'[l].item /\ nodes'[l].id \in {Id[k] : k \in ChildNamed(cursor, name)}
        BY <1>8, <2>6, <3>2
      <4>2. nodes'[l].id = Id[i]
        BY <1>2, <2>6, <4>1, OneKid DEF ChildNamed
      <4>3. QED
        BY <4>1, <4>2 DEF NodeCovers
    <3>3. QED
      BY <3>1, <3>2
  <2>7. CASE ~Flat(conf, da3) /\ ~(i \in KidsOf(cursor) /\ Name[i] = name)
    <3>1. i \in KidsOf(cursor) /\ Name[i] \in Left(work.page.items)
      BY <1>6, <2>1, <2>2, <2>7 DEF Leads
    <3>2. Name[i] \in Left(page.items)
      <4>1. Name[i] \in Left(x.f.it)
        BY <1>5, <2>7, <3>1
      <4>2. page.items = x.f.it
        BY <1>4
      <4>3. QED
        BY <4>1, <4>2
    <3>3. Leads(Flat(conf, da3), cursor, page, i)
      BY <2>7, <3>1, <3>2 DEF Leads
    <3>4. QED
      BY <1>2, <1>4, <1>11, <3>3, LeadsOn
  <2>8. QED
    BY <2>4, <2>5, <2>6, <2>7
<1>12. pc \in Reading \ {"emit"} /\ pc' \in Reading \ {"da3"} /\ pc' # "emit"
  BY <1>1 DEF Reading, ViaDa2
<1>13. QED
  BY <1>1, <1>7, <1>8, <1>10, <1>11, <1>12, CoverWork

LEMMA CoverEndItems ==
  ASSUME Places, FreshInv, conf.scope \in Branches, Covered, EndItems
  PROVE  Covered'
<1>1. /\ pc = "names" /\ pc' = pc /\ work.page.branches = Nil /\ work.page.items # Nil
      /\ UNCHANGED <<conf, da3, queue, rest, seen, skips, pruned, nodes>>
      /\ work' = [work EXCEPT !.page.items = Nil]
      /\ \E x \in NextOf(work.page.items) : x.f.res.kind = "end"
  BY DEF EndItems, Listing, confVars, resultVars
<1>2. /\ cursor \in Nodes /\ At(conf.scope, work.trail) = {cursor}
      /\ WorkOK(work) /\ work.page # Nil
      /\ work.page \in PagesAt(Flat(conf, da3), cursor)
      /\ IF Flat(conf, da3) THEN work.page.merged = {}
         ELSE \A k \in KidsOf(cursor) \cap Items :
                Name[k] \in work.page.merged => Id[k] \in seen \cup ItemIds(nodes)
  BY <1>1, AtNames
<1>3. PICK x \in NextOf(work.page.items) : x.f.res.kind = "end"
  BY <1>1
<1>4. work.page.items \in Iterators(ItemNames(Flat(conf, da3), cursor))
  BY <1>1, <1>2 DEF PagesAt
<1>5. /\ Nil \notin Iterators(ItemNames(Flat(conf, da3), cursor))
      /\ Nil \notin ItemNames(Flat(conf, da3), cursor)
  BY <1>2, NamesAreWords, BoundsAssumption
<1>6. ReadOK(ItemNames(Flat(conf, da3), cursor), work.page.items, x) /\ ~Doomed(work.page.items)
  BY <1>3, <1>4, <1>5, NextFacts, StuckNext
<1>7. Left(work.page.items) = {} /\ Left(work.page.branches) = {}
  BY <1>1, <1>3, <1>6 DEF ReadOK, Left
<1>8. /\ work'.page = [work.page EXCEPT !.items = Nil] /\ work'.trail = work.trail
  BY <1>1, <1>2 DEF WorkOK
<1>9. work'.page.branches = Nil /\ work'.page.merged = work.page.merged
  BY <1>1, <1>2, <1>8 DEF PagesAt
<1>10. ~Doomed(Nil)
  BY DEF Doomed
<1>11. Settled(conf, da3, work', seen \cup ItemIds(nodes'))
  BY <1>1, <1>2, <1>8, <1>9, <1>10 DEF Settled
<1>12. ASSUME NEW i \in ItemsBelow(conf.scope), Covers(conf, da3, rest, work, i) PROVE FALSE
  BY <1>2, <1>6, <1>7, <1>12, LeadsNow DEF Leads
<1>13. pc \in Reading \ {"emit"} /\ pc' \in Reading \ {"da3"} /\ pc' # "emit"
  BY <1>1 DEF Reading, ViaDa2
<1>14. QED
  BY <1>1, <1>8, <1>11, <1>12, <1>13, CoverWork

\* Reading ahead keeps what it read; an end leaves nothing behind.
LEMMA CoverHasMore ==
  ASSUME Places, FreshInv, conf.scope \in Branches, skips \in Nat, Covered, HasMore
  PROVE  Covered'
<1>1. /\ pc = "more" /\ pc' = "emit"
      /\ UNCHANGED <<conf, da3, queue, rest, seen, nodes>>
  BY HasMoreStep
<1>2. /\ cursor \in Nodes /\ At(conf.scope, work.trail) = {cursor}
      /\ WorkOK(work) /\ work.page # Nil
      /\ work.page \in PagesAt(Flat(conf, da3), cursor)
      /\ ~Doomed(work.page.branches)
      /\ IF Flat(conf, da3) THEN work.page.merged = {}
         ELSE \A k \in KidsOf(cursor) \cap Items :
                Name[k] \in work.page.merged => Id[k] \in seen \cup ItemIds(nodes)
  BY <1>1, AtNames
<1>3. PICK page : \E b \in Peeks(work.page.branches) :
        /\ work' = [work EXCEPT !.page = page]
        /\ AheadOK(BranchNames(cursor), work.page.branches, b)
        /\ \/ MoreBranches(page, b)
           \/ \E i \in Peeks(work.page.items) :
                /\ AheadOK(ItemNames(Flat(conf, da3), cursor), work.page.items, i)
                /\ MoreItems(page, b, i)
  BY HasMoreStep
<1>4. PICK b \in Peeks(work.page.branches) :
        /\ work' = [work EXCEPT !.page = page]
        /\ AheadOK(BranchNames(cursor), work.page.branches, b)
        /\ \/ MoreBranches(page, b)
           \/ \E i \in Peeks(work.page.items) :
                /\ AheadOK(ItemNames(Flat(conf, da3), cursor), work.page.items, i)
                /\ MoreItems(page, b, i)
  BY <1>3
<1>5. /\ work'.page = page /\ work'.trail = work.trail
  BY <1>2, <1>4 DEF WorkOK
<1>6. pruned \subseteq pruned' /\ (skips > 0 => skips' > 0)
  BY <1>4 DEF MoreBranches, MoreItems, SkipIterator
<1>7. ~Doomed(Nil) /\ Left(Nil) = {}
  BY DEF Doomed, Left
<1>8. page # Nil => ~Doomed(page.branches) /\ page.merged = work.page.merged
  <2>1. CASE MoreBranches(page, b)
    BY <1>4, <2>1 DEF MoreBranches, AheadOK
  <2>2. CASE \E i \in Peeks(work.page.items) : MoreItems(page, b, i)
    BY <1>4, <1>7, <2>2 DEF MoreItems, AheadOK
  <2>3. QED
    BY <1>4, <2>1, <2>2
<1>9. Settled(conf, da3, work', seen \cup ItemIds(nodes'))
  BY <1>1, <1>2, <1>5, <1>8 DEF Settled
<1>10. ASSUME NEW i \in ItemsBelow(conf.scope), Covers(conf, da3, rest, work, i)
       PROVE  Found(i)' \/ (page # Nil /\ Covers(conf, da3, rest, work', i))
  <2>1. cursor \in Above[i] /\ Leads(Flat(conf, da3), cursor, work.page, i)
    BY <1>2, <1>10, LeadsNow
  <2>2. SUFFICES ASSUME ~Found(i)' PROVE page # Nil /\ Leads(Flat(conf, da3), cursor, page, i)
    BY <1>2, <1>4, <1>10, LeadsOn
  <2>3. CASE MoreBranches(page, b)
    <3>1. /\ page # Nil /\ page.branches = b.f.it /\ page.items = work.page.items
          /\ Left(work.page.branches) \subseteq Left(page.branches)
      BY <1>4, <2>3 DEF MoreBranches, AheadOK
    <3>2. QED
      BY <2>1, <3>1 DEF Leads
  <2>4. CASE \E j \in Peeks(work.page.items) :
                /\ AheadOK(ItemNames(Flat(conf, da3), cursor), work.page.items, j)
                /\ MoreItems(page, b, j)
    <3>1. PICK j \in Peeks(work.page.items) :
                /\ AheadOK(ItemNames(Flat(conf, da3), cursor), work.page.items, j)
                /\ MoreItems(page, b, j)
      BY <2>4
    <3>2. CASE ~Flat(conf, da3) /\ \E k \in KidsOf(cursor) : k \in Above[i] /\ Name[k] \in Left(work.page.branches)
      <4>1. PICK k \in KidsOf(cursor) : k \in Above[i] /\ Name[k] \in Left(work.page.branches)
        BY <3>2
      <4>2. b.f.res.kind = "stuck"
        BY <1>4, <3>1, <4>1 DEF AheadOK, MoreItems
      <4>3. SkipIterator /\ Left(work.page.branches) \subseteq ToSet(work.page.branches.rest)
        BY <1>2, <1>4, <3>1, <4>2 DEF AheadOK, MoreItems
      <4>4. skips' > 0 /\ k \in pruned'
        BY <4>1, <4>3 DEF SkipIterator
      <4>5. QED
        BY <2>2, <4>1, <4>4 DEF Found
    <3>3. CASE ~(~Flat(conf, da3) /\ \E k \in KidsOf(cursor) : k \in Above[i] /\ Name[k] \in Left(work.page.branches))
      <4>1. \/ Doomed(work.page.items)
            \/ Flat(conf, da3) /\ Id[i] \in Left(work.page.items)
            \/ ~Flat(conf, da3) /\ i \in KidsOf(cursor) /\ Name[i] \in Left(work.page.items)
        BY <2>1, <3>3 DEF Leads
      <4>2. Doomed(work.page.items) => j.f.res.kind = "stuck"
        <5>1. work.page.items \in {Nil} \cup Iterators(ItemNames(Flat(conf, da3), cursor))
          BY <1>2 DEF PagesAt
        <5>2. QED
          BY <1>2, <5>1, NamesAreWords, StuckNext
      <4>3. j.f.res.kind # "end"
        BY <3>1, <4>1, <4>2 DEF AheadOK
      <4>4. page # Nil /\ page.items = j.f.it
        BY <3>1, <4>3 DEF MoreItems
      <4>5. CASE j.f.res.kind = "stuck"
        BY <3>1, <4>4, <4>5 DEF AheadOK, Leads
      <4>6. CASE j.f.res.kind # "stuck"
        <5>1. Left(work.page.items) \subseteq Left(page.items) /\ ~Doomed(work.page.items)
          BY <3>1, <4>2, <4>3, <4>4, <4>6 DEF AheadOK
        <5>2. QED
          BY <4>1, <4>4, <5>1 DEF Leads
      <4>7. QED
        BY <4>5, <4>6
    <3>4. QED
      BY <3>2, <3>3
  <2>5. QED
    BY <1>4, <2>3, <2>4
<1>11. page # Nil => Continues'
  BY <1>5 DEF Continues
<1>12. pc \in Reading \ {"emit"} /\ pc' \in Reading \ {"da3"}
  BY <1>1 DEF Reading, ViaDa2
<1>13. QED
  BY <1>1, <1>5, <1>6, <1>9, <1>10, <1>11, <1>12, CoverWork

\* A node that goes out, neither the first that is not taken nor the last one
\* the limit allows.
LEMMA EmitOn ==
  ASSUME OnceInv, Emit, ~Stopped'
  PROVE  LET node == Head(nodes)
         IN /\ pc = "emit" /\ pc' = pc /\ nodes # <<>> /\ nodes' = Tail(nodes) /\ ~cancelled
            /\ UNCHANGED <<conf, da3, work, rest, skips, pruned>>
            /\ seen' = IF IsNew(node) THEN seen \cup {node.id} ELSE seen
            /\ queue' = IF node.child
                        THEN Append(queue, NewWork(work.api, node.id, Append(work.trail, node.name)))
                        ELSE queue
            /\ emitted' = IF IsNew(node)
                          THEN Append(emitted, [id |-> node.id, name |-> node.name, crumbs |-> work.trail])
                          ELSE emitted
<1> DEFINE node == Head(nodes)
           new == IsNew(node)
           full == new /\ conf.limit # Nil /\ Cardinality(seen) + 1 >= conf.limit
           stop == cancelled \/ (new /\ ~open)
<1>1. terminal = [cancelled |-> terminal.cancelled, truncated |-> terminal.truncated]
  BY DEF OnceInv
<1>2. ~stop
  <2>1. stop => terminal' = [terminal EXCEPT !.cancelled = TRUE]
    BY DEF Emit, Leaves
  <2>2. QED
    BY <1>1, <2>1 DEF Stopped
<1>3. ~full
  <2>1. ~stop /\ full => terminal' = [terminal EXCEPT !.truncated = TRUE]
    BY DEF Emit, Leaves
  <2>2. QED
    BY <1>1, <1>2, <2>1 DEF Stopped
<1>4. QED
  BY <1>2, <1>3 DEF Emit, confVars, resultVars, serverVars

LEMMA CoverEmit ==
  ASSUME Places, FreshInv, OnceInv, conf.scope \in Branches, Covered, Emit, ~Stopped'
  PROVE  Covered'
<1> DEFINE node == Head(nodes)
           child == NewWork(work.api, node.id, Append(work.trail, node.name))
<1>1. /\ pc = "emit" /\ pc' = "emit" /\ nodes # <<>> /\ nodes' = Tail(nodes)
      /\ UNCHANGED <<conf, da3, work, rest, skips, pruned>>
      /\ seen' = IF IsNew(node) THEN seen \cup {node.id} ELSE seen
      /\ queue' = IF node.child THEN Append(queue, child) ELSE queue
  BY EmitOn
<1>2. IsSeq(nodes) /\ IsSeq(queue) /\ pc \in Reading
  BY <1>1 DEF Places, FreshInv, Reading
<1>3. /\ Len(nodes) \in Nat \ {0} /\ Len(nodes') = Len(nodes) - 1 /\ node = nodes[1]
      /\ \A k \in 1 .. Len(nodes') : nodes'[k] = nodes[k + 1]
  BY <1>1, <1>2, HeadTail
<1>4. /\ child.trail = Append(work.trail, node.name) /\ child.cont = Nil /\ child.page = Nil
  BY DEF NewWork
<1> HIDE DEF child, node
<1>5. seen \subseteq seen' /\ (node.item => node.id \in seen')
  BY <1>1 DEF IsNew
<1>6. \A k \in 1 .. Len(nodes) : k = 1 \/ \E l \in 1 .. Len(nodes') : nodes'[l] = nodes[k]
  <2>1. \A k \in 1 .. Len(nodes) : k # 1 => k - 1 \in 1 .. Len(nodes') /\ (k - 1) + 1 = k
    BY <1>3
  <2>2. QED
    BY <1>3, <2>1
<1>7. seen \cup ItemIds(nodes) \subseteq seen' \cup ItemIds(nodes')
  <2> SUFFICES ASSUME NEW id \in ItemIds(nodes), id \notin seen' PROVE id \in ItemIds(nodes')
    BY <1>5
  <2>1. PICK k \in 1 .. Len(nodes) : nodes[k].item /\ nodes[k].id = id
    BY IdsOf
  <2>2. k # 1
    BY <1>3, <1>5, <2>1
  <2>3. QED
    BY <1>6, <2>1, <2>2, IdsOf
<1>8. /\ \A j \in 1 .. Len(queue) : \E l \in 1 .. Len(queue') : queue'[l] = queue[j]
      /\ node.child => \E l \in 1 .. Len(queue') : queue'[l] = child
      /\ \A l \in 1 .. Len(queue') : queue'[l] = child \/ \E j \in 1 .. Len(queue) : queue'[l] = queue[j]
  <2>1. CASE ~node.child
    BY <1>1, <2>1
  <2>2. CASE node.child
    <3> DEFINE t == Append(queue, child)
    <3>1. /\ Len(queue) \in Nat /\ Len(t) = Len(queue) + 1
          /\ \A i \in 1 .. Len(queue) : t[i] = queue[i]
          /\ t[Len(queue) + 1] = child
      BY <1>2, AppendSeq
    <3>2. queue' = t
      BY <1>1, <2>2
    <3> HIDE DEF t
    <3>3. /\ Len(queue) + 1 \in 1 .. Len(t)
          /\ \A i \in 1 .. Len(queue) : i \in 1 .. Len(t)
          /\ \A i \in 1 .. Len(t) : i \in 1 .. Len(queue) \/ i = Len(queue) + 1
      BY <3>1
    <3>4. QED
      BY <3>1, <3>2, <3>3
  <2>3. QED
    BY <2>1, <2>2
<1>9. ASSUME NEW i \in ItemsBelow(conf.scope) PROVE Found(i)' \/ AheadOf(i)'
  <2>1. CASE Found(i)
    BY <1>1, <1>5, <2>1 DEF Found
  <2>2. CASE \E j \in 1 .. Len(queue) : Covers(conf, da3, rest, queue[j], i)
    BY <1>1, <1>8, <2>2 DEF AheadOf
  <2>3. CASE Continues /\ Covers(conf, da3, rest, work, i)
    BY <1>1, <2>3 DEF AheadOf, Continues, Reading
  <2>4. CASE \E k \in 1 .. Len(nodes) : NodeCovers(conf, work.trail, nodes[k], i)
    <3>1. PICK k \in 1 .. Len(nodes) : NodeCovers(conf, work.trail, nodes[k], i)
      BY <2>4
    <3>2. CASE k # 1
      <4>1. PICK l \in 1 .. Len(nodes') : nodes'[l] = nodes[k]
        BY <1>6, <3>2
      <4>2. NodeCovers(conf', work'.trail, nodes'[l], i)
        BY <1>1, <3>1, <4>1
      <4>3. QED
        BY <1>1, <4>2 DEF AheadOf, Reading
    <3>3. CASE k = 1 /\ node.item /\ node.id = Id[i]
      BY <1>5, <3>3 DEF Found
    <3>4. CASE k = 1 /\ node.child /\ \E b \in At(conf.scope, Append(work.trail, node.name)) : b \in Above[i]
      <4>1. Covers(conf, da3, rest, child, i)
        BY <1>4, <3>4 DEF Covers
      <4>2. \E l \in 1 .. Len(queue') : queue'[l] = child
        BY <1>8, <3>4
      <4>3. QED
        BY <1>1, <4>1, <4>2 DEF AheadOf
    <3>5. QED
      BY <1>3, <3>1, <3>2, <3>3, <3>4 DEF NodeCovers
  <2>5. QED
    BY <1>1, <2>1, <2>2, <2>3, <2>4 DEF Covered, AheadOf
<1>10. ASSUME NEW l \in 1 .. Len(queue') PROVE Settled(conf, da3, queue'[l], seen')
  <2>1. CASE queue'[l] = child
    BY <1>4, <2>1 DEF Settled
  <2>2. CASE \E j \in 1 .. Len(queue) : queue'[l] = queue[j]
    <3>1. Settled(conf, da3, queue'[l], seen)
      BY <2>2 DEF Covered
    <3>2. QED
      BY <1>5, <3>1, SettledMore
  <2>3. QED
    BY <1>8, <2>1, <2>2
<1>11. Settled(conf, da3, work, seen' \cup ItemIds(nodes'))
  <2>1. Settled(conf, da3, work, seen \cup ItemIds(nodes))
    BY <1>2 DEF Covered
  <2>2. QED
    BY <1>7, <2>1, SettledMore
<1>12. QED
  BY <1>1, <1>9, <1>10, <1>11 DEF Covered

LEMMA CoverEndSlice ==
  ASSUME FreshInv, Covered, EndSlice, pc' = "pop"
  PROVE  Covered'
<1>1. /\ pc = "emit" /\ nodes = <<>>
      /\ UNCHANGED <<conf, da3, rest, seen, skips, pruned>>
      /\ \/ ~Continues /\ queue' = queue
         \/ Continues /\ queue' = <<work>> \o queue
  BY EndSliceStep
<1>2. Len(nodes) = 0 /\ ItemIds(nodes) = {} /\ IsSeq(queue)
  <2>1. Len(nodes) = 0
    BY <1>1, NoSeq
  <2>2. QED
    BY <2>1 DEF ItemIds, FreshInv
<1>3. /\ Continues => \E l \in 1 .. Len(queue') : queue'[l] = work
      /\ \A j \in 1 .. Len(queue) : \E l \in 1 .. Len(queue') : queue'[l] = queue[j]
      /\ \A l \in 1 .. Len(queue') : queue'[l] = work \/ \E j \in 1 .. Len(queue) : queue'[l] = queue[j]
  <2>1. CASE ~Continues
    BY <1>1, <2>1
  <2>2. CASE Continues
    <3>1. /\ Len(queue) \in Nat /\ Len(queue') = Len(queue) + 1 /\ queue'[1] = work
          /\ \A i \in 1 .. Len(queue) : queue'[i + 1] = queue[i]
      BY <1>1, <1>2, <2>2, Prepend
    <3>2. /\ 1 \in 1 .. Len(queue')
          /\ \A i \in 1 .. Len(queue) : i + 1 \in 1 .. Len(queue')
          /\ \A i \in 1 .. Len(queue') : i = 1 \/ (i - 1 \in 1 .. Len(queue) /\ (i - 1) + 1 = i)
      BY <3>1
    <3>3. QED
      BY <3>1, <3>2
  <2>3. QED
    BY <2>1, <2>2
<1>4. ASSUME NEW i \in ItemsBelow(conf.scope) PROVE Found(i)' \/ AheadOf(i)'
  <2>1. CASE Found(i)
    BY <1>1, <2>1 DEF Found
  <2>2. CASE \E j \in 1 .. Len(queue) : Covers(conf, da3, rest, queue[j], i)
    BY <1>1, <1>3, <2>2 DEF AheadOf
  <2>3. CASE Continues /\ Covers(conf, da3, rest, work, i)
    BY <1>1, <1>3, <2>3 DEF AheadOf
  <2>4. QED
    BY <1>1, <1>2, <2>1, <2>2, <2>3 DEF Covered, AheadOf
<1>5. Settled(conf, da3, work, seen)
  BY <1>1, <1>2 DEF Covered, Reading
<1>6. ASSUME NEW l \in 1 .. Len(queue') PROVE Settled(conf, da3, queue'[l], seen)
  BY <1>3, <1>5 DEF Covered
<1>7. QED
  BY <1>1, <1>4, <1>6 DEF Covered, Reading, ViaDa2

LEMMA CoverInit == Init => CoverInv
<1> SUFFICES ASSUME Init PROVE CoverInv
  OBVIOUS
<1>1. /\ skips = 0 /\ pc = "start" /\ seen = {} /\ outcome = Nil
  BY DEF Init
<1>2. outcome # "completed"
  BY <1>1, BoundsAssumption
<1>3. QED
  BY <1>1, <1>2 DEF CoverInv, SeenOut, NothingLostSilently, Reading, ViaDa2

\* Nothing makes a stopped run active again.
LEMMA ActiveBefore ==
  ASSUME OnceInv, [Next]_vars, Active'
  PROVE  Active
<1>1. terminal = [cancelled |-> terminal.cancelled, truncated |-> terminal.truncated]
  BY DEF OnceInv
<1>2. CASE Start \/ Finish \/ StopAtBoundary \/ EndSlice
  <2>1. CASE Start
    BY <1>1, <2>1 DEF Start, Active, Stopped, userVars
  <2>2. CASE Finish
    BY <1>1, <2>2 DEF Finish, Active, Stopped, userVars
  <2>3. CASE StopAtBoundary
    BY <1>1, <2>3 DEF StopAtBoundary, Active, Stopped, userVars
  <2>4. CASE EndSlice
    <3>1. cancelled' = cancelled /\ terminal' = [terminal EXCEPT !.cancelled = @ \/ ~open]
      BY <2>4 DEF EndSlice, userVars
    <3>2. QED
      BY <1>1, <3>1 DEF Active, Stopped
  <2>5. QED
    BY <1>2, <2>1, <2>2, <2>3, <2>4
<1>3. CASE Emit
  <2>1. ~cancelled /\ ~cancelled'
    BY <1>3, EmitOn DEF Active, Emit, userVars
  <2>2. \/ terminal' = terminal \/ terminal' = [terminal EXCEPT !.cancelled = TRUE]
        \/ terminal' = [terminal EXCEPT !.truncated = TRUE]
    BY <1>3 DEF Emit, Leaves
  <2>3. QED
    BY <1>1, <2>1, <2>2 DEF Active, Stopped
<1>4. CASE Cancel \/ CloseReceiver \/ UNCHANGED vars
  BY <1>4 DEF Cancel, CloseReceiver, vars, resultVars, userVars, Active, Stopped
<1>5. CASE StartFails \/ Pop \/ Da3 \/ Move \/ Read
  <2>1. UNCHANGED <<terminal, cancelled>>
    BY <1>5 DEF StartFails, Pop, Da3, Da3LastPage, Da3Page, Da3PageFails, FallBack, Fails, Move, BrowseTo,
      BrowseToRefused, WalkUp, WalkDown, SkipBranch, Arrive, MoveFails, Read, Begin, NextBranch,
      EndBranches, NextItem, EndItems, IteratorFails, CallFails, PageRead, HasMore, SkipIterator,
      resultVars, userVars
  <2>2. QED
    BY <2>1 DEF Active, Stopped
<1>6. QED
  BY <1>2, <1>3, <1>4, <1>5 DEF Next, Worker

\* The item IDs found are delivered.
LEMMA SeenOutNext ==
  ASSUME OnceInv, Active => SeenOut, [Next]_vars, Active'
  PROVE  SeenOut'
<1>1. SeenOut /\ IsSeq(emitted)
  BY ActiveBefore DEF OnceInv
<1>2. CASE Emit
  <2>1. ~Stopped'
    BY DEF Active
  <2>2. PICK node, e : \/ seen' = seen /\ emitted' = emitted
                       \/ /\ seen' = seen \cup {node.id} /\ e.id = node.id
                          /\ emitted' = Append(emitted, e)
    <3> DEFINE node == Head(nodes)
               e == [id |-> node.id, name |-> node.name, crumbs |-> work.trail]
    <3>1. /\ seen' = IF IsNew(node) THEN seen \cup {node.id} ELSE seen
          /\ emitted' = IF IsNew(node) THEN Append(emitted, e) ELSE emitted
      BY <1>2, <2>1, EmitOn
    <3>2. e.id = node.id
      OBVIOUS
    <3> HIDE DEF node, e
    <3>3. QED
      BY <3>1, <3>2
  <2>3. CASE seen' = seen /\ emitted' = emitted
    BY <1>1, <2>3 DEF SeenOut
  <2>4. CASE seen' = seen \cup {node.id} /\ e.id = node.id /\ emitted' = Append(emitted, e)
    <3>1. /\ Len(emitted) \in Nat /\ Len(emitted') = Len(emitted) + 1
          /\ \A k \in 1 .. Len(emitted) : emitted'[k] = emitted[k]
          /\ emitted'[Len(emitted) + 1] = e
      BY <1>1, <2>4, AppendSeq
    <3>2. Len(emitted) + 1 \in 1 .. Len(emitted') /\ \A k \in 1 .. Len(emitted) : k \in 1 .. Len(emitted')
      BY <3>1
    <3>3. QED
      BY <1>1, <2>4, <3>1, <3>2 DEF SeenOut
  <2>5. QED
    BY <2>2, <2>3, <2>4
<1>3. CASE ~Emit
  <2>1. UNCHANGED <<seen, emitted>>
    BY <1>3 DEF Next, Worker, Cancel, CloseReceiver, vars, resultVars, Start, Finish, StopAtBoundary,
      EndSlice, StartFails, Pop, Da3, Da3LastPage, Da3Page, Da3PageFails, FallBack, Fails, Move,
      BrowseTo, BrowseToRefused, WalkUp, WalkDown, SkipBranch, Arrive, MoveFails, Read, Begin,
      NextBranch, EndBranches, NextItem, EndItems, IteratorFails, CallFails, PageRead, HasMore,
      SkipIterator
  <2>2. QED
    BY <1>1, <2>1 DEF SeenOut
<1>4. QED
  BY <1>2, <1>3

LEMMA SkipsCount == ASSUME skips \in Nat, [Next]_vars PROVE skips' \in Nat
<1>1. CASE SkipBranch \/ EndBranches \/ HasMore
  <2>1. CASE SkipBranch
    BY <2>1 DEF SkipBranch
  <2>2. CASE EndBranches
    BY <2>2 DEF EndBranches, SkipIterator
  <2>3. CASE HasMore
    <3>1. UNCHANGED <<skips, pruned>> \/ SkipIterator
      BY <2>3 DEF HasMore
    <3>2. QED
      BY <3>1 DEF SkipIterator
  <2>4. QED
    BY <1>1, <2>1, <2>2, <2>3
<1>2. CASE ~(SkipBranch \/ EndBranches \/ HasMore)
  <2>1. skips' = skips
    BY <1>2 DEF Next, Worker, Cancel, CloseReceiver, vars, resultVars, Start, Finish, StopAtBoundary,
      EndSlice, StartFails, Pop, Da3, Da3LastPage, Da3Page, Da3PageFails, FallBack, Fails, Move,
      BrowseTo, BrowseToRefused, WalkUp, WalkDown, Arrive, MoveFails, Read, Begin, NextBranch,
      NextItem, EndItems, IteratorFails, CallFails, PageRead, Emit
  <2>2. QED
    BY <2>1
<1>3. QED
  BY <1>1, <1>2

\* The loop is left for a reason the terminal flags tell.
LEMMA FinishStopped ==
  ASSUME OnceInv, pc = "finish" => Stopped, [Next]_vars, pc' = "finish"
  PROVE  Stopped'
<1>1. terminal = [cancelled |-> terminal.cancelled, truncated |-> terminal.truncated]
  BY DEF OnceInv
<1>2. CASE StopAtBoundary \/ EndSlice
  BY <1>1, <1>2 DEF StopAtBoundary, EndSlice, Stopped
<1>3. CASE Cancel \/ CloseReceiver \/ UNCHANGED vars
  BY <1>3 DEF Cancel, CloseReceiver, vars, resultVars, Stopped
<1>4. CASE \/ Start \/ StartFails \/ Finish \/ Pop \/ Da3 \/ Move \/ Read \/ Emit
  BY <1>4 DEF Start, StartFails, Finish, Ends, Pop, Da3, Da3LastPage, Da3Page, Da3PageFails, FallBack,
    Fails, Move, BrowseTo, BrowseToRefused, WalkUp, WalkDown, SkipBranch, Arrive, MoveFails, Read,
    Listing, Begin, NextBranch, EndBranches, NextItem, EndItems, IteratorFails, CallFails, PageRead,
    HasMore, Emit
<1>5. QED
  BY <1>2, <1>3, <1>4 DEF Next, Worker

LEMMA CoveredNext ==
  ASSUME OnceInv, FreshInv, Places, conf.scope \in Branches, skips \in Nat, Active', [Next]_vars,
         pc \in Reading \cup {"pop"} => Covered, pc' \in Reading \cup {"pop"}
  PROVE  Covered'
<1>1. pc' \notin {"done", "finish", "start"}
  BY DEF Reading, ViaDa2
<1>2. CASE UNCHANGED vars \/ Cancel \/ CloseReceiver
  <2>1. UNCHANGED <<conf, da3, pc, queue, work, nodes, rest, seen, skips, pruned>>
    BY <1>2 DEF vars, confVars, pageVars, resultVars, serverVars, Cancel, CloseReceiver
  <2>2. Covered
    BY <2>1
  <2>3. QED
    BY <2>1, <2>2 DEF Covered, AheadOf, Found, Continues
<1>3. CASE \/ StartFails \/ Da3PageFails \/ MoveFails \/ IteratorFails \/ CallFails \/ StopAtBoundary
           \/ Finish
  <2>1. pc' \in {"done", "finish"}
    BY <1>3 DEF StartFails, Da3PageFails, MoveFails, IteratorFails, CallFails, StopAtBoundary,
      Finish, Fails, Ends
  <2>2. QED
    BY <1>1, <2>1
<1>4. CASE Start \/ FallBack
  <2>1. pc' = "pop"
    BY <1>1, <1>4 DEF Start, FallBack, Ends
  <2>2. QED
    BY <1>4, <2>1, CoverFirst
<1>5. CASE \/ Pop \/ Da3LastPage \/ Da3Page \/ BrowseTo \/ BrowseToRefused \/ WalkUp \/ WalkDown
           \/ SkipBranch \/ Arrive \/ Begin \/ NextBranch \/ EndBranches \/ NextItem \/ EndItems
           \/ PageRead \/ HasMore \/ Emit \/ EndSlice
  <2>1. pc \in Reading \cup {"pop"}
    BY <1>5 DEF Pop, Da3LastPage, Da3Page, BrowseTo, BrowseToRefused, WalkUp, WalkDown, SkipBranch,
      AtShared, Arrive, Jumps, Walks, Begin, NextBranch, EndBranches, NextItem, EndItems, Listing,
      PageRead, HasMore, Emit, EndSlice, Reading, ViaDa2
  <2>2. Covered
    BY <2>1
  <2>3. CASE Pop
    BY <2>2, <2>3, CoverPop
  <2>4. CASE Da3LastPage \/ Da3Page
    BY <1>1, <2>2, <2>4, CoverDa3
  <2>5. CASE BrowseTo \/ BrowseToRefused \/ WalkUp \/ WalkDown \/ Arrive \/ PageRead
    BY <2>2, <2>5, CoverMoves
  <2>6. CASE SkipBranch
    BY <2>2, <2>6, CoverSkipBranch
  <2>7. CASE Begin
    BY <2>2, <2>7, CoverBegin
  <2>8. CASE NextBranch
    BY <2>2, <2>8, CoverNextBranch
  <2>9. CASE EndBranches
    BY <2>2, <2>9, CoverEndBranches
  <2>10. CASE NextItem
    BY <2>2, <2>10, CoverNextItem
  <2>11. CASE EndItems
    BY <2>2, <2>11, CoverEndItems
  <2>12. CASE HasMore
    BY <2>2, <2>12, CoverHasMore
  <2>13. CASE Emit
    BY <2>2, <2>13, CoverEmit DEF Active
  <2>14. CASE EndSlice
    <3>1. pc' = "pop"
      BY <1>1, <2>14 DEF EndSlice
    <3>2. QED
      BY <2>2, <2>14, <3>1, CoverEndSlice
  <2>15. QED
    BY <1>5, <2>3, <2>4, <2>5, <2>6, <2>7, <2>8, <2>9, <2>10, <2>11, <2>12, <2>13, <2>14
<1>6. QED
  BY <1>2, <1>3, <1>4, <1>5 DEF Next, Worker, Da3, Move, Read

\* A run that ends complete has nothing ahead.
LEMMA CompleteNext ==
  ASSUME OnceInv, FreshInv, CoverInv, [Next]_vars
  PROVE  NothingLostSilently'
<1> SUFFICES ASSUME ~Misnamed', outcome' = "completed",
                    terminal' = [cancelled |-> FALSE, truncated |-> FALSE],
                    NEW i \in ItemsBelow(conf.scope)'
             PROVE  (Id[i] \in Delivered \/ (skips > 0 /\ pruned \cap Above[i] # {}))'
  BY DEF NothingLostSilently
<1>1. conf' = conf /\ ~Misnamed /\ i \in ItemsBelow(conf.scope)
  BY ScopeKept DEF Misnamed
<1>2. "completed" # Nil /\ ~terminal'.cancelled /\ ~terminal'.truncated
  BY BoundsAssumption
<1>3. CASE outcome = "completed"
  <2>1. pc = "done"
    BY <1>2, <1>3 DEF OnceInv
  <2>2. UNCHANGED vars
    BY <1>2, <1>3, <2>1 DEF Next, Worker, Cancel, CloseReceiver, Start, Finish, StopAtBoundary,
      EndSlice, StartFails, Pop, Da3, Da3LastPage, Da3Page, Da3PageFails, FallBack, Move,
      BrowseTo, BrowseToRefused, WalkUp, WalkDown, SkipBranch, Arrive, MoveFails, Jumps, Walks,
      AtShared, Read, Listing, Begin, NextBranch, EndBranches, NextItem, EndItems, IteratorFails,
      CallFails, PageRead, HasMore, Emit
  <2>3. UNCHANGED <<terminal, emitted, skips, pruned>>
    BY <2>2 DEF vars, resultVars
  <2>4. Id[i] \in Delivered \/ (skips > 0 /\ pruned \cap Above[i] # {})
    BY <1>1, <1>3, <2>3 DEF CoverInv, NothingLostSilently
  <2>5. QED
    BY <2>3, <2>4 DEF Delivered
<1>4. CASE outcome # "completed"
  <2>1. Start \/ Finish
    BY <1>4 DEF Next, Worker, Cancel, CloseReceiver, vars, StopAtBoundary,
      EndSlice, StartFails, Pop, Da3, Da3LastPage, Da3Page, Da3PageFails, FallBack, Fails, Ends, Move,
      BrowseTo, BrowseToRefused, WalkUp, WalkDown, SkipBranch, Arrive, MoveFails,
      Read, Begin, NextBranch, EndBranches, NextItem, EndItems, IteratorFails,
      CallFails, PageRead, HasMore, Emit
  <2>2. terminal = [cancelled |-> terminal.cancelled, truncated |-> terminal.truncated]
    BY DEF OnceInv
  <2>3. ~Start
    <3> SUFFICES ASSUME Start PROVE FALSE
      OBVIOUS
    <3>1. outcome' = "completed" => terminal' = [terminal EXCEPT !.truncated = TRUE]
      BY <1>2 DEF Start, Ends
    <3>2. QED
      BY <1>2, <2>2, <3>1
  <2>4. /\ pc = "finish" \/ (pc = "pop" /\ queue = <<>>)
        /\ terminal' = [terminal EXCEPT !.cancelled = @ \/ cancelled]
        /\ UNCHANGED <<emitted, skips, pruned>>
    BY <2>1, <2>3 DEF Finish
  <2>5. ~terminal.cancelled /\ ~terminal.truncated /\ ~cancelled
    BY <1>2, <2>2, <2>4
  <2>6. pc = "pop" /\ Len(queue) = 0
    BY <2>4, <2>5, NoSeq DEF CoverInv, Stopped
  <2>7. SeenOut /\ Covered
    BY <1>1, <2>5, <2>6 DEF CoverInv, Active, Stopped
  <2>8. Found(i)
    BY <1>1, <2>6, <2>7 DEF Covered, AheadOf, Reading, ViaDa2
  <2>9. CASE Id[i] \in seen
    <3>1. PICK k \in 1 .. Len(emitted) : emitted[k].id = Id[i]
      BY <2>7, <2>9 DEF SeenOut
    <3>2. k \in DOMAIN emitted
      BY <3>1, SeqElements DEF OnceInv
    <3>3. QED
      BY <2>4, <3>1, <3>2 DEF Delivered
  <2>10. CASE skips > 0 /\ pruned \cap Above[i] # {}
    BY <2>4, <2>10
  <2>11. QED
    BY <2>8, <2>9, <2>10 DEF Found
<1>5. QED
  BY <1>3, <1>4

LEMMA CoverNext == OnceInv /\ FreshInv /\ PlaceInv /\ CoverInv /\ [Next]_vars => CoverInv'
<1> SUFFICES ASSUME OnceInv, FreshInv, PlaceInv, CoverInv, [Next]_vars PROVE CoverInv'
  OBVIOUS
<1>1. skips' \in Nat
  BY SkipsCount DEF CoverInv
<1>2. (pc = "finish" => Stopped)'
  BY FinishStopped DEF CoverInv
<1>3. (Active => SeenOut)'
  BY SeenOutNext DEF CoverInv
<1>4. ASSUME ~Misnamed', Active', pc' \in Reading \cup {"pop"}
      PROVE  Covered'
  <2>1. ~Misnamed
    BY <1>4, ScopeKept DEF Misnamed
  <2>2. Active
    BY <1>4, ActiveBefore
  <2>3. Places /\ conf.scope \in Branches
    BY <2>1 DEF PlaceInv, Sound
  <2>4. skips \in Nat /\ (pc \in Reading \cup {"pop"} => Covered)
    BY <2>1, <2>2 DEF CoverInv
  <2>5. QED
    BY <1>4, <2>3, <2>4, CoveredNext
<1>5. NothingLostSilently'
  BY CompleteNext
<1>6. QED
  BY <1>1, <1>2, <1>3, <1>4, <1>5 DEF CoverInv, Reading, ViaDa2

\* An inventory that reports itself complete has delivered every item below its
\* scope, or has counted a skipped branch above it: no paging, fallback, walk of
\* the cursor, merged name or value read ahead loses one silently.
THEOREM CompleteMeansComplete == Spec => []NothingLostSilently
<1>1. CoverInv => NothingLostSilently
  BY DEF CoverInv
<1>2. QED
  BY <1>1, OnceInit, OnceNext, FreshInit, FreshNext, PlaceInit, PlaceNext, CoverInit, CoverNext, PTL
  DEF Spec

=============================================================================
