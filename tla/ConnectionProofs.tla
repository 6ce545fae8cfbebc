--------------------------- MODULE ConnectionProofs ---------------------------
(***************************************************************************)
(* Theorems about Connection, for any namespace, requests and bounds: what *)
(* requests leave behind on a connection for the next one.                 *)
(***************************************************************************)
EXTENDS Connection, FiniteSetTheorems, SequenceTheorems, TLAPS

USE DEF frameVars, resultVars, historyVars

-----------------------------------------------------------------------------
(* Groups. *)

\* The request has a group that it still can remove.
Held == IF pc \in {"items", "io", "remove"} THEN 1 ELSE 0

GroupsInv ==
  /\ groups \in Nat /\ faults \in Nat
  /\ Held <= groups
  /\ groups <= faults + Held

LEMMA SpendNat == ASSUME faults \in Nat, NEW n, Spend(n) PROVE faults' \in Nat /\ faults <= faults'
BY RequestsAssumption DEF Spend

\* After an error the request is over or starts again; it has no group then.
LEMMA FailsDropsGroup ==
  ASSUME NEW class, Fails(class)
  PROVE pc' \in {"idle", "connect"}
BY DEF Fails, Ends

LEMMA FaultsGrow ==
  ASSUME GroupsInv, faults' \in Nat, faults <= faults', groups' = groups, Held' = Held
  PROVE GroupsInv'
<1> DEFINE f == faults  g == faults'
<1>1. Held \in Nat
  BY DEF Held
<1>2. f \in Nat /\ g \in Nat /\ f <= g /\ groups \in Nat /\ groups <= f + Held
  BY DEF GroupsInv
<1>3. groups <= g + Held
  <2> HIDE DEF f, g
  <2> QED
    BY <1>1, <1>2
<1>4. QED
  BY <1>3 DEF GroupsInv

LEMMA InitGroups == Init => GroupsInv
BY DEF Init, GroupsInv, Held

LEMMA NextGroups == GroupsInv /\ [Next]_vars => GroupsInv'
<1> SUFFICES ASSUME GroupsInv, [Next]_vars PROVE GroupsInv'
  OBVIOUS
<1>1. CASE UNCHANGED vars
  BY <1>1 DEF GroupsInv, Held, vars
<1>2. CASE Take
  BY <1>2 DEF Take, GroupsInv, Held
<1>3. CASE Connect
  BY <1>3 DEF Connect, GroupsInv, Held
<1>4. CASE ConnectFails
  BY <1>4, SpendNat DEF ConnectFails, Ends, GroupsInv, Held
<1>5. CASE BeginFails
  BY <1>5, SpendNat, FailsDropsGroup DEF BeginFails, GroupsInv, Held
<1>6. CASE Browse
  <2>1. pc \in {"begin", "browse"} /\ groups' = groups
    BY <1>6 DEF Browse, BeginBrowse, ListBranches, ListLeaves, FrameFails, LeaveFrame, Descend,
      DescendRefused, Ascend, AscendRefused, ListFlat, EndBrowse, InFrame, Returned
  <2>2. pc' \in {"browse", "idle", "connect"}
    BY <1>6, FailsDropsGroup DEF Browse, BeginBrowse, ListBranches, ListLeaves, FrameFails,
      LeaveFrame, Descend, DescendRefused, Ascend, AscendRefused, ListFlat, EndBrowse, InFrame,
      Returned, Ends
  <2>3. faults' = faults \/ \E n : Spend(n)
    BY <1>6 DEF Browse, BeginBrowse, ListBranches, ListLeaves, FrameFails, LeaveFrame,
      Descend, DescendRefused, Ascend, AscendRefused, ListFlat, EndBrowse
  <2>4. faults' \in Nat /\ faults <= faults'
    BY <2>3, SpendNat DEF GroupsInv
  <2>5. Held' = Held
    BY <2>1, <2>2 DEF Held
  <2>6. QED
    BY <2>1, <2>4, <2>5, FaultsGrow
<1>7. CASE AddGroup
  BY <1>7 DEF AddGroup, GroupsInv, Held
<1>8. CASE AddItems
  <2>1. pc = "items" /\ pc' \in {"remove", "io"} /\ groups' = groups
    BY <1>8 DEF AddItems
  <2>2. faults' \in Nat /\ faults <= faults'
    BY <1>8, SpendNat DEF AddItems, GroupsInv
  <2>3. Held' = Held
    BY <2>1 DEF Held
  <2>4. QED
    BY <2>1, <2>2, <2>3, FaultsGrow
<1>9. CASE AddItemsMismatch
  <2>1. pc = "items" /\ groups' = groups /\ pc' \in {"remove", "idle", "connect"}
    BY <1>9, FailsDropsGroup DEF AddItemsMismatch
  <2>2. faults' = faults + 1 /\ faults' \in Nat
    BY <1>9, SpendNat DEF AddItemsMismatch, GroupsInv, Spend
  <2>3. QED
    BY <2>1, <2>2 DEF GroupsInv, Held
<1>10. CASE Io
  <2>1. pc = "io" /\ pc' = "remove" /\ groups' = groups
    BY <1>10 DEF Io
  <2>2. faults' \in Nat /\ faults <= faults'
    BY <1>10, SpendNat DEF Io, GroupsInv
  <2>3. Held' = Held
    BY <2>1 DEF Held
  <2>4. QED
    BY <2>1, <2>2, <2>3, FaultsGrow
<1>11. CASE IoFails
  <2>1. pc \in {"items", "io"} /\ groups' = groups /\ pc' \in {"idle", "connect"}
    BY <1>11, FailsDropsGroup DEF IoFails
  <2>2. faults' = faults + 1 /\ faults' \in Nat
    BY <1>11, SpendNat DEF IoFails, GroupsInv, Spend
  <2>3. QED
    BY <2>1, <2>2 DEF GroupsInv, Held
<1>12. CASE RemoveGroup
  <2>1. pc = "remove" /\ pc' \in {"idle", "connect"}
    BY <1>12, FailsDropsGroup DEF RemoveGroup, Ends
  <2>2. \/ groups' = groups - 1 /\ faults' = faults
        \/ groups' = groups /\ faults' = faults + 1
    BY <1>12 DEF RemoveGroup, GroupsLeft, Spend
  <2>3. QED
    BY <2>1, <2>2 DEF GroupsInv, Held
<1>13. CASE GroupUnusable
  <2>1. pc = "begin" /\ groups' = groups + 1 /\ pc' \in {"idle", "connect"}
    BY <1>13, FailsDropsGroup DEF GroupUnusable
  <2>2. faults' = faults + 1 /\ faults' \in Nat
    BY <1>13, SpendNat DEF GroupUnusable, GroupsInv, Spend
  <2>3. QED
    BY <2>1, <2>2 DEF GroupsInv, Held
<1>14. QED
  BY <1>1, <1>2, <1>3, <1>4, <1>5, <1>6, <1>7, <1>8, <1>9, <1>10, <1>11, <1>12, <1>13
  DEF Next, Worker, Group

\* However many requests a connection serves, a group is left on it only for a
\* call that the server failed.
THEOREM GroupsAreExplained == Spec => []GroupsExplained
<1>1. GroupsInv => GroupsExplained
  BY DEF GroupsInv, Held, GroupsExplained
<1>2. QED
  BY InitGroups, NextGroups, <1>1, PTL DEF Spec

-----------------------------------------------------------------------------
(* The browse cursor. *)

\* The node n-1 levels below the root that c is.
Path(c, n) ==
  \E p \in [1 .. n -> Nodes] :
    p[1] = Root /\ p[n] = c /\ \A i \in 1 .. n - 1 : p[i + 1] \in KidsOf(p[i])

\* Levels from the root to the cursor, counting both: one per frame, and the
\* one of the frame that has just been left, for which the caller moves up.
Level == Len(stack) + (IF ret = Nil THEN 0 ELSE 1)

CursorInv ==
  /\ \E S : stack \in Seq(S)
  /\ pc = "connect" => ~open
  /\ pc \notin {"idle", "connect"} => open
  /\ open /\ pc # "browse" /\ ~adrift => cursor = Root
  /\ pc = "browse" => Level \in Nat \ {0} /\ (~adrift => Path(cursor, Level))

LEMMA RootPath == Path(Root, 1)
<1> DEFINE p == [i \in 1 .. 1 |-> Root]
<1>1. Root \in Nodes
  BY NamespaceAssumption
<1>2. p \in [1 .. 1 -> Nodes] /\ p[1] = Root /\ 1 .. 1 - 1 = {}
  BY <1>1
<1>3. QED
  BY <1>2 DEF Path

LEMMA KidsAreNodes == ASSUME NEW c \in Nodes PROVE KidsOf(c) \subseteq Nodes
<1>1. Kids[c] \in Seq(Nodes)
  BY NamespaceAssumption
<1>2. \A i \in DOMAIN Kids[c] : Kids[c][i] \in Nodes
  BY <1>1, ElementOfSeq, LenProperties
<1>3. QED
  BY <1>2 DEF KidsOf, ToSet

\* A child's parent is the node it was reached from.
LEMMA ParentOfKid == ASSUME NEW c \in Nodes, NEW k \in KidsOf(c) PROVE Parent(k) = c
<1>1. \A p \in Nodes : k \in KidsOf(p) => p = c
  BY NamespaceAssumption
<1>2. QED
  BY <1>1 DEF Parent

LEMMA PathDown ==
  ASSUME NEW n \in Nat \ {0}, NEW c, Path(c, n), NEW k \in KidsOf(c)
  PROVE Path(k, n + 1)
<1>1. PICK p \in [1 .. n -> Nodes] :
        p[1] = Root /\ p[n] = c /\ \A i \in 1 .. n - 1 : p[i + 1] \in KidsOf(p[i])
  BY DEF Path
<1> DEFINE q == [i \in 1 .. n + 1 |-> IF i = n + 1 THEN k ELSE p[i]]
<1>2. c \in Nodes /\ k \in Nodes
  BY <1>1, KidsAreNodes
<1>3. q \in [1 .. n + 1 -> Nodes]
  BY <1>1, <1>2
<1>4. q[1] = Root /\ q[n + 1] = k
  BY <1>1
<1>5. ASSUME NEW i \in 1 .. (n + 1) - 1 PROVE q[i + 1] \in KidsOf(q[i])
  <2>1. CASE i = n
    <3>1. q[i] = c /\ q[i + 1] = k
      BY <2>1, <1>1
    <3>2. QED
      BY <3>1
  <2>2. CASE i # n
    <3>1. i \in 1 .. n - 1 /\ q[i] = p[i] /\ q[i + 1] = p[i + 1]
      BY <2>2
    <3>2. QED
      BY <3>1, <1>1
  <2>3. QED
    BY <2>1, <2>2
<1>6. QED
  BY <1>3, <1>4, <1>5 DEF Path

LEMMA PathUp ==
  ASSUME NEW n \in Nat \ {0, 1}, NEW c, Path(c, n)
  PROVE Path(Parent(c), n - 1)
<1>1. PICK p \in [1 .. n -> Nodes] :
        p[1] = Root /\ p[n] = c /\ \A i \in 1 .. n - 1 : p[i + 1] \in KidsOf(p[i])
  BY DEF Path
<1> DEFINE q == [i \in 1 .. n - 1 |-> p[i]]
<1>2. q \in [1 .. n - 1 -> Nodes] /\ q[1] = Root
  BY <1>1
<1>3. p[n - 1] \in Nodes /\ c \in KidsOf(p[n - 1])
  <2>1. n - 1 \in 1 .. n - 1 /\ n - 1 \in 1 .. n /\ (n - 1) + 1 = n
    OBVIOUS
  <2>2. QED
    BY <2>1, <1>1
<1>4. q[n - 1] = Parent(c)
  BY <1>3, ParentOfKid
<1>5. \A i \in 1 .. (n - 1) - 1 : q[i + 1] \in KidsOf(q[i])
  BY <1>1
<1>6. QED
  BY <1>2, <1>4, <1>5 DEF Path

LEMMA PathTop == ASSUME NEW c, Path(c, 1) PROVE c = Root
BY DEF Path

\* What the sequence operators do to the length of the stack.
LEMMA FrontAppend ==
  ASSUME NEW S, NEW s \in Seq(S), s # <<>>, NEW e
  PROVE /\ Front(s) \in Seq(S) /\ Len(Front(s)) = Len(s) - 1
        /\ Append(Front(s), e) \in Seq(S \cup {e})
        /\ Len(Append(Front(s), e)) = Len(s)
<1>1. Len(s) \in Nat \ {0}
  BY EmptySeq, LenProperties
<1>2. Front(s) \in Seq(S) /\ Len(Front(s)) = Len(s) - 1
  <2> DEFINE m == Len(s) - 1
  <2>1. m \in Nat /\ \A i \in 1 .. m : s[i] \in S
    BY <1>1, ElementOfSeq
  <2>2. SubSeq(s, 1, m) \in Seq(S) /\ Len(SubSeq(s, 1, m)) = IF 1 <= m THEN m - 1 + 1 ELSE 0
    BY <2>1, SubSeqProperties
  <2>3. Front(s) = SubSeq(s, 1, m)
    BY DEF Front
  <2>4. Len(SubSeq(s, 1, m)) = m
    <3> HIDE DEF m
    <3> QED
      BY <2>1, <2>2
  <2>5. QED
    BY <2>2, <2>3, <2>4
<1>3. Front(s) \in Seq(S \cup {e})
  BY <1>2
<1>4. QED
  BY <1>1, <1>2, <1>3, AppendProperties

\* However deep it is called, browse_recursive owes its caller one level.
LEMMA EnterLevel ==
  ASSUME NEW S, NEW frames \in Seq(S), NEW at, Enter(frames, at)
  PROVE /\ \E T : stack' \in Seq(T)
        /\ Level' = Len(frames) + 1
<1>1. CASE stack' = frames /\ ret' = "ok"
  BY <1>1, RequestsAssumption, LenProperties DEF Level
<1>2. CASE stack' = Append(frames, Frame(at)) /\ ret' = Nil
  <2>1. frames \in Seq(S \cup {Frame(at)})
    OBVIOUS
  <2>2. stack' \in Seq(S \cup {Frame(at)}) /\ Len(stack') = Len(frames) + 1
    BY <1>2, <2>1, AppendProperties
  <2>3. Len(frames) \in Nat
    BY LenProperties
  <2>4. QED
    BY <1>2, <2>2, <2>3 DEF Level
<1>3. QED
  BY <1>1, <1>2 DEF Enter

LEMMA InitCursor == Init => CursorInv
<1> SUFFICES ASSUME Init PROVE CursorInv
  OBVIOUS
<1>1. stack \in Seq({})
  BY DEF Init
<1>2. QED
  BY <1>1 DEF Init, CursorInv

\* A step inside a frame, and one out of it, owe the caller what was owed.
LEMMA FrameLevel ==
  ASSUME NEW S, stack \in Seq(S), stack # <<>>, ret = Nil,
         NEW frame, NEW result \in {"ok", "stuck", "other", "connection"},
         Stay(frame) \/ Return(result)
  PROVE /\ \E T : stack' \in Seq(T)
        /\ Level' = Level
<1>1. Len(stack) \in Nat
  BY LenProperties
<1>2. CASE Stay(frame)
  <2>1. stack' \in Seq(S \cup {frame}) /\ Len(stack') = Len(stack) /\ ret' = Nil
    BY <1>2, FrontAppend DEF Stay
  <2>2. QED
    BY <2>1 DEF Level
<1>3. CASE Return(result)
  <2>1. stack' \in Seq(S) /\ Len(stack') = Len(stack) - 1 /\ ret' # Nil
    BY <1>3, FrontAppend, RequestsAssumption DEF Return
  <2>2. QED
    BY <1>1, <2>1 DEF Level
<1>4. QED
  BY <1>2, <1>3

\* The steps of a frame that move no cursor.
InPlace ==
  ListBranches \/ ListLeaves \/ FrameFails \/ LeaveFrame \/ DescendRefused \/ ListFlat

Outcome == {"ok", "stuck", "other", "connection"}

LEMMA InPlaceFrame ==
  ASSUME InPlace
  PROVE /\ pc = "browse" /\ pc' = pc /\ ret = Nil
        /\ UNCHANGED <<open, cursor, adrift>>
        /\ (\E frame : Stay(frame)) \/ (\E result \in Outcome : Return(result))
<1>1. CASE ListBranches
  BY <1>1 DEF ListBranches, InFrame, Outcome
<1>2. CASE ListLeaves
  <2>1. PICK x \in Fetches(Top.it) :
          \/ Stay([Top EXCEPT !.it = x.f.it])
          \/ Stay([Top EXCEPT !.phase = "down"])
          \/ Return(IF x.f.res.kind = "stuck" THEN "stuck" ELSE "other")
    BY <1>2 DEF ListLeaves
  <2>2. QED
    BY <1>2, <2>1 DEF ListLeaves, InFrame, Outcome
<1>3. CASE FrameFails
  BY <1>3 DEF FrameFails, InFrame, Outcome, Class
<1>4. CASE LeaveFrame
  BY <1>4 DEF LeaveFrame, InFrame, Outcome
<1>5. CASE DescendRefused
  BY <1>5 DEF DescendRefused, InFrame, Outcome
<1>6. CASE ListFlat
  BY <1>6 DEF ListFlat, InFrame, Outcome, Class
<1>7. QED
  BY <1>1, <1>2, <1>3, <1>4, <1>5, <1>6 DEF InPlace

LEMMA BrowseCursor == CursorInv /\ Browse => CursorInv'
<1> SUFFICES ASSUME CursorInv, Browse PROVE CursorInv'
  OBVIOUS
<1>0. PICK S : stack \in Seq(S)
  BY DEF CursorInv
<1>1. CASE BeginBrowse
  <2>1. pc' = "browse" /\ open /\ UNCHANGED <<open, cursor, adrift>> /\ (~adrift => cursor = Root)
    BY <1>1 DEF BeginBrowse, CursorInv
  <2>2. (\E T : stack' \in Seq(T)) /\ Level' = 1
    <3>1. CASE flat
      <4> DEFINE frame == [phase |-> "flat", todo |-> <<>>,
                            it |-> Iterator(SetToSeq({Id[i] : i \in ItemsBelow(Root)}))]
      <4>1. stack' = <<frame>> /\ ret' = Nil
        BY <1>1, <3>1 DEF BeginBrowse
      <4> HIDE DEF frame
      <4>2. stack' \in Seq({frame}) /\ Len(stack') = 1
        BY <4>1
      <4>3. \E T : stack' \in Seq(T)
        BY <4>2
      <4>4. Level' = 1
        BY <4>1, <4>2 DEF Level
      <4>5. QED
        BY <4>3, <4>4
    <3>2. CASE ~flat
      <4>1. Enter(<<>>, cursor)
        BY <1>1, <3>2 DEF BeginBrowse
      <4>2. <<>> \in Seq({}) /\ Len(<<>>) = 0
        OBVIOUS
      <4>3. (\E T : stack' \in Seq(T)) /\ Level' = 0 + 1
        BY <4>1, <4>2, EnterLevel
      <4>4. QED
        BY <4>3
    <3>3. QED
      BY <3>1, <3>2
  <2>3. ~adrift' => Path(cursor, 1)'
    BY <2>1, RootPath DEF Path
  <2>4. QED
    BY <2>1, <2>2, <2>3 DEF CursorInv
<1>2. CASE InPlace
  <2>1. /\ pc = "browse" /\ pc' = pc /\ ret = Nil
        /\ UNCHANGED <<open, cursor, adrift>>
        /\ (\E frame : Stay(frame)) \/ (\E result \in Outcome : Return(result))
    BY <1>2, InPlaceFrame
  <2>2. stack # <<>>
    BY <2>1, EmptySeq DEF CursorInv, Level
  <2>3. (\E T : stack' \in Seq(T)) /\ Level' = Level
    BY <1>0, <2>1, <2>2, FrameLevel DEF Outcome
  <2>4. Path(cursor, Level)' <=> Path(cursor, Level)
    BY <2>1, <2>3 DEF Path
  <2>5. QED
    BY <2>1, <2>3, <2>4 DEF CursorInv
<1>3. CASE Descend
  <2> DEFINE frames == Append(Front(stack), [Top EXCEPT !.todo = Tail(@)])
  <2>1. /\ pc = "browse" /\ pc' = pc /\ ret = Nil
        /\ cursor' \in KidsOf(cursor) /\ UNCHANGED <<open, adrift>>
        /\ Enter(frames, cursor')
    BY <1>3 DEF Descend, InFrame, ChildNamed
  <2>2. stack # <<>> /\ Len(stack) \in Nat \ {0}
    BY <1>0, <2>1, EmptySeq, LenProperties DEF CursorInv, Level
  <2>3. PICK T : frames \in Seq(T) /\ Len(frames) = Len(stack)
    BY <1>0, <2>2, FrontAppend
  <2>4. (\E U : stack' \in Seq(U)) /\ Level' = Len(stack) + 1
    <3> HIDE DEF frames
    <3> QED
      BY <2>1, <2>3, EnterLevel
  <2>5. Level = Len(stack)
    BY <2>1, <2>2 DEF Level
  <2>6. ~adrift => Path(cursor', Level')
    <3> SUFFICES ASSUME ~adrift PROVE Path(cursor', Level')
      OBVIOUS
    <3>1. Path(cursor, Len(stack))
      BY <2>1, <2>5 DEF CursorInv
    <3>2. Path(cursor', Len(stack) + 1)
      BY <2>1, <2>2, <3>1, PathDown
    <3>3. QED
      BY <2>4, <3>2
  <2>7. Level' \in Nat \ {0}
    BY <2>2, <2>4
  <2>8. Path(cursor, Level)' <=> Path(cursor', Level')
    BY DEF Path
  <2>9. QED
    BY <2>1, <2>4, <2>6, <2>7, <2>8 DEF CursorInv
<1>4. CASE Ascend
  <2>1. /\ pc = "browse" /\ pc' = pc /\ ret # Nil /\ stack # <<>>
        /\ cursor' = Parent(cursor) /\ UNCHANGED <<open, adrift>>
        /\ (Return("stuck") \/ (stack' = stack /\ ret' = Nil))
    BY <1>4 DEF Ascend, Returned, UpTarget
  <2>2. Len(stack) \in Nat \ {0} /\ Level = Len(stack) + 1
    BY <1>0, <2>1, EmptySeq, LenProperties DEF Level
  <2>3. (\E T : stack' \in Seq(T)) /\ Level' = Len(stack)
    <3>1. CASE Return("stuck")
      <4>1. stack' \in Seq(S) /\ Len(stack') = Len(stack) - 1 /\ ret' # Nil
        BY <1>0, <2>1, <3>1, FrontAppend, RequestsAssumption DEF Return
      <4>2. QED
        BY <2>2, <4>1 DEF Level
    <3>2. CASE stack' = stack /\ ret' = Nil
      BY <1>0, <2>2, <3>2 DEF Level
    <3>3. QED
      BY <2>1, <3>1, <3>2
  <2>4. ~adrift => Path(cursor', Level')
    <3> SUFFICES ASSUME ~adrift PROVE Path(cursor', Level')
      OBVIOUS
    <3> DEFINE n == Len(stack) + 1
    <3>1. n \in Nat \ {0, 1} /\ n - 1 = Len(stack)
      BY <2>2
    <3>2. Path(cursor, n)
      BY <2>1, <2>2 DEF CursorInv
    <3> HIDE DEF n
    <3>3. Path(Parent(cursor), n - 1)
      BY <3>1, <3>2, PathUp
    <3>4. QED
      BY <2>1, <2>3, <3>1, <3>3
  <2>5. Level' \in Nat \ {0}
    BY <2>2, <2>3
  <2>6. Path(cursor, Level)' <=> Path(cursor', Level')
    BY DEF Path
  <2>7. QED
    BY <2>1, <2>3, <2>4, <2>5, <2>6 DEF CursorInv
<1>5. CASE AscendRefused
  <2>1. /\ pc = "browse" /\ pc' = pc /\ ret # Nil /\ stack # <<>>
        /\ adrift' = TRUE /\ open' = open
        /\ \E result \in Outcome : Return(result)
    BY <1>5 DEF AscendRefused, Returned, Outcome
  <2>2. stack' \in Seq(S) /\ Len(stack') = Len(stack) - 1 /\ ret' # Nil
    BY <1>0, <2>1, FrontAppend, RequestsAssumption DEF Return, Outcome
  <2>3. Len(stack) \in Nat \ {0}
    BY <1>0, <2>1, EmptySeq, LenProperties
  <2>4. Level' \in Nat \ {0}
    BY <2>2, <2>3 DEF Level
  <2>5. QED
    BY <2>1, <2>2, <2>4 DEF CursorInv
<1>6. CASE EndBrowse
  <2>1. /\ pc = "browse" /\ ret # Nil /\ stack = <<>> /\ UNCHANGED <<cursor, adrift>>
        /\ \/ pc' = "idle" /\ UNCHANGED <<open, stack>>
           \/ pc' = "connect" /\ open' = FALSE /\ stack' = <<>>
    BY <1>6 DEF EndBrowse, Ends, Fails, Fresh
  <2>2. Len(stack) = 0
    BY <2>1
  <2>3. Level = 1
    BY <2>1, <2>2 DEF Level
  <2>4. ~adrift => cursor = Root
    BY <2>1, <2>3, PathTop DEF CursorInv
  <2>5. stack' = stack
    BY <2>1
  <2>6. \E T : stack' \in Seq(T)
    BY <1>0, <2>5
  <2>7. QED
    BY <2>1, <2>4, <2>6 DEF CursorInv
<1>7. QED
  BY <1>1, <1>2, <1>3, <1>4, <1>5, <1>6 DEF Browse, InPlace

LEMMA FailsKeepsCursor ==
  ASSUME CursorInv, pc \notin {"idle", "connect", "browse"}, NEW class, Fails(class),
         UNCHANGED <<cursor, adrift>>
  PROVE CursorInv'
<1>1. CASE pc' = "idle" /\ UNCHANGED <<open, stack>>
  BY <1>1 DEF CursorInv
<1>2. CASE pc' = "connect" /\ open' = FALSE /\ stack' = <<>>
  <2>1. stack' \in Seq({})
    BY <1>2
  <2>2. QED
    BY <1>2, <2>1 DEF CursorInv
<1>3. QED
  BY <1>1, <1>2 DEF Fails, Ends, Fresh

LEMMA NextCursor == CursorInv /\ [Next]_vars => CursorInv'
<1> SUFFICES ASSUME CursorInv, [Next]_vars PROVE CursorInv'
  OBVIOUS
<1>1. CASE UNCHANGED vars
  BY <1>1 DEF CursorInv, Level, Path, vars
<1>2. CASE Take
  <2>1. <<>> \in Seq({})
    OBVIOUS
  <2>2. stack' \in Seq({})
    BY <1>2, <2>1 DEF Take, Fresh
  <2>3. QED
    BY <1>2, <2>2 DEF Take, CursorInv
<1>3. CASE Connect
  BY <1>3 DEF Connect, CursorInv
<1>4. CASE ConnectFails
  BY <1>4 DEF ConnectFails, Ends, CursorInv
<1>5. CASE BeginFails
  BY <1>5, FailsKeepsCursor DEF BeginFails
<1>6. CASE Browse
  BY <1>6, BrowseCursor
<1>7. CASE AddGroup
  BY <1>7 DEF AddGroup, CursorInv
<1>8. CASE AddItems
  BY <1>8 DEF AddItems, CursorInv
<1>9. CASE AddItemsMismatch
  <2>1. CASE job.req.kind = "read"
    BY <1>9, <2>1 DEF AddItemsMismatch, CursorInv
  <2>2. CASE job.req.kind # "read"
    BY <1>9, <2>2, FailsKeepsCursor DEF AddItemsMismatch
  <2>3. QED
    BY <2>1, <2>2
<1>10. CASE Io
  BY <1>10 DEF Io, CursorInv
<1>11. CASE IoFails
  BY <1>11, FailsKeepsCursor DEF IoFails
<1>12. CASE RemoveGroup
  <2>1. CASE ret = "ok"
    BY <1>12, <2>1 DEF RemoveGroup, Ends, CursorInv
  <2>2. CASE ret # "ok"
    BY <1>12, <2>2, FailsKeepsCursor DEF RemoveGroup
  <2>3. QED
    BY <2>1, <2>2
<1>13. CASE GroupUnusable
  BY <1>13, FailsKeepsCursor DEF GroupUnusable
<1>14. QED
  BY <1>1, <1>2, <1>3, <1>4, <1>5, <1>6, <1>7, <1>8, <1>9, <1>10, <1>11, <1>12, <1>13
  DEF Next, Worker, Group

\* The next request finds the cursor at the root, wherever and however the
\* browse before it ended, unless the server refused a BROWSE_UP.
THEOREM CursorComesHome == Spec => []CursorHome
<1>1. CursorInv => CursorHome
  BY DEF CursorInv, CursorHome
<1>2. QED
  BY InitCursor, NextCursor, <1>1, PTL DEF Spec

-----------------------------------------------------------------------------
(* What a read answers. *)

Job == [req : Requests, attempt : {1, 2}, since : Nat, homed : BOOLEAN]

KnownItems == {i \in DOMAIN Want : Known(i)}

\* The job never had a fault, so far.
Clean == faults = job.since

\* values are those the request r wants, in its order, each the tag's own or the
\* sentinel; without a fault, the sentinel only for an item the server lacks.
Aligned(values, want, clean) ==
  /\ DOMAIN values = DOMAIN want
  /\ \A i \in DOMAIN values :
       /\ values[i] \in {Bad, want[i]}
       /\ clean => (values[i] = Bad <=> \A n \in Items : Id[n] # want[i])

ReadInv ==
  /\ faults \in Nat
  /\ pc # "idle" => job \in Job /\ job.since <= faults
  /\ pc = "browse" => job.req.kind = "browse"
  /\ pc = "io" =>
       /\ tags = [i \in DOMAIN Want |-> Bad]
       /\ \E S \in SUBSET KnownItems : added \in InOrder(S) /\ (Clean => S = KnownItems)
  /\ pc = "remove" /\ ret = "ok" => Aligned(tags, Want, Clean)
  /\ answer.req # Nil /\ answer.req.kind = "read" /\ answer.ok =>
       Aligned(answer.value, answer.req.want, answer.clean)

LEMMA RequestTypes ==
  ASSUME NEW r \in Requests
  PROVE /\ r.want \in Seq(STRING) /\ DOMAIN r.want = 1 .. Len(r.want) /\ Len(r.want) \in Nat
        /\ \A i \in DOMAIN r.want : r.want[i] # Bad
        /\ IsFiniteSet(DOMAIN r.want)
<1>1. r \in Request /\ \A i \in DOMAIN r.want : r.want[i] # Bad
  BY RequestsAssumption
<1>2. r.want \in Seq(STRING)
  BY <1>1 DEF Request
<1>3. DOMAIN r.want = 1 .. Len(r.want) /\ Len(r.want) \in Nat
  BY <1>2, LenProperties
<1>4. IsFiniteSet(DOMAIN r.want)
  BY <1>3, FS_Interval
<1>5. QED
  BY <1>1, <1>2, <1>3, <1>4

\* Nothing spent is nothing that failed.
LEMMA SpendNone ==
  ASSUME faults \in Nat, NEW S, IsFiniteSet(S), Spend(Cardinality(S))
  PROVE faults' = faults => S = {}
<1> DEFINE n == Cardinality(S)
<1>1. n \in Nat /\ (n = 0 <=> S = {})
  BY FS_CardinalityType, FS_EmptySet
<1>2. faults' = faults + n
  BY DEF Spend
<1>3. faults' = faults => n = 0
  <2> HIDE DEF n
  <2> QED
    BY <1>1, <1>2
<1>4. QED
  BY <1>1, <1>3

\* An ended request has answered nothing that a read would have to keep.
LEMMA FailsKeepsAnswers ==
  ASSUME ReadInv, pc # "idle", faults' \in Nat, faults <= faults', NEW class, Fails(class)
  PROVE ReadInv'
<1>1. job \in Job /\ job.since <= faults
  BY DEF ReadInv
<1>2. CASE class = "connection" /\ job.attempt = 1
  <2>1. /\ pc' = "connect" /\ answer' = answer
        /\ job' = [job EXCEPT !.attempt = 2, !.homed = TRUE]
    BY <1>2 DEF Fails
  <2>2. job' \in Job /\ job'.since = job.since
    BY <1>1, <2>1 DEF Job
  <2>3. job'.since <= faults'
    BY <1>1, <2>2 DEF Job, ReadInv
  <2>4. QED
    BY <2>1, <2>2, <2>3 DEF ReadInv
<1>3. CASE ~(class = "connection" /\ job.attempt = 1)
  <2>1. pc' = "idle" /\ answer'.ok = FALSE
    BY <1>3 DEF Fails, Ends
  <2>2. QED
    BY <2>1 DEF ReadInv
<1>4. QED
  BY <1>2, <1>3

LEMMA InitRead == Init => ReadInv
BY DEF Init, ReadInv, NoAnswer

LEMMA AddItemsRead == ReadInv /\ AddItems => ReadInv'
<1> SUFFICES ASSUME ReadInv, AddItems PROVE ReadInv'
  OBVIOUS
<1>1. PICK S \in SUBSET KnownItems :
        /\ Spend(Cardinality(KnownItems \ S))
        /\ tags' = [i \in DOMAIN Want |-> Bad]
        /\ added' \in InOrder(S)
        /\ pc' = IF S = {} THEN "remove" ELSE "io"
  BY DEF AddItems, KnownItems
<1>2. /\ pc = "items" /\ job' = job /\ answer' = answer /\ ret' = "ok"
      /\ job \in Job /\ job.since <= faults /\ faults \in Nat
  BY DEF AddItems, ReadInv
<1>3. job.req \in Requests /\ job.since \in Nat /\ Want = job.req.want
  BY <1>2 DEF Job, Want
<1>4. faults' \in Nat /\ faults <= faults'
  BY <1>1, <1>2, SpendNat
<1>5. Clean' => S = KnownItems
  <2>1. IsFiniteSet(KnownItems \ S)
    <3>1. IsFiniteSet(DOMAIN Want) /\ KnownItems \ S \subseteq DOMAIN Want
      BY <1>3, RequestTypes DEF KnownItems
    <3>2. QED
      BY <3>1, FS_Subset
  <2>2. Clean' => faults' = faults
    BY <1>2, <1>3, <1>4 DEF Clean
  <2>3. QED
    BY <1>1, <1>2, <2>1, <2>2, SpendNone
<1>6. Want' = Want /\ KnownItems' = KnownItems
  BY <1>2 DEF Want, KnownItems, Known
<1>7. pc' = "io" =>
        /\ tags' = [i \in DOMAIN Want' |-> Bad]
        /\ \E T \in SUBSET KnownItems' : added' \in InOrder(T) /\ (Clean' => T = KnownItems')
  BY <1>1, <1>5, <1>6
<1>8. pc' = "remove" => Aligned(tags', Want', Clean')
  <2> SUFFICES ASSUME pc' = "remove" PROVE Aligned(tags', Want', Clean')
    OBVIOUS
  <2>1. S = {}
    BY <1>1
  <2>2. tags' = [i \in DOMAIN Want |-> Bad]
    BY <1>1
  <2>3. ASSUME Clean', NEW i \in DOMAIN Want PROVE \A n \in Items : Id[n] # Want[i]
    BY <1>5, <2>1, <2>3 DEF KnownItems, Known
  <2>4. QED
    BY <1>6, <2>2, <2>3 DEF Aligned
<1>9. pc' # "idle" => job' \in Job /\ job'.since <= faults'
  BY <1>2, <1>3, <1>4
<1>10. pc' # "browse"
  BY <1>1
<1>11. QED
  BY <1>2, <1>4, <1>7, <1>8, <1>9, <1>10 DEF ReadInv

\* The k-th result is for the k-th item that was added, wherever that one is
\* among those asked for.
LEMMA ScatterAt ==
  ASSUME NEW S, NEW p \in InOrder(S), NEW values, NEW i \in DOMAIN values, NEW states
  PROVE /\ i \notin S => Scatter(values, p, states)[i] = values[i]
        /\ i \in S => \E k \in DOMAIN p : p[k] = i /\ Scatter(values, p, states)[i] = states[k]
<1>1. ToSet(p) = S
  BY DEF InOrder
<1>2. i \in S <=> \E k \in DOMAIN p : p[k] = i
  BY <1>1 DEF ToSet
<1>3. QED
  BY <1>2 DEF Scatter

LEMMA IoRead == ReadInv /\ Io => ReadInv'
<1> SUFFICES ASSUME ReadInv, Io PROVE ReadInv'
  OBVIOUS
<1> DEFINE States(failed) == [k \in DOMAIN added |-> IF k \in failed THEN Bad ELSE Want[added[k]]]
<1>1. PICK failed \in SUBSET DOMAIN added :
        /\ Spend(Cardinality(failed))
        /\ tags' = Scatter(tags, added, States(failed))
  BY DEF Io
<1>2. /\ pc = "io" /\ pc' = "remove" /\ UNCHANGED <<job, answer, added, ret>>
      /\ job \in Job /\ job.since <= faults /\ faults \in Nat
      /\ tags = [i \in DOMAIN Want |-> Bad]
  BY DEF Io, ReadInv
<1>3. PICK S \in SUBSET KnownItems : added \in InOrder(S) /\ (Clean => S = KnownItems)
  BY <1>2 DEF ReadInv
<1>4. job.req \in Requests /\ job.since \in Nat /\ Want = job.req.want
  BY <1>2 DEF Job, Want
<1>5. faults' \in Nat /\ faults <= faults'
  BY <1>1, <1>2, SpendNat
<1>6. Want' = Want
  BY <1>2 DEF Want
<1>7. Clean' => failed = {} /\ S = KnownItems
  <2>1. Clean' => faults' = faults /\ Clean
    BY <1>2, <1>4, <1>5 DEF Clean
  <2>2. IsFiniteSet(failed)
    <3>1. IsFiniteSet(DOMAIN Want) /\ S \subseteq DOMAIN Want
      BY <1>4, RequestTypes DEF KnownItems
    <3>2. IsFiniteSet(S)
      BY <3>1, FS_Subset
    <3>3. DOMAIN added = 1 .. Cardinality(S) /\ Cardinality(S) \in Nat
      BY <1>3, <3>2, FS_CardinalityType DEF InOrder
    <3>4. IsFiniteSet(DOMAIN added)
      BY <3>3, FS_Interval
    <3>5. QED
      BY <3>4, FS_Subset
  <2>3. QED
    BY <1>1, <1>2, <1>3, <2>1, <2>2, SpendNone
<1>8. DOMAIN tags' = DOMAIN Want
  BY <1>1, <1>2 DEF Scatter
<1>9. ASSUME NEW i \in DOMAIN Want
      PROVE /\ tags'[i] \in {Bad, Want[i]}
            /\ Clean' => (tags'[i] = Bad <=> \A n \in Items : Id[n] # Want[i])
  <2>1. Want[i] # Bad
    BY <1>4, RequestTypes
  <2>2. i \in KnownItems <=> \E n \in Items : Id[n] = Want[i]
    BY DEF KnownItems, Known
  <2>3. i \in DOMAIN tags /\ tags[i] = Bad
    BY <1>2
  <2>4. /\ i \notin S => tags'[i] = tags[i]
        /\ i \in S => \E k \in DOMAIN added : added[k] = i /\ tags'[i] = States(failed)[k]
    <3> DEFINE states == States(failed)
    <3>1. tags' = Scatter(tags, added, states)
      BY <1>1
    <3> HIDE DEF states
    <3>2. /\ i \notin S => Scatter(tags, added, states)[i] = tags[i]
          /\ i \in S => \E k \in DOMAIN added :
                          added[k] = i /\ Scatter(tags, added, states)[i] = states[k]
      BY <1>3, <2>3, ScatterAt
    <3>3. QED
      BY <3>1, <3>2 DEF states
  <2>5. i \in S => \E k \in DOMAIN added :
          added[k] = i /\ tags'[i] = IF k \in failed THEN Bad ELSE Want[i]
    BY <2>4
  <2>6. QED
    BY <1>7, <2>1, <2>2, <2>3, <2>4, <2>5
<1>10. Aligned(tags', Want', Clean')
  BY <1>6, <1>8, <1>9 DEF Aligned
<1>11. job' \in Job /\ job'.since <= faults'
  BY <1>2, <1>4, <1>5
<1>12. QED
  BY <1>2, <1>5, <1>10, <1>11 DEF ReadInv

\* The answer is taken from the values as they are once the group is gone; a
\* fault of the removal makes it less clean, never less aligned.
LEMMA RemoveGroupRead == ReadInv /\ RemoveGroup => ReadInv'
<1> SUFFICES ASSUME ReadInv, RemoveGroup PROVE ReadInv'
  OBVIOUS
<1>1. pc = "remove" /\ faults \in Nat /\ job \in Job /\ job.since <= faults
  BY DEF RemoveGroup, ReadInv
<1>2. faults' \in Nat /\ faults <= faults'
  BY <1>1, SpendNat DEF RemoveGroup
<1>3. CASE ret = "ok"
  <2>1. /\ pc' = "idle"
        /\ answer' = [req |-> job.req, ok |-> TRUE, value |-> tags,
                      clean |-> job.homed /\ faults' = job.since]
    BY <1>3 DEF RemoveGroup, Ends
  <2>2. Aligned(tags, Want, Clean)
    BY <1>1, <1>3 DEF ReadInv
  <2>3. faults' = job.since => Clean
    BY <1>1, <1>2 DEF Clean, Job
  <2>4. Aligned(tags, Want, job.homed /\ faults' = job.since)
    BY <2>2, <2>3 DEF Aligned
  <2>5. Aligned(answer'.value, answer'.req.want, answer'.clean)
    BY <2>1, <2>4 DEF Want
  <2>6. QED
    BY <1>2, <2>1, <2>5 DEF ReadInv
<1>4. CASE ret # "ok"
  <2>1. Fails(ret)
    BY <1>4 DEF RemoveGroup
  <2>2. QED
    BY <1>1, <1>2, <2>1, FailsKeepsAnswers
<1>5. QED
  BY <1>3, <1>4

LEMMA BrowseRead == ReadInv /\ Browse => ReadInv'
<1> SUFFICES ASSUME ReadInv, Browse PROVE ReadInv'
  OBVIOUS
<1>1. faults \in Nat /\ pc \in {"begin", "browse"} /\ job \in Job /\ job.since <= faults
      /\ job.req.kind = "browse"
  BY DEF Browse, BeginBrowse, ListBranches, ListLeaves, FrameFails, LeaveFrame, Descend,
    DescendRefused, Ascend, AscendRefused, ListFlat, EndBrowse, InFrame, Returned, ReadInv
<1>2. faults' \in Nat /\ faults <= faults'
  <2>1. faults' = faults \/ \E n : Spend(n)
    BY DEF Browse, BeginBrowse, ListBranches, ListLeaves, FrameFails, LeaveFrame,
      Descend, DescendRefused, Ascend, AscendRefused, ListFlat, EndBrowse
  <2>2. QED
    BY <1>1, <2>1, SpendNat
<1>3. CASE EndBrowse
  <2>1. CASE ret = "ok"
    BY <1>1, <1>2, <1>3, <2>1 DEF EndBrowse, Ends, ReadInv
  <2>2. CASE ret # "ok"
    BY <1>1, <1>2, <1>3, <2>2, FailsKeepsAnswers DEF EndBrowse
  <2>3. QED
    BY <2>1, <2>2
<1>4. CASE ~EndBrowse
  <2>1. pc' = "browse" /\ job' = job /\ answer' = answer
    BY <1>4 DEF Browse, BeginBrowse, ListBranches, ListLeaves, FrameFails, LeaveFrame, Descend,
      DescendRefused, Ascend, AscendRefused, ListFlat, InFrame, Returned
  <2>2. job'.since <= faults'
    BY <1>1, <1>2, <2>1 DEF Job
  <2>3. QED
    BY <1>1, <1>2, <2>1, <2>2 DEF ReadInv
<1>5. QED
  BY <1>3, <1>4

LEMMA NextRead == ReadInv /\ [Next]_vars => ReadInv'
<1> SUFFICES ASSUME ReadInv, [Next]_vars PROVE ReadInv'
  OBVIOUS
<1>1. CASE UNCHANGED vars
  BY <1>1 DEF ReadInv, Aligned, Clean, KnownItems, Known, Want, vars
<1>2. CASE Take
  <2>1. PICK r \in Requests : job' = [req |-> r, attempt |-> 1, since |-> faults,
                                      homed |-> ~open \/ ~adrift]
    BY <1>2 DEF Take
  <2>2. faults \in Nat /\ UNCHANGED <<faults, answer>> /\ pc' \in {"begin", "connect"}
    BY <1>2 DEF Take, ReadInv
  <2>3. job' \in Job /\ job'.since = faults
    BY <2>1, <2>2 DEF Job
  <2>4. QED
    BY <2>2, <2>3 DEF ReadInv
<1>3. CASE Connect
  BY <1>3 DEF Connect, ReadInv
<1>4. CASE ConnectFails
  BY <1>4, SpendNat DEF ConnectFails, Ends, ReadInv
<1>5. CASE BeginFails \/ GroupUnusable \/ IoFails
  <2>1. pc # "idle" /\ Spend(1) /\ \E class \in Class : Fails(class)
    BY <1>5 DEF BeginFails, GroupUnusable, IoFails
  <2>2. faults' \in Nat /\ faults <= faults'
    BY <2>1, SpendNat DEF ReadInv
  <2>3. QED
    BY <2>1, <2>2, FailsKeepsAnswers
<1>6. CASE Browse
  BY <1>6, BrowseRead
<1>7. CASE AddGroup
  BY <1>7 DEF AddGroup, ReadInv
<1>8. CASE AddItems
  BY <1>8, AddItemsRead
<1>9. CASE AddItemsMismatch
  <2>1. pc = "items" /\ faults' \in Nat /\ faults <= faults' /\ job \in Job /\ job.since <= faults
    BY <1>9, SpendNat DEF AddItemsMismatch, ReadInv
  <2>2. CASE job.req.kind = "read"
    <3>1. pc' = "remove" /\ ret' = "other" /\ UNCHANGED <<job, answer>>
      BY <1>9, <2>2 DEF AddItemsMismatch
    <3>2. job'.since <= faults'
      BY <2>1, <3>1 DEF Job, ReadInv
    <3>3. QED
      BY <2>1, <3>1, <3>2 DEF ReadInv
  <2>3. CASE job.req.kind # "read"
    BY <1>9, <2>1, <2>3, FailsKeepsAnswers DEF AddItemsMismatch
  <2>4. QED
    BY <2>2, <2>3
<1>10. CASE Io
  BY <1>10, IoRead
<1>11. CASE RemoveGroup
  BY <1>11, RemoveGroupRead
<1>12. QED
  BY <1>1, <1>2, <1>3, <1>4, <1>5, <1>6, <1>7, <1>8, <1>9, <1>10, <1>11
  DEF Next, Worker, Group

\* However many tags a read asks for and whichever of them the server rejects,
\* every value is at the place of its tag.
THEOREM ReadIsAligned == Spec => []ReadAligned
<1>1. ReadInv => ReadAligned
  BY DEF ReadInv, ReadAligned, Answered, Aligned
<1>2. QED
  BY InitRead, NextRead, <1>1, PTL DEF Spec

-----------------------------------------------------------------------------
(* Sequences. *)

IsSeq(s) == s \in Seq(ToSet(s))

LEMMA SeqIsSeq == ASSUME NEW S, NEW s \in Seq(S) PROVE IsSeq(s)
<1>1. s \in [1 .. Len(s) -> S] /\ Len(s) \in Nat
  BY LenProperties
<1>2. s \in [1 .. Len(s) -> ToSet(s)]
  BY <1>1 DEF ToSet
<1>3. QED
  BY <1>1, <1>2 DEF IsSeq

LEMMA AppendSeq ==
  ASSUME NEW s, IsSeq(s), NEW e
  PROVE  /\ IsSeq(Append(s, e)) /\ Append(s, e) # <<>>
         /\ Len(s) \in Nat /\ Len(Append(s, e)) = Len(s) + 1
         /\ \A i \in 1 .. Len(s) : Append(s, e)[i] = s[i]
         /\ Append(s, e)[Len(s) + 1] = e
<1> DEFINE S == ToSet(s) \cup {e}
<1>1. s \in Seq(S) /\ e \in S
  BY SeqMonotonic DEF IsSeq
<1>2. Append(s, e) \in Seq(S)
  BY <1>1, AppendProperties
<1>3. Len(s) \in Nat
  BY <1>1, LenProperties
<1>4. /\ Append(s, e) # <<>> /\ Len(Append(s, e)) = Len(s) + 1
      /\ \A i \in 1 .. Len(s) : Append(s, e)[i] = s[i]
      /\ Append(s, e)[Len(s) + 1] = e
  <2> HIDE DEF S
  <2> QED
    BY <1>1, AppendProperties
<1>5. IsSeq(Append(s, e))
  BY <1>2, SeqIsSeq
<1>6. QED
  BY <1>3, <1>4, <1>5

LEMMA NoSeq == IsSeq(<<>>) /\ Len(<<>>) = 0
BY EmptySeq DEF IsSeq

LEMMA SeqElements == ASSUME NEW s, IsSeq(s) PROVE DOMAIN s = 1 .. Len(s) /\ Len(s) \in Nat
BY LenProperties DEF IsSeq

LEMMA SameSeq ==
  ASSUME NEW s, NEW t, IsSeq(s), IsSeq(t), Len(s) = Len(t), \A i \in 1 .. Len(s) : s[i] = t[i]
  PROVE  s = t
<1> DEFINE S == ToSet(s) \cup ToSet(t)
<1>1. s \in Seq(S) /\ t \in Seq(S)
  BY SeqMonotonic DEF IsSeq
<1> HIDE DEF S
<1>2. QED
  BY <1>1, SeqEqual

LEMMA HeadTail ==
  ASSUME NEW s, IsSeq(s), s # <<>>
  PROVE  /\ Len(s) \in Nat \ {0} /\ Head(s) = s[1]
         /\ IsSeq(Tail(s)) /\ Len(Tail(s)) = Len(s) - 1
         /\ \A i \in 1 .. Len(Tail(s)) : Tail(s)[i] = s[i + 1]
<1> DEFINE S == ToSet(s)
<1>1. s \in Seq(S)
  BY DEF IsSeq
<1> HIDE DEF S
<1>2. Len(s) \in Nat \ {0}
  BY <1>1, EmptySeq
<1>3. Head(s) = s[1]
  BY <1>1, <1>2
<1>4. /\ Tail(s) \in Seq(S) /\ Len(Tail(s)) = Len(s) - 1
      /\ \A i \in 1 .. Len(Tail(s)) : Tail(s)[i] = s[i + 1]
  BY <1>1, HeadTailProperties
<1>5. IsSeq(Tail(s))
  BY <1>4, SeqIsSeq
<1>6. QED
  BY <1>2, <1>3, <1>4, <1>5

\* One name less.
LEMMA FrontSeq ==
  ASSUME NEW s, IsSeq(s), s # <<>>
  PROVE  /\ IsSeq(Front(s)) /\ Len(Front(s)) = Len(s) - 1 /\ Len(s) \in Nat \ {0}
         /\ \A i \in 1 .. Len(s) - 1 : Front(s)[i] = s[i]
         /\ s = Append(Front(s), Last(s))
<1> DEFINE S == ToSet(s)
           m == Len(s) - 1
<1>1. s \in Seq(S) /\ Len(s) \in Nat \ {0}
  BY HeadTail DEF IsSeq
<1> HIDE DEF S
<1>2. m \in Nat /\ \A i \in 1 .. m : s[i] \in S
  BY <1>1, ElementOfSeq
<1>3. /\ SubSeq(s, 1, m) \in Seq(S) /\ Len(SubSeq(s, 1, m)) = IF 1 <= m THEN m - 1 + 1 ELSE 0
      /\ \A i \in 1 .. m - 1 + 1 : SubSeq(s, 1, m)[i] = s[1 + i - 1]
  BY <1>2, SubSeqProperties
<1>4. Front(s) = SubSeq(s, 1, m)
  BY DEF Front
<1>5. Len(Front(s)) = m /\ \A i \in 1 .. m : Front(s)[i] = s[i]
  <2> HIDE DEF m
  <2> QED
    BY <1>2, <1>3, <1>4
<1>6. IsSeq(Front(s))
  BY <1>3, <1>4, SeqIsSeq
<1>7. s = Append(Front(s), Last(s))
  <2>1. /\ IsSeq(Append(Front(s), Last(s)))
        /\ Len(Append(Front(s), Last(s))) = Len(Front(s)) + 1
        /\ \A i \in 1 .. Len(Front(s)) : Append(Front(s), Last(s))[i] = Front(s)[i]
        /\ Append(Front(s), Last(s))[Len(Front(s)) + 1] = Last(s)
    BY <1>6, AppendSeq
  <2>2. Len(Append(Front(s), Last(s))) = Len(s)
    BY <1>1, <1>5, <2>1
  <2>3. \A i \in 1 .. Len(s) : i \in 1 .. Len(Front(s)) \/ i = Len(Front(s)) + 1
    BY <1>1, <1>5
  <2>4. \A i \in 1 .. Len(s) : s[i] = Append(Front(s), Last(s))[i]
    BY <1>1, <1>5, <2>1, <2>3 DEF Last
  <2>5. QED
    BY <2>1, <2>2, <2>4, SameSeq
<1>8. QED
  BY <1>1, <1>5, <1>6, <1>7

LEMMA RestSplit ==
  ASSUME NEW names, NEW s \in Seq(names), s # <<>>
  PROVE  /\ Head(s) \in names /\ Head(s) \in ToSet(s) /\ Tail(s) \in Seq(names)
         /\ ToSet(s) = ToSet(Tail(s)) \cup {Head(s)}
         /\ IsInjective(s) => IsInjective(Tail(s)) /\ Head(s) \notin ToSet(Tail(s))
<1>1. /\ Len(s) \in Nat \ {0} /\ Head(s) = s[1] /\ Tail(s) \in Seq(names)
      /\ Len(Tail(s)) = Len(s) - 1
      /\ \A i \in 1 .. Len(Tail(s)) : Tail(s)[i] = s[i + 1]
  BY EmptySeq, HeadTailProperties
<1>2. DOMAIN s = 1 .. Len(s) /\ DOMAIN Tail(s) = 1 .. Len(s) - 1
  BY <1>1, LenProperties
<1>3. \A i \in 1 .. Len(s) : i = 1 \/ (i - 1 \in 1 .. Len(s) - 1 /\ s[i] = Tail(s)[i - 1])
  <2>1. ASSUME NEW i \in 1 .. Len(s), i # 1
        PROVE  i - 1 \in 1 .. Len(s) - 1 /\ s[i] = Tail(s)[i - 1]
    <3>1. i - 1 \in 1 .. Len(s) - 1 /\ (i - 1) + 1 = i
      BY <1>1, <2>1
    <3>2. Tail(s)[i - 1] = s[(i - 1) + 1]
      BY <1>1, <3>1
    <3>3. QED
      BY <3>1, <3>2
  <2>2. QED
    BY <2>1
<1>4. Head(s) \in names /\ Head(s) \in ToSet(s)
  BY <1>1, <1>2 DEF ToSet
<1>5. ToSet(s) = ToSet(Tail(s)) \cup {Head(s)}
  <2>1. ToSet(Tail(s)) \subseteq ToSet(s)
    BY <1>1, <1>2 DEF ToSet
  <2>2. ASSUME NEW i \in 1 .. Len(s) PROVE s[i] \in ToSet(Tail(s)) \cup {Head(s)}
    BY <1>1, <1>2, <1>3 DEF ToSet
  <2>3. ToSet(s) \subseteq ToSet(Tail(s)) \cup {Head(s)}
    BY <1>2, <2>2 DEF ToSet
  <2>4. QED
    BY <1>4, <2>1, <2>3
<1>6. ASSUME IsInjective(s) PROVE IsInjective(Tail(s)) /\ Head(s) \notin ToSet(Tail(s))
  <2>1. \A i, j \in 1 .. Len(s) : s[i] = s[j] => i = j
    BY <1>2, <1>6 DEF IsInjective
  <2>2. \A i, j \in 1 .. Len(s) - 1 : Tail(s)[i] = Tail(s)[j] => i = j
    <3>1. ASSUME NEW i \in 1 .. Len(s) - 1, NEW j \in 1 .. Len(s) - 1, Tail(s)[i] = Tail(s)[j]
          PROVE  i = j
      <4>1. i + 1 \in 1 .. Len(s) /\ j + 1 \in 1 .. Len(s) /\ s[i + 1] = s[j + 1]
        BY <1>1, <3>1
      <4>2. i + 1 = j + 1
        BY <2>1, <4>1
      <4>3. QED
        BY <4>2
    <3>2. QED
      BY <3>1
  <2>3. \A i \in 1 .. Len(s) - 1 : Tail(s)[i] # s[1]
    <3>1. ASSUME NEW i \in 1 .. Len(s) - 1, Tail(s)[i] = s[1] PROVE FALSE
      <4>1. i + 1 \in 1 .. Len(s) /\ 1 \in 1 .. Len(s) /\ s[i + 1] = s[1] /\ i + 1 # 1
        BY <1>1, <3>1
      <4>2. QED
        BY <2>1, <4>1
    <3>2. QED
      BY <3>1
  <2>4. QED
    BY <1>1, <1>2, <2>2, <2>3 DEF IsInjective, ToSet
<1>7. QED
  BY <1>1, <1>4, <1>5, <1>6

LEMMA ListOfSet ==
  ASSUME NEW S, IsFiniteSet(S)
  PROVE  /\ SetToSeq(S) \in Seq(S) /\ ToSet(SetToSeq(S)) = S
         /\ IsInjective(SetToSeq(S))
<1> DEFINE n == Cardinality(S)
           f == SetToSeq(S)
<1>1. n \in Nat /\ ExistsBijection(1 .. n, S)
  BY FS_CardinalityType
<1>2. \E g \in [1 .. n -> S] : IsInjective(g)
  BY <1>1 DEF ExistsBijection, Bijection, Injection
<1>3. f \in [1 .. n -> S] /\ IsInjective(f)
  BY <1>2 DEF SetToSeq
<1>4. f \in Surjection(1 .. n, S)
  <2>1. f \in Injection(1 .. n, S)
    BY <1>3 DEF Injection
  <2>2. Cardinality(1 .. n) = n
    <3> HIDE DEF n
    <3>1. n \in Int /\ 1 \in Int
      BY <1>1
    <3>2. Cardinality(1 .. n) = IF 1 > n THEN 0 ELSE n - 1 + 1
      BY <3>1, FS_Interval, Zenon
    <3>3. QED
      BY <1>1, <3>2
  <2>3. Cardinality(1 .. n) = Cardinality(S)
    BY <2>2
  <2> HIDE DEF f, n
  <2>4. QED
    BY <2>1, <2>3, FS_Injection
<1> HIDE DEF f
<1>5. ToSet(f) = S
  BY <1>3, <1>4 DEF ToSet, Surjection
<1>6. f \in Seq(S)
  BY <1>1, <1>3
<1>7. QED
  BY <1>3, <1>5, <1>6 DEF f

LEMMA FiniteImage ==
  ASSUME NEW A, IsFiniteSet(A), NEW f
  PROVE  IsFiniteSet({f[x] : x \in A})
<1> DEFINE g == [x \in A |-> f[x]]
           B == {f[x] : x \in A}
<1>1. g \in Surjection(A, B)
  BY DEF Surjection
<1> HIDE DEF g, B
<1>2. IsFiniteSet(B)
  BY <1>1, FS_Surjection
<1>3. QED
  BY <1>2 DEF B

-----------------------------------------------------------------------------
(***************************************************************************)
(* The namespace: a node, its depth, and the nodes on the way to it.       *)
(* Induction over the depth is by the least number for which a statement   *)
(* fails.                                                                  *)
(***************************************************************************)

LEMMA LessWF == IsWellFoundedOn({ss \in Nat \X Nat : ss[1] < ss[2]}, Nat)
BY NatLessThanWellFounded DEF OpToRel

LEMMA LeastNat ==
  ASSUME NEW T, T \subseteq Nat, T # {}
  PROVE  \E x \in T : \A y \in T : x <= y
<1> DEFINE R == {ss \in Nat \X Nat : ss[1] < ss[2]}
<1>1. IsWellFoundedOn(R, Nat)
  BY LessWF
<1>2. \A x, y \in Nat : x < y => <<x, y>> \in R
  OBVIOUS
<1> HIDE DEF R
<1>3. PICK x \in T : \A y \in T : ~(<<y, x>> \in R)
  BY <1>1, WFMin
<1>4. ASSUME NEW y \in T PROVE x <= y
  <2>1. x \in Nat /\ y \in Nat
    OBVIOUS
  <2>2. ~(y < x)
    BY <1>2, <1>3, <2>1
  <2>3. QED
    BY <2>1, <2>2
<1>5. QED
  BY <1>4

LEMMA TrailType == ASSUME NEW n \in Nodes PROVE IsSeq(TrailTo[n]) /\ Len(TrailTo[n]) \in Nat
<1>1. TrailTo[n] \in Seq({Name[m] : m \in Nodes})
  BY TreeAssumption
<1>2. IsSeq(TrailTo[n])
  BY <1>1, SeqIsSeq
<1>3. QED
  BY <1>2, SeqElements

LEMMA RootTrail == Root \in Nodes /\ TrailTo[Root] = <<>> /\ Above[Root] = {}
BY NamespaceAssumption, TreeAssumption

LEMMA ParentFacts ==
  ASSUME NEW n \in Nodes, n # Root
  PROVE  /\ Parent(n) \in Nodes /\ n \in KidsOf(Parent(n)) /\ Parent(n) \in Branches
         /\ TrailTo[n] = Append(TrailTo[Parent(n)], Name[n])
         /\ Len(TrailTo[n]) = Len(TrailTo[Parent(n)]) + 1
         /\ Above[n] = Above[Parent(n)] \cup {Parent(n)}
<1>1. \E p \in Nodes : n \in KidsOf(p)
  BY TreeAssumption
<1>2. Parent(n) \in Nodes /\ n \in KidsOf(Parent(n))
  BY <1>1 DEF Parent
<1>3. Parent(n) \in Branches
  BY <1>2, NamespaceAssumption
<1>4. TrailTo[n] = Append(TrailTo[Parent(n)], Name[n])
  BY TreeAssumption
<1>5. Above[n] = Above[Parent(n)] \cup {Parent(n)}
  BY TreeAssumption
<1>6. Len(TrailTo[n]) = Len(TrailTo[Parent(n)]) + 1
  BY <1>2, <1>4, TrailType, AppendSeq
<1>7. QED
  BY <1>2, <1>3, <1>4, <1>5, <1>6

LEMMA KidFacts ==
  ASSUME NEW n \in Nodes, NEW k \in KidsOf(n)
  PROVE  /\ k \in Nodes /\ k # Root /\ Parent(k) = n
         /\ TrailTo[k] = Append(TrailTo[n], Name[k])
         /\ Above[k] = Above[n] \cup {n}
<1>1. Kids[n] \in Seq(Nodes)
  BY NamespaceAssumption
<1>2. \A i \in DOMAIN Kids[n] : Kids[n][i] \in Nodes
  BY <1>1, ElementOfSeq, LenProperties
<1>3. k \in Nodes
  BY <1>2 DEF KidsOf, ToSet
<1>4. k # Root
  BY NamespaceAssumption
<1>5. \A p \in Nodes : k \in KidsOf(p) => p = n
  BY NamespaceAssumption
<1>6. Parent(k) = n
  BY <1>5 DEF Parent
<1>7. QED
  BY <1>3, <1>4, <1>6, ParentFacts

\* On the way from n to a node below it there is a child of n.
LEMMA AboveStep ==
  ASSUME NEW i \in Nodes
  PROVE  /\ Above[i] \subseteq Branches
         /\ \A n \in Above[i] : \E c \in KidsOf(n) : c = i \/ c \in Above[i]
<1> DEFINE Good(a) == /\ Above[a] \subseteq Branches
                      /\ \A n \in Above[a] : \E c \in KidsOf(n) : c = a \/ c \in Above[a]
           T == {l \in Nat : \E a \in Nodes : ~Good(a) /\ Len(TrailTo[a]) = l}
<1>1. SUFFICES T = {}
  BY TrailType
<1>2. SUFFICES ASSUME T # {} PROVE FALSE
  OBVIOUS
<1>3. PICK l \in T : \A y \in T : l <= y
  <2>1. T \subseteq Nat
    OBVIOUS
  <2> HIDE DEF T
  <2>2. QED
    BY <1>2, <2>1, LeastNat
<1>4. PICK a \in Nodes : ~Good(a) /\ Len(TrailTo[a]) = l
  BY <1>3
<1>5. a # Root
  BY <1>4, RootTrail
<1>6. /\ Parent(a) \in Branches /\ Parent(a) \in Nodes /\ a \in KidsOf(Parent(a))
      /\ Above[a] = Above[Parent(a)] \cup {Parent(a)}
      /\ Len(TrailTo[a]) = Len(TrailTo[Parent(a)]) + 1 /\ Len(TrailTo[Parent(a)]) \in Nat
  BY <1>5, ParentFacts, TrailType
<1>7. Good(Parent(a))
  <2> SUFFICES ASSUME ~Good(Parent(a)) PROVE FALSE
    OBVIOUS
  <2>1. Len(TrailTo[Parent(a)]) \in T
    BY <1>6
  <2>2. l <= Len(TrailTo[Parent(a)])
    BY <1>3, <2>1
  <2>3. QED
    BY <1>4, <1>6, <2>2
<1>8. Good(a)
  BY <1>6, <1>7
<1>9. QED
  BY <1>4, <1>8

\* The names a new enumerator is to list.
LEMMA NamesListed ==
  ASSUME NEW n \in Nodes, NEW S
  PROVE  /\ NamesOf(n, S) \in Seq({Name[k] : k \in KidsOf(n) \cap S})
         /\ ToSet(NamesOf(n, S)) = {Name[k] : k \in KidsOf(n) \cap S}
         /\ IsInjective(NamesOf(n, S))
<1>1. KidsOf(n) \cap S \subseteq Nodes
  BY KidFacts
<1>2. IsFiniteSet(KidsOf(n) \cap S)
  BY <1>1, NamespaceAssumption, FS_Subset
<1>3. IsFiniteSet({Name[k] : k \in KidsOf(n) \cap S})
  BY <1>2, FiniteImage
<1>4. QED
  BY <1>3, ListOfSet DEF NamesOf

\* The nodes on the way to a node: one at each depth, from the root on.
LEMMA WayFacts ==
  ASSUME NEW i \in Nodes
  PROVE  /\ \A b \in Above[i] : Above[b] \subseteq Above[i] /\ Len(TrailTo[b]) < Len(TrailTo[i])
         /\ \A a, b \in Above[i] \cup {i} : Len(TrailTo[a]) = Len(TrailTo[b]) => a = b
         /\ i # Root => Root \in Above[i]
<1> DEFINE Good(a) ==
             /\ \A b \in Above[a] : Above[b] \subseteq Above[a] /\ Len(TrailTo[b]) < Len(TrailTo[a])
             /\ \A d, b \in Above[a] \cup {a} : Len(TrailTo[d]) = Len(TrailTo[b]) => d = b
             /\ a # Root => Root \in Above[a]
           T == {l \in Nat : \E a \in Nodes : ~Good(a) /\ Len(TrailTo[a]) = l}
<1>1. SUFFICES T = {}
  BY TrailType
<1>2. SUFFICES ASSUME T # {} PROVE FALSE
  OBVIOUS
<1>3. PICK l \in T : \A y \in T : l <= y
  <2>1. T \subseteq Nat
    OBVIOUS
  <2> HIDE DEF T
  <2>2. QED
    BY <1>2, <2>1, LeastNat
<1>4. PICK a \in Nodes : ~Good(a) /\ Len(TrailTo[a]) = l
  BY <1>3
<1>5. a # Root
  BY <1>4, RootTrail
<1> DEFINE p == Parent(a)
<1>6. /\ p \in Nodes /\ Above[a] = Above[p] \cup {p}
      /\ Len(TrailTo[a]) = Len(TrailTo[p]) + 1 /\ Len(TrailTo[p]) \in Nat
  BY <1>5, ParentFacts, TrailType
<1>7. Good(p)
  <2> SUFFICES ASSUME ~Good(p) PROVE FALSE
    OBVIOUS
  <2>1. Len(TrailTo[p]) \in T
    BY <1>6
  <2>2. l <= Len(TrailTo[p])
    BY <1>3, <2>1
  <2>3. QED
    BY <1>4, <1>6, <2>2
<1> HIDE DEF p
<1>8. \A b \in Above[p] \cup {p} : Len(TrailTo[b]) \in Nat /\ Len(TrailTo[b]) < Len(TrailTo[a])
  <2>1. Above[p] \subseteq Nodes
    BY <1>6, AboveStep, NamespaceAssumption
  <2>2. \A b \in Above[p] \cup {p} : Len(TrailTo[b]) \in Nat
    BY <1>6, <2>1, TrailType
  <2>3. \A b \in Above[p] : Len(TrailTo[b]) < Len(TrailTo[p])
    BY <1>7
  <2>4. QED
    BY <1>6, <2>2, <2>3
<1>9. \A b \in Above[a] : Above[b] \subseteq Above[a] /\ Len(TrailTo[b]) < Len(TrailTo[a])
  BY <1>6, <1>7, <1>8
<1>10. \A d, b \in Above[a] \cup {a} : Len(TrailTo[d]) = Len(TrailTo[b]) => d = b
  <2>1. ASSUME NEW d \in Above[p] \cup {p, a}, NEW b \in Above[p] \cup {p, a},
               Len(TrailTo[d]) = Len(TrailTo[b])
        PROVE  d = b
    <3>1. CASE d = a /\ b # a
      BY <1>6, <1>8, <2>1, <3>1
    <3>2. CASE b = a /\ d # a
      BY <1>6, <1>8, <2>1, <3>2
    <3>3. CASE d # a /\ b # a
      BY <1>7, <2>1, <3>3
    <3>4. QED
      BY <3>1, <3>2, <3>3
  <2>2. QED
    BY <1>6, <2>1
<1>11. Root \in Above[a]
  BY <1>6, <1>7
<1>12. QED
  BY <1>4, <1>9, <1>10, <1>11

-----------------------------------------------------------------------------
(***************************************************************************)
(* What a browse lists. While nothing disturbs a browse, every item is     *)
(* either among its tags or still ahead of one of its frames.              *)
(***************************************************************************)

\* The nodes from the root to c.
Way(c) == Above[c] \cup {c}

ChildNames(b, S) == {Name[k] : k \in KidsOf(b) \cap S}

\* The frame of the node b is still to list the item i, or a branch on the way to it.
AheadIn(f, b, i) ==
  \E k \in KidsOf(b) :
    \/ k = i /\ f.phase = "branches"
    \/ k = i /\ f.phase = "leaves" /\ Name[k] \in ToSet(f.it.rest)
    \/ k \in Above[i] /\ Name[k] \in ToSet(f.todo)
    \/ k \in Above[i] /\ f.phase = "branches" /\ Name[k] \in ToSet(f.it.rest)

\* The frames belong to the nodes on the way to the cursor, in their order.
Ahead(frames, c, i) ==
  \E j \in 1 .. Len(frames) : \E b \in Way(c) : Depth(b) = j - 1 /\ AheadIn(frames[j], b, i)

\* An enumerator of distinct names that has met no fault.
Listing(it) ==
  /\ \E names : it \in Iterators(names)
  /\ IsSeq(it.rest) /\ IsInjective(it.rest)
  /\ it.pending = <<>> /\ (it.last \in ToSet(it.rest) => it.same = 0)

FrameOK(f, b) ==
  /\ f = [phase |-> f.phase, todo |-> f.todo, it |-> f.it]
  /\ f.phase \in {"branches", "leaves", "down"}
  /\ IsSeq(f.todo) /\ IsInjective(f.todo) /\ ToSet(f.todo) \subseteq ChildNames(b, Branches)
  /\ f.phase # "down" => Listing(f.it)
  /\ f.phase = "branches" =>
       /\ ToSet(f.it.rest) \subseteq ChildNames(b, Branches)
       /\ ToSet(f.todo) \cap ToSet(f.it.rest) = {}
  /\ f.phase = "leaves" => ToSet(f.it.rest) \subseteq ChildNames(b, Items)

\* Each frame went down to the next node on the way to c, for good.
AllDown(frames, c) ==
  \A j \in 1 .. Len(frames) :
    /\ frames[j].phase = "down"
    /\ \A b \in Way(c) : /\ Depth(b) = j - 1 => FrameOK(frames[j], b)
                         /\ Depth(b) = j => Name[b] \notin ToSet(frames[j].todo)

\* The cursor is at the node of the top frame, or at that of the frame just left.
TreeSweep(frames, r, c) ==
  /\ c \in Branches
  /\ Len(frames) <= MaxDepth + 1
  /\ IF r = Nil
     THEN /\ frames # <<>> /\ Depth(c) = Len(Front(frames))
          /\ AllDown(Front(frames), c) /\ FrameOK(Last(frames), c)
     ELSE Depth(c) = Len(frames) /\ AllDown(frames, c)

FlatSweep(frames, r, all) ==
  IF r = Nil
  THEN LET f == Last(frames)
       IN /\ frames # <<>> /\ Front(frames) = <<>>
          /\ f = [phase |-> "flat", todo |-> <<>>, it |-> f.it]
          /\ Listing(f.it) /\ ToSet(f.it.rest) \subseteq all
  ELSE frames = <<>>

\* What the frames are still to list.
Left == IF flat THEN IF ret = Nil THEN ToSet(Last(stack).it.rest) ELSE {}
                ELSE {s \in Sources : Ahead(stack, cursor, s)}

\* The tag of every source.
TagAt == [s \in Sources |-> TagOf(s)]

\* The values are the tags of distinct sources, none of which is in S; all others
\* are among them unless the limit was reached.
Gathered(tag, values, limit, S) ==
  \E from \in [DOMAIN values -> DOMAIN tag \ S] :
    /\ IsInjective(from)
    /\ \A k \in DOMAIN values : values[k] = tag[from[k]]
    /\ Len(values) < limit => DOMAIN tag \subseteq Range(from) \cup S

Sweep ==
  /\ ret \in {Nil, "ok"}
  /\ IF flat THEN FlatSweep(stack, ret, Sources) ELSE TreeSweep(stack, ret, cursor)
  /\ Gathered(TagAt, tags, job.req.limit, Left)

Undisturbed == job.homed /\ faults = job.since

AnswerOK ==
  answer.req # Nil /\ answer.req.kind = "browse" /\ answer.ok =>
    /\ Len(answer.value) <= answer.req.limit
    /\ answer.clean => Gathered(TagAt, answer.value, answer.req.limit, {})

BrowseInv ==
  /\ CursorInv /\ ReadInv
  /\ pc \in {"connect", "begin"} => tags = <<>>
  /\ pc \in {"items", "io", "remove"} => IsIo
  /\ pc = "browse" => IsSeq(tags) /\ Len(tags) <= job.req.limit
  /\ pc \notin {"idle", "connect"} /\ Undisturbed => ~adrift
  /\ pc = "browse" /\ Undisturbed => Sweep
  /\ AnswerOK

\* The way to a node, and how it grows by one child.
LEMMA OnWay ==
  ASSUME NEW c \in Nodes
  PROVE  /\ Way(c) \subseteq Nodes /\ c \in Way(c) /\ Depth(c) \in Nat
         /\ \A b \in Way(c) : Depth(b) \in Nat /\ Depth(b) <= Depth(c) /\ Way(b) \subseteq Way(c)
         /\ \A b \in Above[c] : Depth(b) < Depth(c)
         /\ \A a, b \in Way(c) : Depth(a) = Depth(b) => a = b
<1>1. Above[c] \subseteq Nodes
  BY AboveStep, NamespaceAssumption
<1>2. \A b \in Nodes : Depth(b) \in Nat
  BY TrailType DEF Depth
<1>3. \A b \in Above[c] : Above[b] \subseteq Above[c] /\ Depth(b) < Depth(c)
  BY WayFacts DEF Depth
<1>4. \A a, b \in Way(c) : Depth(a) = Depth(b) => a = b
  BY WayFacts DEF Depth, Way
<1>5. \A b \in Way(c) : Depth(b) \in Nat /\ Depth(b) <= Depth(c) /\ Way(b) \subseteq Way(c)
  BY <1>1, <1>2, <1>3 DEF Way
<1>6. QED
  BY <1>1, <1>2, <1>3, <1>4, <1>5 DEF Way

LEMMA KidWay ==
  ASSUME NEW c \in Nodes, NEW k \in KidsOf(c)
  PROVE  /\ k \in Nodes /\ k # Root /\ Parent(k) = c /\ c \in Branches
         /\ Above[k] = Way(c) /\ Way(k) = Way(c) \cup {k} /\ k \notin Way(c)
         /\ Depth(k) = Depth(c) + 1
<1>1. k \in Nodes /\ k # Root /\ Parent(k) = c /\ Above[k] = Above[c] \cup {c}
  BY KidFacts
<1>2. c \in Branches
  BY NamespaceAssumption
<1>3. Depth(k) = Depth(c) + 1
  BY <1>1, ParentFacts DEF Depth
<1>4. k \notin Way(c)
  BY <1>3, OnWay
<1>5. QED
  BY <1>1, <1>2, <1>3, <1>4 DEF Way

\* Names below a node tell its children apart, and one of them leads on.
LEMMA ChildOnWay ==
  ASSUME NEW c \in Nodes, NEW i \in Nodes
  PROVE  /\ \A k, l \in KidsOf(c) : Name[k] = Name[l] => k = l
         /\ \A k, l \in KidsOf(c) : k \in Way(i) /\ l \in Way(i) => k = l
         /\ \A k \in KidsOf(c) : k \in Way(i) => c \in Above[i]
         /\ c \in Above[i] => \E k \in KidsOf(c) : k = i \/ (k \in Above[i] /\ k \in Branches)
<1>1. \A k, l \in KidsOf(c) : Name[k] = Name[l] => k = l
  BY NamespaceAssumption
<1>2. \A k, l \in KidsOf(c) : k \in Way(i) /\ l \in Way(i) => k = l
  BY KidWay, OnWay
<1>3. ASSUME NEW k \in KidsOf(c), k \in Way(i) PROVE c \in Above[i]
  <2>1. c \in Above[k]
    BY KidWay DEF Way
  <2>2. k = i \/ Above[k] \subseteq Above[i]
    BY <1>3, WayFacts DEF Way
  <2>3. QED
    BY <2>1, <2>2
<1>4. c \in Above[i] => \E k \in KidsOf(c) : k = i \/ (k \in Above[i] /\ k \in Branches)
  <2>1. Above[i] \subseteq Branches /\ \A n \in Above[i] : \E k \in KidsOf(n) : k = i \/ k \in Above[i]
    BY AboveStep
  <2>2. QED
    BY <2>1
<1>5. QED
  BY <1>1, <1>2, <1>3, <1>4

\* What a frame is still to list is below its node; a new frame has all of it.
LEMMA AheadBelow ==
  ASSUME NEW c \in Nodes, NEW i \in Nodes, NEW f, AheadIn(f, c, i)
  PROVE  c \in Above[i]
<1>1. PICK k \in KidsOf(c) : k \in Way(i)
  BY DEF AheadIn, Way
<1>2. QED
  BY <1>1, ChildOnWay

LEMMA FrameAhead ==
  ASSUME NEW c \in Nodes, NEW i \in Nodes
  PROVE  AheadIn(Frame(c), c, i) <=> c \in Above[i]
<1>1. ASSUME c \in Above[i] PROVE AheadIn(Frame(c), c, i)
  <2>1. PICK k \in KidsOf(c) : k = i \/ (k \in Above[i] /\ k \in Branches)
    BY <1>1, ChildOnWay
  <2>2. Frame(c).phase = "branches" /\ Frame(c).it.rest = NamesOf(c, Branches)
    BY DEF Frame, Iterator
  <2>3. k \in Branches => Name[k] \in ToSet(NamesOf(c, Branches))
    <3>1. ToSet(NamesOf(c, Branches)) = {Name[l] : l \in KidsOf(c) \cap Branches}
      BY NamesListed
    <3>2. QED
      BY <3>1
  <2>4. QED
    BY <2>1, <2>2, <2>3 DEF AheadIn
<1>2. QED
  BY <1>1, AheadBelow

\* The frames, seen from the last one.
LEMMA LastFrame ==
  ASSUME NEW s, IsSeq(s), NEW e
  PROVE  Front(Append(s, e)) = s /\ Last(Append(s, e)) = e /\ Append(s, e) # <<>>
<1>1. /\ IsSeq(Append(s, e)) /\ Append(s, e) # <<>>
      /\ Len(s) \in Nat /\ Len(Append(s, e)) = Len(s) + 1
      /\ \A i \in 1 .. Len(s) : Append(s, e)[i] = s[i]
      /\ Append(s, e)[Len(s) + 1] = e
  BY AppendSeq
<1> DEFINE t == Append(s, e)
<1> HIDE DEF t
<1>2. /\ IsSeq(Front(t)) /\ Len(Front(t)) = Len(t) - 1
      /\ \A i \in 1 .. Len(t) - 1 : Front(t)[i] = t[i]
  BY <1>1, FrontSeq DEF t
<1>3. Len(t) - 1 = Len(s)
  BY <1>1 DEF t
<1>4. \A i \in 1 .. Len(s) : Front(t)[i] = s[i]
  BY <1>1, <1>2, <1>3 DEF t
<1>5. Front(t) = s
  BY <1>2, <1>3, <1>4, SameSeq
<1>6. Last(t) = e
  BY <1>1 DEF t, Last
<1>7. QED
  BY <1>1, <1>5, <1>6 DEF t

LEMMA AheadPush ==
  ASSUME NEW f, IsSeq(f), NEW c \in Nodes, Depth(c) = Len(f), NEW g, NEW i
  PROVE  Ahead(Append(f, g), c, i) <=> Ahead(f, c, i) \/ AheadIn(g, c, i)
<1>1. /\ Len(f) \in Nat /\ Len(Append(f, g)) = Len(f) + 1
      /\ \A j \in 1 .. Len(f) : Append(f, g)[j] = f[j]
      /\ Append(f, g)[Len(f) + 1] = g
  BY AppendSeq
<1>2. \A j \in 1 .. Len(f) + 1 : j \in 1 .. Len(f) \/ j = Len(f) + 1
  BY <1>1
<1>3. \A b \in Way(c) : Depth(b) = (Len(f) + 1) - 1 <=> b = c
  <2>1. c \in Way(c) /\ \A b \in Way(c) : Depth(b) \in Nat /\ (Depth(b) = Depth(c) => b = c)
    BY OnWay
  <2>2. (Len(f) + 1) - 1 = Len(f)
    BY <1>1
  <2>3. QED
    BY <2>1, <2>2
<1>4. c \in Way(c)
  BY OnWay
<1> DEFINE t == Append(f, g)
           n == Len(f)
<1>5. /\ n \in Nat /\ Len(t) = n + 1 /\ (\A j \in 1 .. n : t[j] = f[j]) /\ t[n + 1] = g
      /\ 1 .. n \subseteq 1 .. n + 1 /\ n + 1 \in 1 .. n + 1
  BY <1>1
<1> HIDE DEF t
<1>6. ASSUME Ahead(f, c, i) PROVE Ahead(t, c, i)
  BY <1>5, <1>6 DEF Ahead
<1>7. ASSUME AheadIn(g, c, i) PROVE Ahead(t, c, i)
  <2>1. Depth(c) = (n + 1) - 1 /\ AheadIn(t[n + 1], c, i)
    BY <1>3, <1>4, <1>5, <1>7
  <2>2. QED
    BY <1>4, <1>5, <2>1 DEF Ahead
<1>8. ASSUME Ahead(t, c, i) PROVE Ahead(f, c, i) \/ AheadIn(g, c, i)
  <2>1. PICK j \in 1 .. n + 1 : \E b \in Way(c) : Depth(b) = j - 1 /\ AheadIn(t[j], b, i)
    BY <1>5, <1>8 DEF Ahead
  <2>2. CASE j \in 1 .. n
    BY <1>5, <2>1, <2>2 DEF Ahead
  <2>3. CASE j = n + 1
    BY <1>3, <1>5, <2>1, <2>3
  <2>4. QED
    BY <1>2, <2>2, <2>3
<1>9. QED
  BY <1>6, <1>7, <1>8 DEF t

\* Going down to a child, or back up from it, leaves nothing behind.
LEMMA AheadWay ==
  ASSUME NEW f, IsSeq(f), NEW c \in Nodes, NEW k \in KidsOf(c), Len(f) <= Depth(c) + 1, NEW i
  PROVE  Ahead(f, k, i) <=> Ahead(f, c, i)
<1>1. Len(f) \in Nat /\ Depth(c) \in Nat /\ Depth(k) = Depth(c) + 1 /\ Way(k) = Way(c) \cup {k}
  BY SeqElements, OnWay, KidWay
<1>2. \A j \in 1 .. Len(f) : Depth(k) # j - 1
  BY <1>1
<1>3. QED
  BY <1>1, <1>2 DEF Ahead

LEMMA DownPush ==
  ASSUME NEW f, IsSeq(f), NEW c \in Nodes, Len(f) = Depth(c), AllDown(f, c),
         NEW g, FrameOK(g, c), g.phase = "down", NEW k \in KidsOf(c), Name[k] \notin ToSet(g.todo)
  PROVE  AllDown(Append(f, g), k)
<1>1. /\ Len(f) \in Nat /\ Len(Append(f, g)) = Len(f) + 1
      /\ \A j \in 1 .. Len(f) : Append(f, g)[j] = f[j]
      /\ Append(f, g)[Len(f) + 1] = g
  BY AppendSeq
<1>2. Way(k) = Way(c) \cup {k} /\ Depth(k) = Len(f) + 1
  BY KidWay
<1> DEFINE t == Append(f, g)
           n == Len(f)
<1>3. n \in Nat /\ Len(t) = n + 1 /\ (\A j \in 1 .. n : t[j] = f[j]) /\ t[n + 1] = g
  BY <1>1
<1> HIDE DEF t
<1>4. \A b \in Way(k) : b = k \/ (b \in Way(c) /\ Depth(b) \in Nat /\ Depth(b) <= n /\ (Depth(b) = n => b = c))
  BY <1>2, OnWay
<1>5. ASSUME NEW j \in 1 .. n
      PROVE  /\ t[j].phase = "down"
             /\ \A b \in Way(k) : /\ Depth(b) = j - 1 => FrameOK(t[j], b)
                                  /\ Depth(b) = j => Name[b] \notin ToSet(t[j].todo)
  <2>1. Depth(k) # j - 1 /\ Depth(k) # j /\ t[j] = f[j]
    BY <1>2, <1>3
  <2>2. QED
    BY <1>4, <2>1 DEF AllDown
<1>6. /\ t[n + 1].phase = "down"
      /\ \A b \in Way(k) : /\ Depth(b) = (n + 1) - 1 => FrameOK(t[n + 1], b)
                           /\ Depth(b) = n + 1 => Name[b] \notin ToSet(t[n + 1].todo)
  <2>1. ASSUME NEW b \in Way(k), Depth(b) = (n + 1) - 1 PROVE FrameOK(t[n + 1], b)
    <3>1. b = c
      BY <1>2, <1>3, <1>4, <2>1
    <3>2. QED
      BY <1>3, <3>1
  <2>2. ASSUME NEW b \in Way(k), Depth(b) = n + 1 PROVE Name[b] \notin ToSet(t[n + 1].todo)
    <3>1. b = k
      BY <1>2, <1>3, <1>4, <2>2
    <3>2. QED
      BY <1>3, <3>1
  <2>3. QED
    BY <1>3, <2>1, <2>2
<1>7. \A j \in 1 .. Len(t) : j \in 1 .. n \/ j = n + 1
  BY <1>3
<1>8. AllDown(t, k)
  BY <1>5, <1>6, <1>7 DEF AllDown
<1>9. QED
  BY <1>8 DEF t

LEMMA DownUp ==
  ASSUME NEW f, IsSeq(f), NEW c \in Nodes, NEW k \in KidsOf(c), Len(f) = Depth(c) + 1, AllDown(f, k)
  PROVE  /\ f # <<>> /\ Depth(c) = Len(Front(f))
         /\ AllDown(Front(f), c) /\ FrameOK(Last(f), c)
<1>1. Len(f) \in Nat \ {0} /\ f # <<>>
  BY OnWay, NoSeq
<1>2. /\ IsSeq(Front(f)) /\ Len(Front(f)) = Len(f) - 1
      /\ \A i \in 1 .. Len(f) - 1 : Front(f)[i] = f[i]
  BY <1>1, FrontSeq
<1>3. Way(c) \subseteq Way(k) /\ c \in Way(k) /\ Depth(c) \in Nat
  BY KidWay, OnWay
<1>4. Len(f) \in 1 .. Len(f) /\ Depth(c) = Len(f) - 1
  BY <1>1, <1>3
<1>5. FrameOK(Last(f), c)
  BY <1>3, <1>4 DEF AllDown, Last
<1>6. \A j \in 1 .. Len(Front(f)) : j \in 1 .. Len(f) /\ Front(f)[j] = f[j]
  BY <1>1, <1>2
<1>7. AllDown(Front(f), c)
  BY <1>3, <1>6 DEF AllDown
<1>8. QED
  BY <1>1, <1>2, <1>4, <1>5, <1>7

\* No frame is to list again what hangs at the cursor.
LEMMA NotBehind ==
  ASSUME NEW f, IsSeq(f), NEW c \in Nodes, AllDown(f, c), NEW k \in KidsOf(c)
  PROVE  ~Ahead(f, c, k)
<1> SUFFICES ASSUME Ahead(f, c, k) PROVE FALSE
  OBVIOUS
<1>1. PICK j \in 1 .. Len(f) : \E b \in Way(c) : Depth(b) = j - 1 /\ AheadIn(f[j], b, k)
  BY DEF Ahead
<1>2. PICK b \in Way(c) : Depth(b) = j - 1 /\ AheadIn(f[j], b, k)
  BY <1>1
<1>3. f[j].phase = "down"
  BY DEF AllDown
<1>4. PICK l \in KidsOf(b) : l \in Above[k] /\ Name[l] \in ToSet(f[j].todo)
  BY <1>2, <1>3 DEF AheadIn
<1>5. b \in Nodes /\ Len(f) \in Nat
  BY SeqElements, OnWay
<1>6. Depth(l) = j /\ l \in Way(c)
  BY <1>2, <1>4, <1>5, KidWay
<1>7. QED
  BY <1>4, <1>6 DEF AllDown

\* Tags that were gathered stay so when less is left, and nothing was dropped.
LEMMA GatheredKept ==
  ASSUME NEW tag, NEW values, NEW limit, NEW S, Gathered(tag, values, limit, S),
         NEW T, DOMAIN tag \cap T \subseteq S, Len(values) < limit => DOMAIN tag \cap S \subseteq T
  PROVE  Gathered(tag, values, limit, T)
<1>1. PICK from \in [DOMAIN values -> DOMAIN tag \ S] :
        /\ IsInjective(from)
        /\ \A k \in DOMAIN values : values[k] = tag[from[k]]
        /\ Len(values) < limit => DOMAIN tag \subseteq Range(from) \cup S
  BY DEF Gathered
<1>2. from \in [DOMAIN values -> DOMAIN tag \ T]
  BY <1>1
<1>3. Len(values) < limit => DOMAIN tag \subseteq Range(from) \cup T
  BY <1>1
<1>4. QED
  BY <1>1, <1>2, <1>3 DEF Gathered

\* One more is gathered.
LEMMA GatheredMore ==
  ASSUME NEW tag, NEW values, IsSeq(values), NEW limit, NEW S, NEW s \in DOMAIN tag \cap S,
         Gathered(tag, values, limit, S), Len(values) < limit
  PROVE  Gathered(tag, Append(values, tag[s]), limit, S \ {s})
<1> DEFINE e == tag[s]
           t == Append(values, e)
           all == DOMAIN tag
           n == Len(values)
<1>1. /\ IsSeq(t) /\ Len(values) \in Nat /\ Len(t) = Len(values) + 1
      /\ \A i \in 1 .. Len(values) : t[i] = values[i]
      /\ t[Len(values) + 1] = e
  BY AppendSeq
<1>2. DOMAIN values = 1 .. n /\ DOMAIN t = 1 .. n + 1 /\ n \in Nat
  BY <1>1, SeqElements
<1>3. PICK from \in [1 .. n -> all \ S] :
        /\ IsInjective(from)
        /\ \A k \in 1 .. n : values[k] = tag[from[k]]
        /\ all \subseteq Range(from) \cup S
  BY <1>2 DEF Gathered
<1> DEFINE g == [k \in 1 .. n + 1 |-> IF k = n + 1 THEN s ELSE from[k]]
<1> HIDE DEF t, n
<1>4. \A k \in 1 .. n + 1 : k = n + 1 \/ k \in 1 .. n
  BY <1>2
<1>5. g \in [1 .. n + 1 -> all \ (S \ {s})]
  BY <1>3, <1>4
<1>6. IsInjective(g)
  <2>1. DOMAIN g = 1 .. n + 1 /\ DOMAIN from = 1 .. n
    BY <1>3
  <2>2. \A k \in 1 .. n : from[k] # s
    BY <1>3
  <2>3. \A a, b \in 1 .. n : from[a] = from[b] => a = b
    BY <1>3, <2>1 DEF IsInjective
  <2>4. ASSUME NEW a \in 1 .. n + 1, NEW b \in 1 .. n + 1, g[a] = g[b] PROVE a = b
    <3>1. CASE a = n + 1
      BY <1>4, <2>2, <2>4, <3>1
    <3>2. CASE b = n + 1
      BY <1>4, <2>2, <2>4, <3>2
    <3>3. CASE a # n + 1 /\ b # n + 1
      BY <1>4, <2>3, <2>4, <3>3
    <3>4. QED
      BY <3>1, <3>2, <3>3
  <2> HIDE DEF g
  <2>5. QED
    BY <2>1, <2>4 DEF IsInjective
<1>7. \A k \in 1 .. n + 1 : t[k] = tag[g[k]]
  <2>1. ASSUME NEW k \in 1 .. n PROVE t[k] = tag[g[k]]
    <3>1. t[k] = values[k] /\ k \in 1 .. n + 1 /\ k # n + 1
      BY <1>1, <1>2 DEF n
    <3>2. g[k] = from[k]
      BY <3>1
    <3>3. QED
      BY <1>3, <3>1, <3>2
  <2>2. t[n + 1] = tag[g[n + 1]]
    <3>1. t[n + 1] = e /\ n + 1 \in 1 .. n + 1
      BY <1>1, <1>2 DEF n
    <3>2. g[n + 1] = s
      BY <3>1
    <3>3. QED
      BY <3>1, <3>2
  <2>3. QED
    BY <1>4, <2>1, <2>2
<1>8. all \subseteq Range(g) \cup (S \ {s})
  <2>1. \A k \in 1 .. n : from[k] = g[k] /\ k \in 1 .. n + 1
    BY <1>2
  <2>2. g[n + 1] = s /\ n + 1 \in 1 .. n + 1
    BY <1>2
  <2>3. DOMAIN g = 1 .. n + 1 /\ DOMAIN from = 1 .. n
    BY <1>3
  <2> HIDE DEF g
  <2>4. Range(from) \subseteq Range(g) /\ s \in Range(g)
    BY <2>1, <2>2, <2>3 DEF Range
  <2>5. QED
    BY <1>3, <2>4
<1> HIDE DEF g
<1>9. Gathered(tag, t, limit, S \ {s})
  BY <1>2, <1>5, <1>6, <1>7, <1>8 DEF Gathered
<1>10. QED
  BY <1>9 DEF t

\* Without a fault an enumerator lists its next name, or is at its end.
LEMMA QuietFetch ==
  ASSUME NEW it, Listing(it), NEW x \in Fetches(it), x.cost = 0
  PROVE  \/ it.rest = <<>> /\ x.f.res.kind = "end" /\ x.f.it = it
         \/ /\ it.rest # <<>> /\ x.f.res.kind = "name" /\ x.f.res.name = Head(it.rest)
            /\ Listing(x.f.it) /\ x.f.it.rest = Tail(it.rest)
<1>1. x.f = IF it.rest = <<>> THEN [res |-> Result("end", Nil), it |-> it]
            ELSE Guarded([it EXCEPT !.rest = Tail(it.rest)], Head(it.rest))
  BY DEF Fetches
<1>2. CASE it.rest = <<>>
  BY <1>1, <1>2 DEF Result
<1>3. CASE it.rest # <<>>
  <2> DEFINE h == Head(it.rest)
             d == [it EXCEPT !.rest = Tail(it.rest)]
             same == IF h = it.last THEN it.same + 1 ELSE 1
             e == [d EXCEPT !.last = h, !.same = same]
  <2>1. PICK names : it \in Iterators(names)
    BY DEF Listing
  <2>2. /\ h \in names /\ h \in ToSet(it.rest) /\ Tail(it.rest) \in Seq(names)
        /\ IsInjective(Tail(it.rest)) /\ h \notin ToSet(Tail(it.rest))
    <3>1. it.rest \in Seq(names) /\ IsInjective(it.rest)
      BY <2>1 DEF Listing, Iterators
    <3>2. QED
      BY <1>3, <3>1, RestSplit
  <2>3. same = 1
    BY <2>2 DEF Listing
  <2> HIDE DEF h, same
  <2>4. /\ d \in Iterators(names) /\ d.rest = Tail(it.rest) /\ d.pending = it.pending
        /\ d.last = it.last /\ d.same = it.same
    BY <2>1, <2>2 DEF Iterators
  <2> HIDE DEF d
  <2>5. /\ e \in Iterators(names) /\ e.rest = d.rest /\ e.pending = d.pending
        /\ e.last = h /\ e.same = 1
    BY <2>2, <2>3, <2>4 DEF Iterators
  <2>6. Guarded(d, h) = [res |-> Result("name", h), it |-> e]
    <3>1. ~(same >= MaxSame)
      BY <2>3, MaxSameAssumption
    <3>2. QED
      BY <2>4, <3>1 DEF Guarded, same
  <2> HIDE DEF e
  <2>7. IsSeq(e.rest) /\ IsInjective(e.rest) /\ e.last \notin ToSet(e.rest)
    BY <2>2, <2>4, <2>5, SeqIsSeq
  <2>8. Listing(e)
    BY <2>4, <2>5, <2>7 DEF Listing
  <2>9. x.f.res.kind = "name" /\ x.f.res.name = h /\ x.f.it = e
    BY <1>1, <1>3, <2>6 DEF Result, h, d
  <2>10. QED
    BY <1>3, <2>4, <2>5, <2>8, <2>9 DEF h
<1>4. QED
  BY <1>2, <1>3

LEMMA NewListing ==
  ASSUME NEW S, NEW s \in Seq(S), IsInjective(s)
  PROVE  Listing(Iterator(s)) /\ Iterator(s).rest = s
<1>1. IsSeq(s)
  BY SeqIsSeq
<1>2. Iterator(s) \in Iterators(S)
  BY DEF Iterator, Iterators
<1>3. Iterator(s).rest = s /\ Iterator(s).pending = <<>> /\ Iterator(s).same = 0
  BY DEF Iterator
<1> HIDE DEF Iterator
<1>4. QED
  BY <1>1, <1>2, <1>3 DEF Listing

LEMMA SetAppend ==
  ASSUME NEW s, IsSeq(s), IsInjective(s), NEW e, e \notin ToSet(s)
  PROVE  IsSeq(Append(s, e)) /\ IsInjective(Append(s, e)) /\ ToSet(Append(s, e)) = ToSet(s) \cup {e}
<1> DEFINE t == Append(s, e)
           n == Len(s)
<1>1. /\ IsSeq(t) /\ Len(s) \in Nat /\ Len(t) = Len(s) + 1
      /\ \A i \in 1 .. Len(s) : t[i] = s[i]
      /\ t[Len(s) + 1] = e
  BY AppendSeq
<1>2. DOMAIN s = 1 .. n /\ DOMAIN t = 1 .. n + 1 /\ n \in Nat
  BY <1>1, SeqElements
<1> HIDE DEF t
<1>3. (\A i \in 1 .. n : t[i] = s[i]) /\ t[n + 1] = e
  BY <1>1
<1> HIDE DEF n
<1>4. \A k \in 1 .. n + 1 : k = n + 1 \/ k \in 1 .. n
  BY <1>2
<1>5. 1 .. n \subseteq 1 .. n + 1 /\ n + 1 \in 1 .. n + 1
  BY <1>2
<1>6. ToSet(t) = ToSet(s) \cup {e}
  BY <1>2, <1>3, <1>4, <1>5 DEF ToSet
<1>7. IsInjective(t)
  <2>1. \A i \in 1 .. n : s[i] # e
    BY <1>2 DEF ToSet
  <2>2. \A i, j \in 1 .. n : s[i] = s[j] => i = j
    BY <1>2 DEF IsInjective
  <2>3. \A i, j \in 1 .. n + 1 : t[i] = t[j] => i = j
    BY <1>3, <1>4, <2>1, <2>2
  <2>4. QED
    BY <1>2, <2>3 DEF IsInjective
<1>8. QED
  BY <1>1, <1>6, <1>7 DEF t

-----------------------------------------------------------------------------
(* The steps of a frame. *)

F(phase, todo, it) == [phase |-> phase, todo |-> todo, it |-> it]

LEMMA FrameIs ==
  ASSUME NEW phase, NEW todo, NEW it, NEW f, f \in [phase : {phase}, todo : {todo}, it : {it}]
  PROVE  f = F(phase, todo, it)
BY DEF F

LEMMA FrameFields ==
  ASSUME NEW f, NEW c, FrameOK(f, c)
  PROVE  \E phase, todo, it : f = F(phase, todo, it)
BY DEF FrameOK, F

\* A branch name goes from the enumerator to the list of branches to visit.
LEMMA BranchStep ==
  ASSUME NEW c \in Nodes, NEW todo, NEW it, FrameOK(F("branches", todo, it), c), it.rest # <<>>,
         NEW next, Listing(next), next.rest = Tail(it.rest)
  PROVE  LET g == F("branches", Append(todo, Head(it.rest)), next)
         IN /\ FrameOK(g, c)
            /\ \A i \in Nodes : AheadIn(g, c, i) <=> AheadIn(F("branches", todo, it), c, i)
<1> DEFINE h == Head(it.rest)
           more == Append(todo, h)
<1>1. /\ IsSeq(todo) /\ IsInjective(todo) /\ ToSet(todo) \subseteq ChildNames(c, Branches)
      /\ Listing(it) /\ ToSet(it.rest) \subseteq ChildNames(c, Branches)
      /\ ToSet(todo) \cap ToSet(it.rest) = {}
  BY DEF FrameOK, F
<1>2. it.rest \in Seq(ToSet(it.rest)) /\ IsInjective(it.rest)
  BY <1>1 DEF Listing, IsSeq
<1>3. /\ h \in ToSet(it.rest) /\ ToSet(it.rest) = ToSet(next.rest) \cup {h}
      /\ h \notin ToSet(next.rest)
  BY <1>2, RestSplit
<1>4. IsSeq(more) /\ IsInjective(more) /\ ToSet(more) = ToSet(todo) \cup {h}
  BY <1>1, <1>3, SetAppend
<1> HIDE DEF h, more
<1>5. FrameOK(F("branches", more, next), c)
  BY <1>1, <1>3, <1>4 DEF FrameOK, F
<1>6. \A i \in Nodes : AheadIn(F("branches", more, next), c, i) <=> AheadIn(F("branches", todo, it), c, i)
  BY <1>3, <1>4 DEF AheadIn, F
<1>7. QED
  BY <1>5, <1>6 DEF h, more

\* All branch names are known; the leaves come next.
LEMMA BranchesDone ==
  ASSUME NEW c \in Nodes, NEW todo, NEW it, FrameOK(F("branches", todo, it), c), it.rest = <<>>
  PROVE  LET g == F("leaves", todo, Iterator(NamesOf(c, Items)))
         IN /\ FrameOK(g, c)
            /\ \A i \in Items : AheadIn(g, c, i) <=> AheadIn(F("branches", todo, it), c, i)
<1> DEFINE names == NamesOf(c, Items)
<1>1. /\ names \in Seq({Name[k] : k \in KidsOf(c) \cap Items})
      /\ ToSet(names) = ChildNames(c, Items) /\ IsInjective(names)
  BY NamesListed DEF ChildNames
<1> HIDE DEF names
<1>2. Listing(Iterator(names)) /\ Iterator(names).rest = names
  BY <1>1, NewListing
<1>3. /\ IsSeq(todo) /\ IsInjective(todo) /\ ToSet(todo) \subseteq ChildNames(c, Branches)
  BY DEF FrameOK, F
<1> DEFINE new == Iterator(names)
<1> HIDE DEF new
<1>4. FrameOK(F("leaves", todo, new), c)
  BY <1>1, <1>2, <1>3 DEF FrameOK, F, new
<1>5. ToSet(it.rest) = {}
  BY DEF ToSet
<1>6. \A i \in Items, k \in KidsOf(c) : k = i => Name[k] \in ToSet(new.rest)
  BY <1>1, <1>2 DEF ChildNames, new
<1>7. \A i \in Items : AheadIn(F("leaves", todo, new), c, i) <=> AheadIn(F("branches", todo, it), c, i)
  BY <1>5, <1>6 DEF AheadIn, F
<1>8. QED
  BY <1>4, <1>7 DEF new, names

\* A leaf name goes to the tags.
LEMMA LeafStep ==
  ASSUME NEW c \in Nodes, NEW todo, NEW it, FrameOK(F("leaves", todo, it), c), it.rest # <<>>,
         NEW next, Listing(next), next.rest = Tail(it.rest),
         NEW k \in KidsOf(c), Name[k] = Head(it.rest)
  PROVE  LET g == F("leaves", todo, next)
         IN /\ FrameOK(g, c) /\ k \in Items /\ AheadIn(F("leaves", todo, it), c, k)
            /\ \A i \in Nodes : AheadIn(g, c, i) <=> AheadIn(F("leaves", todo, it), c, i) /\ i # k
<1>1. /\ IsSeq(todo) /\ IsInjective(todo) /\ ToSet(todo) \subseteq ChildNames(c, Branches)
      /\ Listing(it) /\ ToSet(it.rest) \subseteq ChildNames(c, Items)
  BY DEF FrameOK, F
<1>2. it.rest \in Seq(ToSet(it.rest)) /\ IsInjective(it.rest)
  BY <1>1 DEF Listing, IsSeq
<1>3. /\ Name[k] \in ToSet(it.rest) /\ ToSet(it.rest) = ToSet(next.rest) \cup {Name[k]}
      /\ Name[k] \notin ToSet(next.rest)
  BY <1>2, RestSplit
<1>4. FrameOK(F("leaves", todo, next), c)
  BY <1>1, <1>3 DEF FrameOK, F
<1>5. \A l \in KidsOf(c) : Name[l] = Name[k] => l = k
  BY ChildOnWay
<1>6. k \in Items
  BY <1>1, <1>3, <1>5 DEF ChildNames
<1>7. AheadIn(F("leaves", todo, it), c, k)
  BY <1>3 DEF AheadIn, F
<1>8. \A l \in KidsOf(c) : l \notin Above[k]
  BY KidWay
<1>9. \A i \in Nodes : AheadIn(F("leaves", todo, next), c, i) <=> AheadIn(F("leaves", todo, it), c, i) /\ i # k
  BY <1>3, <1>5, <1>8 DEF AheadIn, F
<1>10. QED
  BY <1>4, <1>6, <1>7, <1>9

LEMMA LeavesDone ==
  ASSUME NEW c \in Nodes, NEW todo, NEW it, FrameOK(F("leaves", todo, it), c), it.rest = <<>>
  PROVE  /\ FrameOK(F("down", todo, it), c)
         /\ \A i \in Nodes : AheadIn(F("down", todo, it), c, i) <=> AheadIn(F("leaves", todo, it), c, i)
<1>1. ToSet(it.rest) = {}
  BY DEF ToSet
<1>2. FrameOK(F("down", todo, it), c)
  BY DEF FrameOK, F
<1>3. QED
  BY <1>1, <1>2 DEF AheadIn, F

\* One branch less to visit: what is below it is ahead of no other.
LEMMA DownStep ==
  ASSUME NEW c \in Nodes, NEW todo, NEW it, FrameOK(F("down", todo, it), c), todo # <<>>,
         NEW k \in KidsOf(c), Name[k] = Head(todo)
  PROVE  LET g == F("down", Tail(todo), it)
         IN /\ FrameOK(g, c) /\ Name[k] \notin ToSet(Tail(todo))
            /\ \A i \in Nodes : AheadIn(F("down", todo, it), c, i) <=> AheadIn(g, c, i) \/ k \in Above[i]
<1>1. /\ IsSeq(todo) /\ IsInjective(todo) /\ ToSet(todo) \subseteq ChildNames(c, Branches)
  BY DEF FrameOK, F
<1>2. todo \in Seq(ToSet(todo))
  BY <1>1 DEF IsSeq
<1>3. /\ ToSet(todo) = ToSet(Tail(todo)) \cup {Name[k]} /\ IsInjective(Tail(todo))
      /\ Name[k] \notin ToSet(Tail(todo)) /\ Tail(todo) \in Seq(ToSet(todo))
  BY <1>1, <1>2, RestSplit
<1> DEFINE less == Tail(todo)
<1>4. IsSeq(less)
  BY <1>3, SeqIsSeq
<1> HIDE DEF less
<1>5. FrameOK(F("down", less, it), c)
  BY <1>1, <1>3, <1>4 DEF FrameOK, F, less
<1>6. \A l \in KidsOf(c) : Name[l] = Name[k] => l = k
  BY ChildOnWay
<1>7. ToSet(todo) = ToSet(less) \cup {Name[k]}
  BY <1>3 DEF less
<1>8. \A i \in Nodes : AheadIn(F("down", todo, it), c, i) <=> AheadIn(F("down", less, it), c, i) \/ k \in Above[i]
  BY <1>6, <1>7 DEF AheadIn, F
<1>9. QED
  BY <1>3, <1>5, <1>8 DEF less

LEMMA AllVisited ==
  ASSUME NEW c, NEW it, NEW i
  PROVE  ~AheadIn(F("down", <<>>, it), c, i)
<1>1. ToSet(<<>>) = {}
  BY DEF ToSet
<1>2. QED
  BY <1>1 DEF AheadIn, F

-----------------------------------------------------------------------------
(* The frames of a browse, and the moves between them. *)

LEMMA FrameNew == ASSUME NEW c \in Nodes PROVE FrameOK(Frame(c), c)
<1> DEFINE names == NamesOf(c, Branches)
<1>1. /\ names \in Seq({Name[k] : k \in KidsOf(c) \cap Branches})
      /\ ToSet(names) = ChildNames(c, Branches) /\ IsInjective(names)
  BY NamesListed DEF ChildNames
<1> DEFINE new == Iterator(names)
<1> HIDE DEF names
<1>2. Listing(new) /\ new.rest = names
  BY <1>1, NewListing
<1>3. Frame(c) = F("branches", <<>>, new)
  BY DEF Frame, F, names
<1> HIDE DEF new
<1>4. IsSeq(<<>>) /\ IsInjective(<<>>) /\ ToSet(<<>>) = {}
  BY NoSeq DEF IsInjective, ToSet
<1>5. FrameOK(F("branches", <<>>, new), c)
  BY <1>1, <1>2, <1>4 DEF FrameOK, F
<1>6. QED
  BY <1>3, <1>5

LEMMA Organized ==
  ASSUME NEW frames, IsSeq(frames), NEW c, TreeSweep(frames, Nil, c)
  PROVE  /\ c \in Nodes /\ c \in Branches /\ frames # <<>>
         /\ IsSeq(Front(frames)) /\ frames = Append(Front(frames), Last(frames))
         /\ Len(Front(frames)) \in Nat /\ Len(frames) = Len(Front(frames)) + 1
         /\ Len(frames) <= MaxDepth + 1
         /\ Depth(c) = Len(Front(frames)) /\ AllDown(Front(frames), c) /\ FrameOK(Last(frames), c)
         /\ \A i : Ahead(frames, c, i) <=> Ahead(Front(frames), c, i) \/ AheadIn(Last(frames), c, i)
<1>1. /\ c \in Nodes /\ c \in Branches /\ frames # <<>> /\ Len(frames) <= MaxDepth + 1
      /\ Depth(c) = Len(Front(frames)) /\ AllDown(Front(frames), c) /\ FrameOK(Last(frames), c)
  BY NamespaceAssumption DEF TreeSweep
<1>2. IsSeq(Front(frames)) /\ frames = Append(Front(frames), Last(frames))
  BY <1>1, FrontSeq
<1>3. Len(Front(frames)) \in Nat /\ Len(Append(Front(frames), Last(frames))) = Len(Front(frames)) + 1
  BY <1>2, AppendSeq
<1>4. \A i : Ahead(Append(Front(frames), Last(frames)), c, i)
               <=> Ahead(Front(frames), c, i) \/ AheadIn(Last(frames), c, i)
  BY <1>1, <1>2, AheadPush
<1>5. QED
  BY <1>1, <1>2, <1>3, <1>4

\* The top frame changes.
LEMMA TopStep ==
  ASSUME NEW frames, IsSeq(frames), NEW c, TreeSweep(frames, Nil, c), NEW g, FrameOK(g, c)
  PROVE  LET new == Append(Front(frames), g)
         IN /\ TreeSweep(new, Nil, c)
            /\ \A i : Ahead(new, c, i) <=> Ahead(Front(frames), c, i) \/ AheadIn(g, c, i)
<1> DEFINE below == Front(frames)
           new == Append(below, g)
<1>1. /\ c \in Nodes /\ c \in Branches /\ IsSeq(below)
      /\ Len(below) \in Nat /\ Len(frames) = Len(below) + 1 /\ Len(frames) <= MaxDepth + 1
      /\ Depth(c) = Len(below) /\ AllDown(below, c)
  BY Organized
<1> HIDE DEF below
<1>2. Len(new) = Len(below) + 1 /\ new # <<>> /\ Front(new) = below /\ Last(new) = g
  BY <1>1, AppendSeq, LastFrame
<1>3. \A i : Ahead(new, c, i) <=> Ahead(below, c, i) \/ AheadIn(g, c, i)
  BY <1>1, AheadPush
<1> HIDE DEF new
<1>4. TreeSweep(new, Nil, c)
  BY <1>1, <1>2 DEF TreeSweep
<1>5. QED
  BY <1>3, <1>4 DEF new, below

\* The top frame is left; its caller is to move up.
LEMMA TopLeft ==
  ASSUME NEW frames, IsSeq(frames), NEW c, TreeSweep(frames, Nil, c)
  PROVE  TreeSweep(Front(frames), "ok", c)
<1>1. /\ c \in Branches /\ Len(Front(frames)) \in Nat /\ Len(frames) = Len(Front(frames)) + 1
      /\ Len(frames) <= MaxDepth + 1 /\ Depth(c) = Len(Front(frames)) /\ AllDown(Front(frames), c)
  BY Organized
<1>2. Len(Front(frames)) <= MaxDepth + 1
  BY <1>1, RequestsAssumption
<1>3. "ok" # Nil
  BY RequestsAssumption
<1>4. QED
  BY <1>1, <1>2, <1>3 DEF TreeSweep

\* The cursor moves down to a child, where another frame begins unless it is
\* too deep.
LEMMA Deeper ==
  ASSUME NEW frames, IsSeq(frames), NEW c, TreeSweep(frames, Nil, c),
         NEW g, FrameOK(g, c), g.phase = "down",
         NEW k \in KidsOf(c), k \in Branches, Name[k] \notin ToSet(g.todo)
  PROVE  LET left == Append(Front(frames), g)
             new == Append(left, Frame(k))
         IN /\ TreeSweep(left, "ok", k)
            /\ Len(left) = Depth(k) /\ Depth(k) \in Nat
            /\ Len(left) <= MaxDepth => TreeSweep(new, Nil, k)
            /\ \A i : Ahead(left, k, i) <=> Ahead(Front(frames), c, i) \/ AheadIn(g, c, i)
            /\ \A i \in Nodes :
                 Ahead(new, k, i) <=> Ahead(Front(frames), c, i) \/ AheadIn(g, c, i) \/ k \in Above[i]
<1> DEFINE below == Front(frames)
           left == Append(below, g)
           new == Append(left, Frame(k))
<1>1. /\ c \in Nodes /\ IsSeq(below)
      /\ Len(below) \in Nat /\ Len(frames) = Len(below) + 1 /\ Len(frames) <= MaxDepth + 1
      /\ Depth(c) = Len(below) /\ AllDown(below, c)
  BY Organized
<1> HIDE DEF below
<1>2. IsSeq(left) /\ Len(left) = Len(below) + 1
  BY <1>1, AppendSeq
<1>3. k \in Nodes /\ Depth(k) = Depth(c) + 1
  BY <1>1, KidWay
<1>4. Len(left) = Depth(k) /\ Depth(k) \in Nat /\ Len(left) <= MaxDepth + 1
  BY <1>1, <1>2, <1>3
<1>5. AllDown(left, k)
  BY <1>1, DownPush
<1>6. \A i : Ahead(left, c, i) <=> Ahead(below, c, i) \/ AheadIn(g, c, i)
  BY <1>1, AheadPush
<1> HIDE DEF left
<1>7. \A i : Ahead(left, k, i) <=> Ahead(left, c, i)
  <2>1. Len(left) <= Depth(c) + 1
    BY <1>1, <1>2
  <2>2. QED
    BY <1>1, <1>2, <2>1, AheadWay
<1>8. \A i \in Nodes : Ahead(new, k, i) <=> Ahead(left, k, i) \/ k \in Above[i]
  <2>1. \A i : Ahead(new, k, i) <=> Ahead(left, k, i) \/ AheadIn(Frame(k), k, i)
    BY <1>2, <1>3, <1>4, AheadPush
  <2>2. QED
    BY <1>3, <2>1, FrameAhead
<1>9. "ok" # Nil
  BY RequestsAssumption
<1>10. TreeSweep(left, "ok", k)
  BY <1>4, <1>5, <1>9 DEF TreeSweep
<1>11. ASSUME Len(left) <= MaxDepth PROVE TreeSweep(new, Nil, k)
  <2>1. /\ Len(new) = Len(left) + 1 /\ Len(left) \in Nat
        /\ new # <<>> /\ Front(new) = left /\ Last(new) = Frame(k)
    BY <1>2, AppendSeq, LastFrame
  <2>2. FrameOK(Frame(k), k)
    BY <1>3, FrameNew
  <2>3. Len(new) <= MaxDepth + 1
    BY <1>11, <2>1, RequestsAssumption
  <2> HIDE DEF new
  <2>4. QED
    BY <1>4, <1>5, <2>1, <2>2, <2>3 DEF TreeSweep
<1>12. QED
  BY <1>4, <1>6, <1>7, <1>8, <1>10, <1>11 DEF left, below

\* The cursor moves back up.
LEMMA Higher ==
  ASSUME NEW frames, IsSeq(frames), NEW c, TreeSweep(frames, "ok", c), frames # <<>>
  PROVE  /\ c # Root /\ TreeSweep(frames, Nil, Parent(c))
         /\ \A i : Ahead(frames, Parent(c), i) <=> Ahead(frames, c, i)
<1>1. c \in Nodes /\ Len(frames) <= MaxDepth + 1 /\ Depth(c) = Len(frames) /\ AllDown(frames, c)
  <2>1. "ok" # Nil
    BY RequestsAssumption
  <2>2. QED
    BY <2>1, NamespaceAssumption DEF TreeSweep
<1>2. Len(frames) \in Nat \ {0}
  BY HeadTail
<1>3. c # Root
  BY <1>1, <1>2, RootTrail, NoSeq DEF Depth
<1>4. Parent(c) \in Nodes /\ Parent(c) \in Branches /\ c \in KidsOf(Parent(c))
  BY <1>1, <1>3, ParentFacts
<1>5. Depth(c) = Depth(Parent(c)) + 1
  BY <1>4, KidWay
<1>6. /\ Depth(Parent(c)) = Len(Front(frames))
      /\ AllDown(Front(frames), Parent(c)) /\ FrameOK(Last(frames), Parent(c))
  BY <1>1, <1>4, <1>5, DownUp
<1>7. TreeSweep(frames, Nil, Parent(c))
  BY <1>1, <1>4, <1>6 DEF TreeSweep
<1>8. \A i : Ahead(frames, c, i) <=> Ahead(frames, Parent(c), i)
  <2>1. Len(frames) <= Depth(Parent(c)) + 1
    BY <1>1, <1>2, <1>5
  <2>2. QED
    BY <1>4, <2>1, AheadWay
<1>9. QED
  BY <1>3, <1>7, <1>8

-----------------------------------------------------------------------------
(* The steps of an undisturbed browse. *)

LEMMA QuietStep ==
  ASSUME BrowseInv, pc # "idle", job' = job, NEW n \in Nat, faults' = faults + n, Undisturbed'
  PROVE  Undisturbed /\ n = 0
<1>1. faults \in Nat /\ job.since \in Nat /\ job.since <= faults
  BY DEF BrowseInv, ReadInv, Job
<1>2. job.homed /\ faults + n = job.since
  BY DEF Undisturbed
<1>3. QED
  BY <1>1, <1>2 DEF Undisturbed

LEMMA FetchCost == ASSUME NEW it, NEW x \in Fetches(it) PROVE x.cost \in {0, 1}
BY DEF Fetches

LEMMA StackSeq == ASSUME CursorInv PROVE IsSeq(stack)
BY SeqIsSeq DEF CursorInv

\* What a browse of a server with a hierarchy is to list.
LEMMA TreeSources ==
  ASSUME ~flat
  PROVE  /\ Sources \subseteq Items /\ Sources \subseteq Nodes
         /\ \A i \in Items : i \in Sources <=> Depth(i) <= MaxDepth + 1
BY NamespaceAssumption DEF Sources

LEMMA FullIs ==
  ASSUME BrowseInv, pc = "browse"
  PROVE  /\ IsSeq(tags) /\ Len(tags) \in Nat /\ job.req \in Requests /\ job.req.limit \in Nat
         /\ Len(tags) <= job.req.limit
         /\ ~Full <=> Len(tags) < job.req.limit
<1>1. IsSeq(tags) /\ Len(tags) \in Nat /\ Len(tags) <= job.req.limit
  BY SeqElements DEF BrowseInv
<1>2. job.req \in Requests /\ job.req.limit \in Nat
  BY RequestsAssumption DEF BrowseInv, ReadInv, Job, Request
<1>3. QED
  BY <1>1, <1>2 DEF Full

\* A step that only moves frames and the cursor.
LEMMA SweepMoves ==
  ASSUME BrowseInv, pc = "browse", Sweep, ~flat, UNCHANGED <<flat, job, tags>>, ret' \in {Nil, "ok"},
         TreeSweep(stack', ret', cursor'),
         \A i \in Sources : Ahead(stack', cursor', i) => Ahead(stack, cursor, i),
         ~Full => \A i \in Sources : Ahead(stack, cursor, i) => Ahead(stack', cursor', i)
  PROVE  Sweep'
<1> DEFINE S == {s \in Sources : Ahead(stack, cursor, s)}
           T == {s \in Sources : Ahead(stack', cursor', s)}
<1>1. Gathered(TagAt, tags, job.req.limit, S)
  BY DEF Sweep, Left
<1>2. /\ DOMAIN TagAt \cap T \subseteq S
      /\ Len(tags) < job.req.limit => DOMAIN TagAt \cap S \subseteq T
  BY FullIs DEF TagAt
<1> HIDE DEF S, T
<1>3. Gathered(TagAt, tags, job.req.limit, T)
  BY <1>1, <1>2, GatheredKept
<1>4. Sources' = Sources /\ TagAt' = TagAt
  BY DEF Sources, TagAt, TagOf
<1>5. Left' = T
  BY <1>4 DEF Left, T
<1>6. Gathered(TagAt', tags', job'.req.limit, Left')
  BY <1>3, <1>4, <1>5
<1>7. QED
  BY <1>6 DEF Sweep

\* The top frame of a browse with frames in it.
LEMMA TreeTop ==
  ASSUME BrowseInv, pc = "browse", ret = Nil, Undisturbed, ~flat
  PROVE  /\ Sweep /\ IsSeq(stack) /\ TreeSweep(stack, Nil, cursor)
         /\ cursor \in Nodes /\ FrameOK(Top, cursor)
<1>1. Sweep /\ IsSeq(stack)
  BY StackSeq DEF BrowseInv
<1>2. TreeSweep(stack, Nil, cursor)
  BY <1>1 DEF Sweep
<1>3. cursor \in Nodes /\ FrameOK(Top, cursor)
  BY <1>1, <1>2, Organized DEF Top
<1>4. QED
  BY <1>1, <1>2, <1>3

\* Only the frame of a flat list is one of its own kind.
LEMMA FlatTop ==
  ASSUME BrowseInv, pc = "browse", ret = Nil, Undisturbed
  PROVE  flat <=> Top.phase = "flat"
<1>1. CASE flat
  <2>1. FlatSweep(stack, Nil, Sources)
    BY <1>1 DEF BrowseInv, Sweep
  <2>2. PICK it : Last(stack) = [phase |-> "flat", todo |-> <<>>, it |-> it]
    BY <2>1 DEF FlatSweep
  <2>3. QED
    BY <1>1, <2>2 DEF Top
<1>2. CASE ~flat
  <2>1. FrameOK(Top, cursor)
    BY <1>2, TreeTop
  <2>2. QED
    BY <1>2, <2>1 DEF FrameOK
<1>3. QED
  BY <1>1, <1>2

\* A step that only changes the top frame, and nothing it is to list.
LEMMA TopMoves ==
  ASSUME BrowseInv, pc = "browse", Sweep, ~flat, TreeSweep(stack, Nil, cursor), IsSeq(stack), UNCHANGED <<flat, job, tags, cursor>>,
         NEW g, FrameOK(g, cursor), Stay(g),
         \A i \in Items : AheadIn(g, cursor, i) <=> AheadIn(Top, cursor, i)
  PROVE  Sweep'
<1>1. stack' = Append(Front(stack), g) /\ ret' = Nil
  BY DEF Stay
<1>2. TreeSweep(stack', ret', cursor')
  BY <1>1, TopStep
<1>3. \A i \in Items : Ahead(stack', cursor', i) <=> Ahead(stack, cursor, i)
  <2>1. \A i : Ahead(stack', cursor, i) <=> Ahead(Front(stack), cursor, i) \/ AheadIn(g, cursor, i)
    BY <1>1, TopStep
  <2>2. \A i : Ahead(stack, cursor, i) <=> Ahead(Front(stack), cursor, i) \/ AheadIn(Top, cursor, i)
    BY Organized DEF Top
  <2>3. QED
    BY <2>1, <2>2
<1>4. QED
  BY <1>1, <1>2, <1>3, TreeSources, SweepMoves

LEMMA SweepBranches ==
  ASSUME BrowseInv, ListBranches, UNCHANGED flat, Undisturbed'
  PROVE  Sweep'
<1>1. PICK x \in Fetches(Top.it) :
        /\ Spend(x.cost)
        /\ x.f.res.kind = "name" =>
             Stay([Top EXCEPT !.it = x.f.it, !.todo = Append(@, x.f.res.name)])
        /\ x.f.res.kind = "end" =>
             Stay([Top EXCEPT !.phase = "leaves", !.it = Iterator(NamesOf(cursor, Items))])
  BY DEF ListBranches
<1>2. /\ pc = "browse" /\ ret = Nil /\ Top.phase = "branches"
      /\ UNCHANGED <<flat, job, tags, cursor>>
  BY DEF ListBranches, InFrame
<1>3. Undisturbed /\ x.cost = 0
  <2>1. x.cost \in Nat /\ faults' = faults + x.cost
    BY <1>1, FetchCost DEF Spend
  <2>2. QED
    BY <1>2, <2>1, QuietStep
<1>4. ~flat
  BY <1>2, <1>3, FlatTop
<1>5. /\ Sweep /\ IsSeq(stack) /\ TreeSweep(stack, Nil, cursor)
      /\ cursor \in Nodes /\ FrameOK(Top, cursor)
  BY <1>2, <1>3, <1>4, TreeTop
<1>6. PICK todo, it : Top = F("branches", todo, it)
  BY <1>2, <1>5, FrameFields DEF F
<1>6a. Top \in [phase : {"branches"}, todo : {todo}, it : {it}]
  BY <1>6 DEF F
<1>7. Listing(it) /\ x \in Fetches(it)
  BY <1>1, <1>5, <1>6 DEF FrameOK, F
<1>8. \/ it.rest = <<>> /\ x.f.res.kind = "end" /\ x.f.it = it
      \/ /\ it.rest # <<>> /\ x.f.res.kind = "name" /\ x.f.res.name = Head(it.rest)
         /\ Listing(x.f.it) /\ x.f.it.rest = Tail(it.rest)
  BY <1>3, <1>7, QuietFetch
<1>9. \E g : /\ FrameOK(g, cursor) /\ Stay(g)
             /\ \A i \in Items : AheadIn(g, cursor, i) <=> AheadIn(Top, cursor, i)
  <2>1. CASE it.rest = <<>> /\ x.f.res.kind = "end"
    <3> DEFINE new == Iterator(NamesOf(cursor, Items))
               g == F("leaves", todo, new)
    <3>1. FrameOK(g, cursor) /\ \A i \in Items : AheadIn(g, cursor, i) <=> AheadIn(Top, cursor, i)
      BY <1>5, <1>6, <2>1, BranchesDone
    <3> HIDE DEF new
    <3>2. [Top EXCEPT !.phase = "leaves", !.it = new] = g
      <4>1. [Top EXCEPT !.phase = "leaves", !.it = new] \in [phase : {"leaves"}, todo : {todo}, it : {new}]
        BY <1>6a
      <4>2. QED
        BY <4>1, FrameIs
    <3>3. Stay(g)
      BY <1>1, <2>1, <3>2 DEF new
    <3> HIDE DEF g
    <3>4. QED
      BY <3>1, <3>3
  <2>2. CASE /\ it.rest # <<>> /\ x.f.res.kind = "name" /\ x.f.res.name = Head(it.rest)
             /\ Listing(x.f.it) /\ x.f.it.rest = Tail(it.rest)
    <3> DEFINE next == x.f.it
               more == Append(todo, Head(it.rest))
               g == F("branches", more, next)
    <3>1. FrameOK(g, cursor) /\ \A i \in Nodes : AheadIn(g, cursor, i) <=> AheadIn(Top, cursor, i)
      BY <1>5, <1>6, <2>2, BranchStep
    <3>2. Stay([Top EXCEPT !.it = next, !.todo = Append(@, Head(it.rest))])
      BY <1>1, <2>2
    <3> HIDE DEF next
    <3>3. [Top EXCEPT !.it = next, !.todo = Append(@, Head(it.rest))] = g
      <4>1. Append(Top.todo, Head(it.rest)) = more
        BY <1>6a
      <4> HIDE DEF more
      <4>2. [Top EXCEPT !.it = next, !.todo = more] \in [phase : {"branches"}, todo : {more}, it : {next}]
        BY <1>6a
      <4>3. [Top EXCEPT !.it = next, !.todo = Append(@, Head(it.rest))] = [Top EXCEPT !.it = next, !.todo = more]
        BY <4>1
      <4>4. QED
        BY <4>2, <4>3, FrameIs
    <3>4. Stay(g)
      BY <3>2, <3>3
    <3> HIDE DEF g
    <3>5. QED
      BY <3>1, <3>4, NamespaceAssumption
  <2>3. QED
    BY <1>8, <2>1, <2>2
<1>10. PICK g : /\ FrameOK(g, cursor) /\ Stay(g)
                /\ \A i \in Items : AheadIn(g, cursor, i) <=> AheadIn(Top, cursor, i)
  BY <1>9
<1>11. QED
  BY <1>2, <1>4, <1>5, <1>10, TopMoves

\* Resolved at the cursor without a fault, a leaf name is its item's ID.
LEMMA SweepLeaves ==
  ASSUME BrowseInv, ListLeaves, UNCHANGED flat, Undisturbed'
  PROVE  Sweep'
<1>1. /\ pc = "browse" /\ ret = Nil /\ Top.phase = "leaves" /\ ~Full
      /\ UNCHANGED <<flat, job, cursor>>
  BY DEF ListLeaves, InFrame
<1>2. PICK x \in Fetches(Top.it) :
        \E n \in Nat :
          /\ faults' = faults + n
          /\ n = 0 => x.cost = 0
          /\ \/ /\ x.f.res.kind = "name" /\ Stay([Top EXCEPT !.it = x.f.it])
                /\ n = 0 => \E k \in ChildNamed(cursor, x.f.res.name) : tags' = Append(tags, Id[k])
             \/ x.f.res.kind = "end" /\ Stay([Top EXCEPT !.phase = "down"]) /\ tags' = tags
             \/ x.f.res.kind \in {"broken", "stuck"}
  <2>1. PICK x \in Fetches(Top.it) :
          \/ /\ x.f.res.kind = "name"
             /\ \E r \in Resolved(x.f.res.name) :
                  Spend(x.cost + r.cost) /\ tags' = Append(tags, r.tag)
             /\ Stay([Top EXCEPT !.it = x.f.it])
          \/ /\ x.f.res.kind = "end"
             /\ Spend(x.cost) /\ Stay([Top EXCEPT !.phase = "down"]) /\ tags' = tags
          \/ x.f.res.kind \in {"broken", "stuck"} /\ Spend(x.cost)
    BY DEF ListLeaves
  <2>2. x.cost \in {0, 1}
    BY FetchCost
  <2>3. CASE /\ x.f.res.kind = "name"
             /\ \E r \in Resolved(x.f.res.name) :
                  Spend(x.cost + r.cost) /\ tags' = Append(tags, r.tag)
             /\ Stay([Top EXCEPT !.it = x.f.it])
    <3>1. PICK r \in Resolved(x.f.res.name) : Spend(x.cost + r.cost) /\ tags' = Append(tags, r.tag)
      BY <2>3
    <3>2. /\ r.cost \in {0, 1}
          /\ r.cost = 0 => \E k \in ChildNamed(cursor, x.f.res.name) : r.tag = Id[k]
      BY DEF Resolved
    <3>3. /\ x.cost + r.cost \in Nat /\ faults' = faults + (x.cost + r.cost)
          /\ x.cost + r.cost = 0 => x.cost = 0 /\ r.cost = 0
      BY <2>2, <3>1, <3>2 DEF Spend
    <3>4. QED
      BY <2>3, <3>1, <3>2, <3>3
  <2>4. CASE /\ x.f.res.kind = "end"
             /\ Spend(x.cost) /\ Stay([Top EXCEPT !.phase = "down"]) /\ tags' = tags
    <3>1. x.cost \in Nat /\ faults' = faults + x.cost
      BY <2>2, <2>4 DEF Spend
    <3>2. QED
      BY <2>4, <3>1
  <2>5. CASE x.f.res.kind \in {"broken", "stuck"} /\ Spend(x.cost)
    <3>1. x.cost \in Nat /\ faults' = faults + x.cost
      BY <2>2, <2>5 DEF Spend
    <3>2. QED
      BY <2>5, <3>1
  <2>6. QED
    BY <2>1, <2>3, <2>4, <2>5
<1>3. /\ Undisturbed /\ x.cost = 0
      /\ \/ /\ x.f.res.kind = "name" /\ Stay([Top EXCEPT !.it = x.f.it])
            /\ \E k \in ChildNamed(cursor, x.f.res.name) : tags' = Append(tags, Id[k])
         \/ x.f.res.kind = "end" /\ Stay([Top EXCEPT !.phase = "down"]) /\ tags' = tags
         \/ x.f.res.kind \in {"broken", "stuck"}
  BY <1>1, <1>2, QuietStep
<1>4. ~flat
  BY <1>1, <1>3, FlatTop
<1>5. /\ Sweep /\ IsSeq(stack) /\ TreeSweep(stack, Nil, cursor)
      /\ cursor \in Nodes /\ FrameOK(Top, cursor)
  BY <1>1, <1>3, <1>4, TreeTop
<1>6. PICK todo, it : Top = F("leaves", todo, it)
  BY <1>1, <1>5, FrameFields DEF F
<1>7. Top \in [phase : {"leaves"}, todo : {todo}, it : {it}]
  BY <1>6 DEF F
<1>8. Listing(it) /\ x \in Fetches(it)
  BY <1>2, <1>5, <1>6 DEF FrameOK, F
<1>9. \/ it.rest = <<>> /\ x.f.res.kind = "end" /\ x.f.it = it
      \/ /\ it.rest # <<>> /\ x.f.res.kind = "name" /\ x.f.res.name = Head(it.rest)
         /\ Listing(x.f.it) /\ x.f.it.rest = Tail(it.rest)
  BY <1>3, <1>8, QuietFetch
<1>10. CASE it.rest = <<>> /\ x.f.res.kind = "end"
  <2> DEFINE g == F("down", todo, it)
  <2>1. FrameOK(g, cursor) /\ \A i \in Nodes : AheadIn(g, cursor, i) <=> AheadIn(Top, cursor, i)
    BY <1>5, <1>6, <1>10, LeavesDone
  <2>2. [Top EXCEPT !.phase = "down"] = g
    <3>1. [Top EXCEPT !.phase = "down"] \in [phase : {"down"}, todo : {todo}, it : {it}]
      BY <1>7
    <3>2. QED
      BY <3>1, FrameIs
  <2>3. Stay(g) /\ tags' = tags
    BY <1>3, <1>10, <2>2
  <2> HIDE DEF g
  <2>4. QED
    BY <1>1, <1>4, <1>5, <2>1, <2>3, TopMoves, NamespaceAssumption
<1>11. CASE /\ it.rest # <<>> /\ x.f.res.kind = "name" /\ x.f.res.name = Head(it.rest)
            /\ Listing(x.f.it) /\ x.f.it.rest = Tail(it.rest)
  <2> DEFINE next == x.f.it
             g == F("leaves", todo, next)
  <2>1. PICK k \in KidsOf(cursor) : Name[k] = Head(it.rest) /\ tags' = Append(tags, Id[k])
    BY <1>3, <1>11 DEF ChildNamed
  <2>2. /\ FrameOK(g, cursor) /\ k \in Items /\ AheadIn(Top, cursor, k)
        /\ \A i \in Nodes : AheadIn(g, cursor, i) <=> AheadIn(Top, cursor, i) /\ i # k
    BY <1>5, <1>6, <1>11, <2>1, LeafStep
  <2>3. [Top EXCEPT !.it = next] = g
    <3>1. [Top EXCEPT !.it = next] \in [phase : {"leaves"}, todo : {todo}, it : {next}]
      BY <1>7
    <3>2. QED
      BY <3>1, FrameIs
  <2>4. Stay(g)
    BY <1>3, <1>11, <2>3
  <2> HIDE DEF g
  <2>5. stack' = Append(Front(stack), g) /\ ret' = Nil
    BY <2>4 DEF Stay
  <2>6. /\ TreeSweep(stack', ret', cursor')
        /\ \A i : Ahead(stack', cursor', i) <=> Ahead(Front(stack), cursor, i) \/ AheadIn(g, cursor, i)
    BY <1>1, <1>5, <2>2, <2>5, TopStep
  <2>7. /\ \A i : Ahead(stack, cursor, i) <=> Ahead(Front(stack), cursor, i) \/ AheadIn(Top, cursor, i)
        /\ IsSeq(Front(stack)) /\ AllDown(Front(stack), cursor)
        /\ Depth(cursor) = Len(Front(stack)) /\ Len(Front(stack)) \in Nat
        /\ Len(stack) = Len(Front(stack)) + 1 /\ Len(stack) <= MaxDepth + 1
    BY <1>5, Organized DEF Top
  <2>8. ~Ahead(Front(stack), cursor, k)
    BY <1>5, <2>7, NotBehind
  <2>9. k \in Sources
    <3>1. Depth(k) <= MaxDepth + 1
      BY <1>5, <2>1, <2>7, KidWay
    <3>2. QED
      BY <1>4, <2>2, <3>1, TreeSources
  <2> DEFINE S == {s \in Sources : Ahead(stack, cursor, s)}
             T == {s \in Sources : Ahead(stack', cursor', s)}
  <2>10. T = S \ {k} /\ k \in Sources \cap S
    BY <1>4, <2>2, <2>6, <2>7, <2>8, <2>9, TreeSources
  <2>11. Gathered(TagAt, tags, job.req.limit, S)
    BY <1>4, <1>5, <1>1 DEF Sweep, Left
  <2>12. Sources' = Sources /\ TagAt' = TagAt /\ Left' = T /\ ret' = Nil
    BY <1>1, <1>4, <2>5 DEF Left, Sources, TagAt, TagOf
  <2> HIDE DEF S, T
  <2>13. Gathered(TagAt, tags', job.req.limit, T)
    <3> DEFINE tag == TagAt
    <3>1. k \in DOMAIN tag \cap S /\ tag[k] = Id[k] /\ tags' = Append(tags, tag[k])
      BY <1>4, <2>1, <2>10 DEF TagAt, TagOf
    <3>2. Gathered(tag, tags, job.req.limit, S) /\ IsSeq(tags) /\ Len(tags) < job.req.limit
      BY <1>1, <2>11, FullIs
    <3> HIDE DEF tag
    <3>3. Gathered(tag, Append(tags, tag[k]), job.req.limit, S \ {k})
      BY <3>1, <3>2, GatheredMore
    <3>4. QED
      BY <2>10, <3>1, <3>3 DEF tag
  <2>14. Gathered(TagAt', tags', job'.req.limit, Left')
    BY <1>1, <2>12, <2>13
  <2>15. QED
    BY <1>1, <1>4, <2>6, <2>12, <2>14 DEF Sweep
<1>12. QED
  BY <1>9, <1>10, <1>11
LEMMA SweepLeave ==
  ASSUME BrowseInv, LeaveFrame, UNCHANGED flat, Undisturbed'
  PROVE  Sweep'
<1>1. /\ pc = "browse" /\ ret = Nil /\ Top.phase \in {"leaves", "down"}
      /\ Full \/ (Top.phase = "down" /\ Top.todo = <<>>)
      /\ stack' = Front(stack) /\ ret' = "ok"
      /\ UNCHANGED <<flat, job, tags, cursor, faults>>
  BY DEF LeaveFrame, InFrame, Return
<1>2. Undisturbed
  BY <1>1 DEF Undisturbed
<1>3. ~flat
  BY <1>1, <1>2, FlatTop
<1>4. /\ Sweep /\ IsSeq(stack) /\ TreeSweep(stack, Nil, cursor)
      /\ cursor \in Nodes /\ FrameOK(Top, cursor)
  BY <1>1, <1>2, <1>3, TreeTop
<1>5. TreeSweep(stack', ret', cursor')
  BY <1>1, <1>4, TopLeft
<1>6. \A i : Ahead(stack, cursor, i) <=> Ahead(Front(stack), cursor, i) \/ AheadIn(Top, cursor, i)
  BY <1>4, Organized DEF Top
<1>7. ASSUME ~Full, NEW i PROVE ~AheadIn(Top, cursor, i)
  <2>1. PICK phase, todo, it : Top = F(phase, todo, it)
    BY <1>4, FrameFields
  <2>2. phase = "down" /\ todo = <<>>
    BY <1>1, <1>7, <2>1 DEF F
  <2>3. QED
    BY <2>1, <2>2, AllVisited
<1>8. QED
  BY <1>1, <1>3, <1>4, <1>5, <1>6, <1>7, SweepMoves

\* What hangs too deep to be visited is not to be listed.
LEMMA SweepDescend ==
  ASSUME BrowseInv, Descend, UNCHANGED flat, Undisturbed'
  PROVE  Sweep'
<1>1. /\ pc = "browse" /\ ret = Nil /\ Top.phase = "down" /\ ~Full /\ Top.todo # <<>>
      /\ cursor' \in ChildNamed(cursor, Head(Top.todo)) \cap Branches
      /\ Enter(Append(Front(stack), [Top EXCEPT !.todo = Tail(@)]), cursor')
      /\ UNCHANGED <<flat, job, tags, faults>>
  BY DEF Descend, InFrame
<1>2. Undisturbed
  BY <1>1 DEF Undisturbed
<1>3. ~flat
  BY <1>1, <1>2, FlatTop
<1>4. /\ Sweep /\ IsSeq(stack) /\ TreeSweep(stack, Nil, cursor)
      /\ cursor \in Nodes /\ FrameOK(Top, cursor)
  BY <1>1, <1>2, <1>3, TreeTop
<1>5. PICK todo, it : Top = F("down", todo, it)
  BY <1>1, <1>4, FrameFields DEF F
<1>6. Top \in [phase : {"down"}, todo : {todo}, it : {it}]
  BY <1>5 DEF F
<1> DEFINE less == Tail(todo)
           g == F("down", less, it)
           k == cursor'
           left == Append(Front(stack), g)
<1>7. [Top EXCEPT !.todo = Tail(@)] = g
  <2>1. Tail(Top.todo) = less
    BY <1>6
  <2> HIDE DEF less
  <2>2. [Top EXCEPT !.todo = less] \in [phase : {"down"}, todo : {less}, it : {it}]
    BY <1>6
  <2>3. [Top EXCEPT !.todo = Tail(@)] = [Top EXCEPT !.todo = less]
    BY <2>1
  <2>4. QED
    BY <2>2, <2>3, FrameIs
<1>8. k \in KidsOf(cursor) /\ k \in Branches /\ Name[k] = Head(todo) /\ todo # <<>>
  BY <1>1, <1>6 DEF ChildNamed
<1>9. /\ FrameOK(g, cursor) /\ Name[k] \notin ToSet(less)
      /\ \A i \in Nodes : AheadIn(Top, cursor, i) <=> AheadIn(g, cursor, i) \/ k \in Above[i]
  BY <1>4, <1>5, <1>8, DownStep
<1>10. g.phase = "down" /\ g.todo = less
  BY DEF F
<1> HIDE DEF g, less, k
<1>11. /\ TreeSweep(left, "ok", k)
       /\ Len(left) = Depth(k) /\ Depth(k) \in Nat
       /\ Len(left) <= MaxDepth => TreeSweep(Append(left, Frame(k)), Nil, k)
       /\ \A i : Ahead(left, k, i) <=> Ahead(Front(stack), cursor, i) \/ AheadIn(g, cursor, i)
       /\ \A i \in Nodes :
            Ahead(Append(left, Frame(k)), k, i)
              <=> Ahead(Front(stack), cursor, i) \/ AheadIn(g, cursor, i) \/ k \in Above[i]
  BY <1>4, <1>8, <1>9, <1>10, Deeper
<1>12. \A i : Ahead(stack, cursor, i) <=> Ahead(Front(stack), cursor, i) \/ AheadIn(Top, cursor, i)
  BY <1>4, Organized DEF Top
<1>13. Enter(left, k)
  BY <1>1, <1>7 DEF k
<1> HIDE DEF left
<1>14. CASE Len(left) > MaxDepth /\ stack' = left /\ ret' = "ok"
  <2>1. \A i \in Sources : k \notin Above[i]
    <3>1. ASSUME NEW i \in Sources, k \in Above[i] PROVE FALSE
      <4>1. i \in Nodes /\ Depth(i) \in Nat /\ Depth(i) <= MaxDepth + 1
        BY <1>3, TreeSources, OnWay
      <4>2. Depth(k) < Depth(i)
        BY <3>1, <4>1, OnWay
      <4>3. QED
        BY <1>11, <1>14, <4>1, <4>2, RequestsAssumption
    <3>2. QED
      BY <3>1
  <2>2. \A i \in Sources : Ahead(stack', k, i) <=> Ahead(stack, cursor, i)
    BY <1>3, <1>9, <1>11, <1>12, <1>14, <2>1, TreeSources
  <2>3. QED
    BY <1>1, <1>3, <1>4, <1>11, <1>14, <2>2, SweepMoves DEF k
<1>15. CASE Len(left) <= MaxDepth /\ stack' = Append(left, Frame(k)) /\ ret' = Nil
  <2>1. \A i \in Sources : Ahead(stack', k, i) <=> Ahead(stack, cursor, i)
    BY <1>3, <1>9, <1>11, <1>12, <1>15, TreeSources
  <2>2. QED
    BY <1>1, <1>3, <1>4, <1>11, <1>15, <2>1, SweepMoves DEF k
<1>16. QED
  <2>1. \/ Len(left) > MaxDepth /\ stack' = left /\ ret' = "ok"
        \/ ~(Len(left) > MaxDepth) /\ stack' = Append(left, Frame(k)) /\ ret' = Nil
    BY <1>1, <1>13 DEF Enter
  <2>2. ~(Len(left) > MaxDepth) => Len(left) <= MaxDepth
    BY <1>11, RequestsAssumption
  <2>3. QED
    BY <1>14, <1>15, <2>1, <2>2

\* Without a fault no call is refused: the branch exists, and so does the way up.
LEMMA NoneRefused ==
  ASSUME BrowseInv, FrameFails \/ DescendRefused \/ AscendRefused, UNCHANGED flat, Undisturbed'
  PROVE  FALSE
<1>1. pc = "browse" /\ job' = job
  BY DEF FrameFails, DescendRefused, AscendRefused, InFrame, Returned
<1>2. CASE FrameFails
  <2>1. faults' = faults + 1
    BY <1>2 DEF FrameFails, Spend
  <2>2. QED
    BY <1>1, <2>1, QuietStep
<1>3. CASE DescendRefused
  <2> DEFINE n == IF ChildNamed(cursor, Head(Top.todo)) \cap Branches = {} THEN 0 ELSE 1
  <2>1. /\ ret = Nil /\ Top.phase = "down" /\ Top.todo # <<>>
        /\ faults' = faults + n /\ n \in Nat
    BY <1>3 DEF DescendRefused, InFrame, Spend
  <2> HIDE DEF n
  <2>2. Undisturbed /\ n = 0
    BY <1>1, <2>1, QuietStep
  <2>3. ~flat
    BY <1>1, <2>1, <2>2, FlatTop
  <2>4. FrameOK(Top, cursor)
    BY <1>1, <2>1, <2>2, <2>3, TreeTop
  <2>5. Top.todo \in Seq(ToSet(Top.todo)) /\ ToSet(Top.todo) \subseteq ChildNames(cursor, Branches)
    BY <2>4 DEF FrameOK, IsSeq
  <2>6. Head(Top.todo) \in ChildNames(cursor, Branches)
    <3> DEFINE todo == Top.todo
    <3> HIDE DEF todo
    <3>1. todo \in Seq(ToSet(todo)) /\ todo # <<>> => Head(todo) \in ToSet(todo)
      BY HeadTailProperties
    <3>2. QED
      BY <2>1, <2>5, <3>1 DEF todo
  <2>7. ChildNamed(cursor, Head(Top.todo)) \cap Branches # {}
    BY <2>6 DEF ChildNames, ChildNamed
  <2>8. QED
    BY <2>2, <2>7 DEF n
<1>4. CASE AscendRefused
  <2> DEFINE n == IF cursor = Root THEN 0 ELSE 1
  <2>1. ret # Nil /\ stack # <<>> /\ faults' = faults + n /\ n \in Nat
    BY <1>4 DEF AscendRefused, Returned, Spend
  <2> HIDE DEF n
  <2>2. Undisturbed /\ n = 0
    BY <1>1, <2>1, QuietStep
  <2>3. Sweep /\ IsSeq(stack)
    BY <1>1, <2>2, StackSeq DEF BrowseInv
  <2>4. ret = "ok" /\ ~flat /\ TreeSweep(stack, "ok", cursor)
    BY <2>1, <2>3 DEF Sweep, FlatSweep
  <2>5. cursor # Root
    BY <2>1, <2>3, <2>4, Higher
  <2>6. QED
    BY <2>2, <2>5 DEF n
<1>5. QED
  BY <1>2, <1>3, <1>4

LEMMA SweepAscend ==
  ASSUME BrowseInv, Ascend, UNCHANGED flat, Undisturbed'
  PROVE  Sweep'
<1>1. /\ pc = "browse" /\ ret # Nil /\ stack # <<>> /\ cursor' = Parent(cursor)
      /\ ret = "stuck" \/ (stack' = stack /\ ret' = Nil)
      /\ UNCHANGED <<flat, job, tags, faults>>
  BY DEF Ascend, Returned, UpTarget
<1>2. Sweep /\ IsSeq(stack)
  BY <1>1, StackSeq DEF BrowseInv, Undisturbed
<1>3. ret = "ok" /\ ~flat /\ TreeSweep(stack, "ok", cursor)
  BY <1>1, <1>2 DEF Sweep, FlatSweep
<1>4. stack' = stack /\ ret' = Nil
  BY <1>1, <1>3
<1>5. /\ TreeSweep(stack, Nil, Parent(cursor))
      /\ \A i : Ahead(stack, Parent(cursor), i) <=> Ahead(stack, cursor, i)
  BY <1>1, <1>2, <1>3, Higher
<1>6. QED
  BY <1>1, <1>2, <1>3, <1>4, <1>5, SweepMoves
\* The flat list gives its item IDs one by one.
LEMMA SweepList ==
  ASSUME BrowseInv, ListFlat, UNCHANGED flat, Undisturbed'
  PROVE  Sweep'
<1>1. /\ pc = "browse" /\ ret = Nil /\ Top.phase = "flat"
      /\ UNCHANGED <<flat, job, cursor>>
  BY DEF ListFlat, InFrame
<1>2. PICK x \in Fetches(Top.it) :
        /\ Spend(x.cost)
        /\ \/ x.f.res.kind = "end" /\ Return("ok") /\ tags' = tags
           \/ x.f.res.kind # "end" /\ Full /\ Return("ok") /\ tags' = tags
           \/ /\ x.f.res.kind = "name" /\ ~Full
              /\ tags' = Append(tags, x.f.res.name) /\ Stay([Top EXCEPT !.it = x.f.it])
           \/ x.f.res.kind \in {"broken", "stuck"}
  BY DEF ListFlat
<1>3. Undisturbed /\ x.cost = 0
  <2>1. x.cost \in Nat /\ faults' = faults + x.cost
    BY <1>2, FetchCost DEF Spend
  <2>2. QED
    BY <1>1, <2>1, QuietStep
<1>4. flat /\ Sweep
  BY <1>1, <1>3, FlatTop DEF BrowseInv
<1>5. PICK it : /\ Top = [phase |-> "flat", todo |-> <<>>, it |-> it]
                /\ Front(stack) = <<>> /\ Listing(it) /\ ToSet(it.rest) \subseteq Sources
  <2>1. FlatSweep(stack, Nil, Sources)
    BY <1>1, <1>4 DEF Sweep
  <2>2. /\ Front(stack) = <<>> /\ Listing(Last(stack).it) /\ ToSet(Last(stack).it.rest) \subseteq Sources
        /\ Last(stack) = [phase |-> "flat", todo |-> <<>>, it |-> Last(stack).it]
    BY <2>1 DEF FlatSweep
  <2>3. QED
    BY <2>2 DEF Top
<1>6. Top \in [phase : {"flat"}, todo : {<<>>}, it : {it}]
  BY <1>5
<1>7. Top.it = it /\ x \in Fetches(it) /\ Listing(it)
  BY <1>5, <1>6
<1>8. Gathered(TagAt, tags, job.req.limit, ToSet(it.rest))
  BY <1>1, <1>4, <1>7 DEF Sweep, Left, Top
<1>9. Sources' = Sources /\ TagAt' = TagAt
  BY <1>1 DEF Sources, TagAt, TagOf
<1>10. \/ it.rest = <<>> /\ x.f.res.kind = "end" /\ x.f.it = it
       \/ /\ it.rest # <<>> /\ x.f.res.kind = "name" /\ x.f.res.name = Head(it.rest)
          /\ Listing(x.f.it) /\ x.f.it.rest = Tail(it.rest)
  BY <1>3, <1>7, QuietFetch
<1>11. ASSUME Return("ok"), tags' = tags, Gathered(TagAt, tags, job.req.limit, {}) PROVE Sweep'
  <2>1. stack' = <<>> /\ ret' = "ok" /\ ret' # Nil
    BY <1>5, <1>11, RequestsAssumption DEF Return
  <2>2. Left' = {}
    BY <1>1, <1>4, <2>1 DEF Left
  <2>3. Gathered(TagAt', tags', job'.req.limit, Left')
    BY <1>1, <1>9, <1>11, <2>2
  <2>4. QED
    BY <1>1, <1>4, <2>1, <2>3 DEF Sweep, FlatSweep
<1>12. CASE it.rest = <<>> /\ x.f.res.kind = "end"
  <2>1. ToSet(it.rest) = {}
    BY <1>12 DEF ToSet
  <2>2. QED
    BY <1>2, <1>8, <1>11, <1>12, <2>1
<1>13. CASE /\ it.rest # <<>> /\ x.f.res.kind = "name" /\ x.f.res.name = Head(it.rest)
            /\ Listing(x.f.it) /\ x.f.it.rest = Tail(it.rest)
  <2>1. CASE Full /\ Return("ok") /\ tags' = tags
    <3> DEFINE S == ToSet(it.rest)
    <3>1. ~(Len(tags) < job.req.limit)
      BY <1>1, <2>1, FullIs
    <3>2. Gathered(TagAt, tags, job.req.limit, S)
      BY <1>8
    <3> HIDE DEF S
    <3>3. Gathered(TagAt, tags, job.req.limit, {})
      BY <3>1, <3>2, GatheredKept
    <3>4. QED
      BY <1>11, <2>1, <3>3
  <2>2. CASE ~Full /\ tags' = Append(tags, Head(it.rest)) /\ Stay([Top EXCEPT !.it = x.f.it])
    <3> DEFINE h == Head(it.rest)
               S == ToSet(it.rest)
               R == ToSet(x.f.it.rest)
               next == x.f.it
               g == F("flat", <<>>, next)
               tag == TagAt
    <3>1. it.rest \in Seq(ToSet(it.rest)) /\ IsInjective(it.rest)
      BY <1>5 DEF Listing, IsSeq
    <3>2. h \in S /\ S = R \cup {h} /\ h \notin R
      BY <1>13, <3>1, RestSplit
    <3>3. h \in DOMAIN tag \cap S /\ tag[h] = h
      BY <1>4, <1>5, <3>2 DEF TagAt, TagOf
    <3>4. Gathered(tag, tags, job.req.limit, S) /\ IsSeq(tags) /\ Len(tags) < job.req.limit
      BY <1>1, <1>8, <2>2, FullIs
    <3>5. [Top EXCEPT !.it = next] = g
      <4> HIDE DEF next
      <4>1. [Top EXCEPT !.it = next] \in [phase : {"flat"}, todo : {<<>>}, it : {next}]
        BY <1>6
      <4>2. QED
        BY <4>1, FrameIs
    <3>6. stack' = Append(<<>>, g) /\ ret' = Nil
      BY <1>5, <2>2, <3>5 DEF Stay
    <3>7. stack' # <<>> /\ Front(stack') = <<>> /\ Last(stack') = g
      <4> HIDE DEF g
      <4>1. QED
        BY <3>6, LastFrame, NoSeq
    <3>8. g = [phase |-> "flat", todo |-> <<>>, it |-> next] /\ g.it = next
      BY DEF F
    <3>9. Left' = R
      BY <1>1, <1>4, <3>6, <3>7, <3>8 DEF Left
    <3>10. FlatSweep(stack', ret', Sources')
      <4>1. R \subseteq Sources'
        BY <1>5, <1>9, <3>2
      <4> HIDE DEF g, R, next
      <4>2. Listing(next) /\ R = ToSet(next.rest)
        BY <1>13 DEF R, next
      <4>3. QED
        BY <3>6, <3>7, <3>8, <4>1, <4>2 DEF FlatSweep
    <3>11. tags' = Append(tags, tag[h])
      BY <2>2, <3>3
    <3> HIDE DEF h, S, R, tag
    <3>12. Gathered(tag, Append(tags, tag[h]), job.req.limit, S \ {h})
      BY <3>3, <3>4, GatheredMore
    <3>13. R = S \ {h}
      BY <3>2
    <3>14. Gathered(TagAt', tags', job'.req.limit, Left')
      BY <1>1, <1>9, <3>9, <3>11, <3>12, <3>13 DEF tag
    <3>15. QED
      BY <1>1, <1>4, <3>6, <3>10, <3>14 DEF Sweep
  <2>3. QED
    BY <1>2, <1>13, <2>1, <2>2
<1>14. QED
  BY <1>10, <1>12, <1>13

\* Nothing is gathered yet, and all is left.
LEMMA GatheredNone ==
  ASSUME NEW tag, NEW limit
  PROVE  Gathered(tag, <<>>, limit, DOMAIN tag)
<1> DEFINE from == [k \in {} |-> {}]
<1>1. from \in [{} -> DOMAIN tag \ DOMAIN tag]
  OBVIOUS
<1>2. IsInjective(from)
  BY DEF IsInjective
<1>3. DOMAIN <<>> = {}
  OBVIOUS
<1>4. \A k \in {} : <<>>[k] = tag[from[k]]
  OBVIOUS
<1> HIDE DEF from
<1>5. QED
  BY <1>1, <1>2, <1>3, <1>4 DEF Gathered
\* The list of a flat server is of all its item IDs.
LEMMA AllListed ==
  LET ids == SetToSeq({Id[i] : i \in ItemsBelow(Root)})
  IN ToSet(ids) = {Id[n] : n \in Items} /\ Listing(Iterator(ids)) /\ Iterator(ids).rest = ids
<1> DEFINE S == {Id[i] : i \in ItemsBelow(Root)}
           ids == SetToSeq(S)
<1>1. Items \subseteq Nodes /\ Root \notin Items /\ IsFiniteSet(Items)
  <2>1. Items \subseteq Nodes /\ Root \notin Items /\ IsFiniteSet(Nodes)
    BY NamespaceAssumption
  <2>2. QED
    BY <2>1, FS_Subset
<1>2. ItemsBelow(Root) = Items
  BY <1>1, WayFacts DEF ItemsBelow
<1>3. S = {Id[n] : n \in Items}
  BY <1>2
<1>4. IsFiniteSet(S)
  BY <1>1, <1>3, FiniteImage
<1> HIDE DEF S
<1>5. ids \in Seq(S) /\ ToSet(ids) = S /\ IsInjective(ids)
  BY <1>4, ListOfSet
<1> HIDE DEF ids
<1>6. Listing(Iterator(ids)) /\ Iterator(ids).rest = ids
  BY <1>5, NewListing
<1>7. QED
  BY <1>3, <1>5, <1>6 DEF ids, S

LEMMA SweepBegins ==
  ASSUME BrowseInv, BeginBrowse, UNCHANGED flat, Undisturbed'
  PROVE  Sweep'
<1>1. /\ pc = "begin" /\ tags = <<>> /\ tags' = <<>> /\ UNCHANGED <<flat, job, cursor, faults, adrift>>
  BY DEF BeginBrowse, BrowseInv
<1>2. cursor = Root
  BY <1>1 DEF BrowseInv, CursorInv, Undisturbed
<1>3. job.req.limit \in Nat
  BY <1>1, RequestsAssumption DEF BrowseInv, ReadInv, Job, Request
<1>4. Sources' = Sources /\ TagAt' = TagAt /\ DOMAIN TagAt = Sources
  BY <1>1 DEF Sources, TagAt, TagOf
<1>5. Gathered(TagAt, <<>>, job.req.limit, Sources)
  <2> DEFINE tag == TagAt
             all == Sources
  <2>1. DOMAIN tag = all
    BY <1>4
  <2> HIDE DEF tag, all
  <2>2. Gathered(tag, <<>>, job.req.limit, all)
    BY <2>1, GatheredNone
  <2>3. QED
    BY <2>2 DEF tag, all
<1>6. CASE flat
  <2> DEFINE ids == SetToSeq({Id[i] : i \in ItemsBelow(Root)})
             it == Iterator(ids)
             g == [phase |-> "flat", todo |-> <<>>, it |-> it]
  <2>1. ToSet(ids) = Sources /\ Listing(it) /\ it.rest = ids
    BY <1>6, AllListed DEF Sources
  <2>2. ret' = Nil /\ stack' = <<g>>
    BY <1>6 DEF BeginBrowse
  <2> HIDE DEF ids, it
  <2>3. g = [phase |-> "flat", todo |-> <<>>, it |-> g.it] /\ g.it = it
    OBVIOUS
  <2> HIDE DEF g
  <2>4. stack' # <<>> /\ Front(stack') = <<>> /\ Last(stack') = g
    <3>1. stack' = Append(<<>>, g)
      BY <2>2
    <3>2. QED
      BY <3>1, LastFrame, NoSeq
  <2>5. Left' = Sources
    BY <1>1, <1>6, <2>1, <2>2, <2>3, <2>4 DEF Left
  <2>6. FlatSweep(stack', ret', Sources')
    BY <1>4, <2>1, <2>2, <2>3, <2>4 DEF FlatSweep
  <2>7. Gathered(TagAt', tags', job'.req.limit, Left')
    BY <1>1, <1>4, <1>5, <2>5
  <2>8. QED
    BY <1>1, <1>6, <2>2, <2>6, <2>7 DEF Sweep
<1>7. CASE ~flat
  <2>1. Enter(<<>>, Root)
    BY <1>2, <1>7 DEF BeginBrowse
  <2>2. Root \in Nodes /\ Root \in Branches /\ Depth(Root) = 0 /\ IsSeq(<<>>) /\ Len(<<>>) = 0
    BY RootTrail, NoSeq, NamespaceAssumption DEF Depth
  <2>3. AllDown(<<>>, Root) /\ \A i : ~Ahead(<<>>, Root, i)
    BY <2>2 DEF AllDown, Ahead
  <2>4. CASE Full /\ stack' = <<>> /\ ret' = "ok"
    <3>1. TreeSweep(stack', ret', cursor')
      BY <1>1, <1>2, <2>2, <2>3, <2>4, RequestsAssumption DEF TreeSweep
    <3>2. Left' = {}
      BY <1>1, <1>2, <1>7, <2>3, <2>4 DEF Left
    <3>3. ~(Len(<<>>) < job.req.limit)
      BY <1>1, <1>3, <2>2, <2>4 DEF Full
    <3>4. Gathered(TagAt, <<>>, job.req.limit, {})
      BY <1>5, <3>3, GatheredKept
    <3>5. Gathered(TagAt', tags', job'.req.limit, Left')
      BY <1>1, <1>4, <3>2, <3>4
    <3>6. QED
      BY <1>1, <1>7, <2>4, <3>1, <3>5 DEF Sweep
  <2>5. CASE stack' = Append(<<>>, Frame(Root)) /\ ret' = Nil
    <3> DEFINE new == Append(<<>>, Frame(Root))
    <3>1. new # <<>> /\ Front(new) = <<>> /\ Last(new) = Frame(Root) /\ Len(new) = 1
      <4> DEFINE f == Frame(Root)
      <4> HIDE DEF f
      <4>1. Append(<<>>, f) # <<>> /\ Front(Append(<<>>, f)) = <<>> /\ Last(Append(<<>>, f)) = f
        BY <2>2, LastFrame
      <4>2. Len(Append(<<>>, f)) = 1
        BY <2>2, AppendSeq
      <4>3. QED
        BY <4>1, <4>2 DEF f
    <3>2. FrameOK(Frame(Root), Root)
      BY <2>2, FrameNew
    <3>3. \A i : Ahead(new, Root, i) <=> Ahead(<<>>, Root, i) \/ AheadIn(Frame(Root), Root, i)
      BY <2>2, AheadPush
    <3> HIDE DEF new
    <3>4. TreeSweep(new, Nil, Root)
      <4>1. Len(new) <= MaxDepth + 1
        BY <3>1, RequestsAssumption
      <4>2. QED
        BY <2>2, <2>3, <3>1, <3>2, <4>1 DEF TreeSweep
    <3>5. \A i \in Sources : Ahead(new, Root, i)
      <4>1. \A i \in Sources : i \in Nodes /\ i # Root
        BY <1>7, TreeSources, NamespaceAssumption
      <4>2. \A i \in Sources : Root \in Above[i]
        BY <4>1, WayFacts
      <4>3. QED
        BY <2>2, <3>3, <4>1, <4>2, FrameAhead
    <3>6. stack' = new /\ ret' = Nil
      BY <2>5 DEF new
    <3>7. Left' = Sources
      BY <1>1, <1>2, <1>4, <1>7, <3>5, <3>6 DEF Left
    <3>8. Gathered(TagAt', tags', job'.req.limit, Left')
      BY <1>1, <1>4, <1>5, <3>7
    <3>9. QED
      BY <1>1, <1>2, <1>7, <3>4, <3>6, <3>8 DEF Sweep
  <2>6. QED
    <3>1. ~(Len(<<>>) > MaxDepth)
      BY <2>2, RequestsAssumption
    <3>2. QED
      BY <2>1, <2>4, <2>5, <3>1 DEF Enter
<1>8. QED
  BY <1>6, <1>7

\* With the last frame left, nothing is left to list.
LEMMA SweepEnds ==
  ASSUME BrowseInv, pc = "browse", Undisturbed, ret = "ok", stack = <<>>
  PROVE  Gathered(TagAt, tags, job.req.limit, {})
<1>1. Gathered(TagAt, tags, job.req.limit, Left)
  BY DEF BrowseInv, Sweep
<1>2. Left = {}
  <2>1. ret # Nil /\ Len(<<>>) = 0
    BY RequestsAssumption, NoSeq
  <2>2. \A i : ~Ahead(<<>>, cursor, i)
    BY <2>1 DEF Ahead
  <2>3. QED
    BY <2>1, <2>2 DEF Left
<1>3. QED
  BY <1>1, <1>2
-----------------------------------------------------------------------------
(* Every request. *)

LEMMA QuietBefore ==
  ASSUME ReadInv, pc # "idle", job' = job, faults' \in Nat, faults <= faults', Undisturbed'
  PROVE  Undisturbed
BY DEF ReadInv, Job, Undisturbed

\* An answer that is no browse's is of no concern.
LEMMA AnswerKept ==
  ASSUME AnswerOK, flat' = flat,
         answer' = answer \/ ~answer'.ok \/ answer'.req.kind # "browse"
  PROVE  AnswerOK'
<1>1. TagAt' = TagAt
  BY DEF TagAt, TagOf, Sources
<1>2. CASE answer' = answer
  BY <1>1, <1>2 DEF AnswerOK
<1>3. CASE ~answer'.ok \/ answer'.req.kind # "browse"
  BY <1>3 DEF AnswerOK
<1>4. QED
  BY <1>2, <1>3

LEMMA FailsBrowse ==
  ASSUME BrowseInv, CursorInv', ReadInv', flat' = flat, NEW class, Fails(class)
  PROVE  BrowseInv'
<1>1. CASE class = "connection" /\ job.attempt = 1
  <2>1. pc' = "connect" /\ tags' = <<>> /\ answer' = answer
    BY <1>1 DEF Fails, Fresh
  <2>2. AnswerOK'
    BY <2>1, AnswerKept DEF BrowseInv
  <2>3. QED
    BY <2>1, <2>2 DEF BrowseInv
<1>2. CASE ~(class = "connection" /\ job.attempt = 1)
  <2>1. pc' = "idle" /\ answer'.ok = FALSE
    BY <1>2 DEF Fails, Ends
  <2>2. AnswerOK'
    BY <2>1, AnswerKept DEF BrowseInv
  <2>3. QED
    BY <2>1, <2>2 DEF BrowseInv
<1>3. QED
  BY <1>1, <1>2

\* An Ok browse has swept everything.
LEMMA EndBrowseOK ==
  ASSUME BrowseInv, CursorInv', ReadInv', flat' = flat, EndBrowse
  PROVE  BrowseInv'
<1>1. CASE ret = "ok"
  <2>1. /\ pc = "browse" /\ stack = <<>> /\ pc' = "idle" /\ faults' = faults
        /\ answer' = [req |-> job.req, ok |-> TRUE, value |-> tags,
                      clean |-> job.homed /\ faults' = job.since]
    BY <1>1 DEF EndBrowse, Ends
  <2>2. /\ answer'.req = job.req /\ answer'.value = tags
        /\ answer'.clean <=> (job.homed /\ faults' = job.since)
    BY <2>1
  <2>3. answer'.clean => Undisturbed
    BY <2>1, <2>2 DEF Undisturbed
  <2>4. TagAt' = TagAt
    BY DEF TagAt, TagOf, Sources
  <2>5. answer'.clean => Gathered(TagAt', answer'.value, answer'.req.limit, {})
    BY <1>1, <2>1, <2>2, <2>3, <2>4, SweepEnds
  <2>6. Len(answer'.value) <= answer'.req.limit
    BY <2>1, <2>2, FullIs
  <2>7. AnswerOK'
    BY <2>5, <2>6 DEF AnswerOK
  <2>8. QED
    BY <2>1, <2>7 DEF BrowseInv
<1>2. CASE ret # "ok"
  BY <1>2, FailsBrowse DEF EndBrowse
<1>3. QED
  BY <1>1, <1>2

\* The steps of a browse that goes on.
LEMMA BrowseStep ==
  ASSUME BrowseInv, CursorInv', ReadInv', flat' = flat, Browse, ~EndBrowse
  PROVE  BrowseInv'
<1>1. /\ pc \in {"begin", "browse"} /\ pc' = "browse" /\ job' = job /\ answer' = answer
      /\ (pc = "begin" => BeginBrowse) /\ faults \in Nat
  BY DEF Browse, BeginBrowse, ListBranches, ListLeaves, FrameFails, LeaveFrame, Descend,
    DescendRefused, Ascend, AscendRefused, ListFlat, InFrame, Returned, BrowseInv, ReadInv
<1>2. faults' \in Nat /\ faults <= faults'
  <2>1. faults' = faults \/ \E n : Spend(n)
    BY DEF Browse, BeginBrowse, ListBranches, ListLeaves, FrameFails, LeaveFrame,
      Descend, DescendRefused, Ascend, AscendRefused, ListFlat, EndBrowse
  <2>2. QED
    BY <1>1, <2>1, SpendNat
<1>3. AnswerOK'
  BY <1>1, AnswerKept DEF BrowseInv
<1>4. IsSeq(tags') /\ Len(tags') <= job'.req.limit
  <2>1. CASE BeginBrowse
    <3>1. tags' = <<>> /\ job'.req.limit \in Nat
      BY <1>1, <2>1, RequestsAssumption DEF BeginBrowse, BrowseInv, ReadInv, Job, Request
    <3>2. QED
      BY <3>1, NoSeq
  <2>2. CASE ~BeginBrowse
    <3>1. pc = "browse"
      BY <1>1, <2>2
    <3>2. tags' = tags \/ (~Full /\ \E e : tags' = Append(tags, e))
      BY <2>2 DEF Browse, ListBranches, ListLeaves, FrameFails, LeaveFrame, Descend,
        DescendRefused, Ascend, AscendRefused, ListFlat
    <3>3. /\ IsSeq(tags) /\ Len(tags) \in Nat /\ job.req.limit \in Nat
          /\ Len(tags) <= job.req.limit /\ (~Full <=> Len(tags) < job.req.limit)
      BY <3>1, FullIs
    <3>4. CASE tags' = tags
      BY <1>1, <3>3, <3>4
    <3>5. ASSUME ~Full, NEW e, tags' = Append(tags, e) PROVE IsSeq(tags') /\ Len(tags') <= job'.req.limit
      <4>1. IsSeq(tags') /\ Len(tags') = Len(tags) + 1
        BY <3>3, <3>5, AppendSeq
      <4>2. QED
        BY <1>1, <3>3, <3>5, <4>1
    <3>6. QED
      BY <3>2, <3>4, <3>5
  <2>3. QED
    BY <2>1, <2>2
<1>5. Undisturbed' => Sweep'
  <2> SUFFICES ASSUME Undisturbed' PROVE Sweep'
    OBVIOUS
  <2>1. UNCHANGED flat
    OBVIOUS
  <2>2. CASE BeginBrowse
    BY <2>1, <2>2, SweepBegins
  <2>3. CASE ListBranches
    BY <2>1, <2>3, SweepBranches
  <2>4. CASE ListLeaves
    BY <2>1, <2>4, SweepLeaves
  <2>5. CASE FrameFails \/ DescendRefused \/ AscendRefused
    BY <2>1, <2>5, NoneRefused
  <2>6. CASE LeaveFrame
    BY <2>1, <2>6, SweepLeave
  <2>7. CASE Descend
    BY <2>1, <2>7, SweepDescend
  <2>8. CASE Ascend
    BY <2>1, <2>8, SweepAscend
  <2>9. CASE ListFlat
    BY <2>1, <2>9, SweepList
  <2>10. QED
    BY <2>2, <2>3, <2>4, <2>5, <2>6, <2>7, <2>8, <2>9 DEF Browse
<1>6. Undisturbed' => ~adrift'
  <2> SUFFICES ASSUME Undisturbed' PROVE ~adrift'
    OBVIOUS
  <2>1. Undisturbed /\ ~adrift
    BY <1>1, <1>2, QuietBefore DEF BrowseInv
  <2>2. CASE AscendRefused
    BY <2>2, NoneRefused
  <2>3. CASE ~AscendRefused
    BY <2>1, <2>3 DEF Browse, BeginBrowse, ListBranches, ListLeaves, FrameFails, LeaveFrame,
      Descend, DescendRefused, Ascend, ListFlat
  <2>4. QED
    BY <2>2, <2>3
<1>7. QED
  BY <1>1, <1>3, <1>4, <1>5, <1>6 DEF BrowseInv

\* A read or write leaves the answer of a browse alone.
LEMMA GroupBrowse ==
  ASSUME BrowseInv, CursorInv', ReadInv', flat' = flat, Group
  PROVE  BrowseInv'
<1>1. CASE \E class : Fails(class)
  BY <1>1, FailsBrowse
<1>2. CASE pc' \in {"items", "io", "remove"}
  <2>1. /\ pc \in {"begin", "items", "io"} /\ IsIo
        /\ UNCHANGED <<job, answer, adrift>>
        /\ faults' = faults \/ \E n : Spend(n)
    BY <1>2 DEF Group, AddGroup, GroupUnusable, AddItems, AddItemsMismatch, Io, IoFails,
      RemoveGroup, Fails, Ends, BrowseInv
  <2>2. faults' \in Nat /\ faults <= faults'
    BY <2>1, SpendNat DEF BrowseInv, ReadInv
  <2>3. IsIo'
    BY <2>1 DEF IsIo
  <2>4. AnswerOK'
    BY <2>1, AnswerKept DEF BrowseInv
  <2>5. Undisturbed' => ~adrift'
    BY <2>1, <2>2, QuietBefore DEF BrowseInv
  <2>6. QED
    BY <1>2, <2>3, <2>4, <2>5 DEF BrowseInv
<1>3. CASE RemoveGroup /\ ret = "ok"
  <2>1. /\ pc = "remove" /\ pc' = "idle"
        /\ answer' = [req |-> job.req, ok |-> TRUE, value |-> tags,
                      clean |-> job.homed /\ faults' = job.since]
    BY <1>3 DEF RemoveGroup, Ends
  <2>2. answer'.req.kind # "browse"
    BY <2>1 DEF BrowseInv, IsIo
  <2>3. AnswerOK'
    BY <2>2, AnswerKept DEF BrowseInv
  <2>4. QED
    BY <2>1, <2>3 DEF BrowseInv
<1>4. QED
  BY <1>1, <1>2, <1>3 DEF Group, AddGroup, GroupUnusable, AddItems, AddItemsMismatch, Io, IoFails,
    RemoveGroup

LEMMA InitBrowse == Init => BrowseInv
<1> SUFFICES ASSUME Init PROVE BrowseInv
  OBVIOUS
<1>1. CursorInv /\ ReadInv
  BY InitCursor, InitRead
<1>2. AnswerOK
  BY DEF Init, NoAnswer, AnswerOK
<1>3. QED
  BY <1>1, <1>2 DEF Init, BrowseInv

LEMMA NextBrowse == BrowseInv /\ [Next]_vars => BrowseInv'
<1> SUFFICES ASSUME BrowseInv, [Next]_vars PROVE BrowseInv'
  OBVIOUS
<1>1. CursorInv' /\ ReadInv'
  BY NextCursor, NextRead DEF BrowseInv
<1>2. flat' = flat
  BY DEF Next, vars
<1>3. CASE UNCHANGED vars
  <2>1. AnswerOK'
    BY <1>2, <1>3, AnswerKept DEF BrowseInv, vars
  <2>2. Sources' = Sources /\ TagAt' = TagAt /\ Left' = Left
    BY <1>3 DEF vars, Sources, TagAt, TagOf, Left
  <2>3. Undisturbed' = Undisturbed /\ IsIo' = IsIo
    BY <1>3 DEF vars, Undisturbed, IsIo
  <2>4. Sweep => Sweep'
    BY <1>3, <2>2 DEF vars, Sweep
  <2>5. QED
    BY <1>1, <1>3, <2>1, <2>3, <2>4 DEF BrowseInv, vars
<1>4. CASE Take
  <2>1. /\ tags' = <<>> /\ UNCHANGED <<answer, adrift>>
        /\ (pc' = "begin" /\ open) \/ pc' = "connect"
    BY <1>4 DEF Take, Fresh
  <2>2. PICK r \in Requests : job' = [req |-> r, attempt |-> 1, since |-> faults,
                                      homed |-> ~open \/ ~adrift]
    BY <1>4 DEF Take
  <2>3. pc' = "begin" /\ Undisturbed' => ~adrift'
    BY <2>1, <2>2 DEF Undisturbed
  <2>4. AnswerOK'
    BY <1>2, <2>1, AnswerKept DEF BrowseInv
  <2>5. QED
    BY <1>1, <2>1, <2>3, <2>4 DEF BrowseInv
<1>5. CASE Connect
  <2>1. pc' = "begin" /\ tags' = <<>> /\ ~adrift' /\ answer' = answer
    BY <1>5 DEF Connect, BrowseInv
  <2>2. AnswerOK'
    BY <1>2, <2>1, AnswerKept DEF BrowseInv
  <2>3. QED
    BY <1>1, <2>1, <2>2 DEF BrowseInv
<1>6. CASE ConnectFails
  <2>1. pc' = "idle" /\ answer'.ok = FALSE
    BY <1>6 DEF ConnectFails, Ends
  <2>2. AnswerOK'
    BY <1>2, <2>1, AnswerKept DEF BrowseInv
  <2>3. QED
    BY <1>1, <2>1, <2>2 DEF BrowseInv
<1>7. CASE BeginFails
  BY <1>1, <1>2, <1>7, FailsBrowse DEF BeginFails
<1>8. CASE Browse
  BY <1>1, <1>2, <1>8, EndBrowseOK, BrowseStep
<1>9. CASE Group
  BY <1>1, <1>2, <1>9, GroupBrowse
<1>10. QED
  BY <1>3, <1>4, <1>5, <1>6, <1>7, <1>8, <1>9 DEF Next, Worker

\* Whatever requests ran on the connection before, and failed, an Ok browse that
\* no fault disturbed lists every item down to the maximum depth exactly once
\* (browse_recursive), or as many of them as it may.
THEOREM BrowseIsComplete == Spec => []BrowseComplete
<1>1. BrowseInv => BrowseComplete
  <2> SUFFICES ASSUME BrowseInv, Answered("browse") PROVE
        /\ Len(answer.value) <= answer.req.limit
        /\ answer.clean =>
             \E from \in [DOMAIN answer.value -> Sources] :
               /\ IsInjective(from)
               /\ \A k \in DOMAIN from : answer.value[k] = TagOf(from[k])
               /\ Len(answer.value) < answer.req.limit => Range(from) = Sources
    BY DEF BrowseComplete
  <2>1. /\ Len(answer.value) <= answer.req.limit
        /\ answer.clean => Gathered(TagAt, answer.value, answer.req.limit, {})
    BY DEF BrowseInv, AnswerOK, Answered
  <2>2. ASSUME answer.clean
        PROVE  \E from \in [DOMAIN answer.value -> Sources] :
                 /\ IsInjective(from)
                 /\ \A k \in DOMAIN from : answer.value[k] = TagOf(from[k])
                 /\ Len(answer.value) < answer.req.limit => Range(from) = Sources
    <3>1. PICK from \in [DOMAIN answer.value -> Sources] :
            /\ IsInjective(from)
            /\ \A k \in DOMAIN answer.value : answer.value[k] = TagAt[from[k]]
            /\ Len(answer.value) < answer.req.limit => Sources \subseteq Range(from)
      <4>1. DOMAIN TagAt \ {} = Sources /\ DOMAIN TagAt = Sources
        BY DEF TagAt
      <4>2. QED
        BY <2>1, <2>2, <4>1 DEF Gathered
    <3>2. DOMAIN from = DOMAIN answer.value /\ Range(from) \subseteq Sources
      BY DEF Range
    <3>3. \A k \in DOMAIN from : answer.value[k] = TagOf(from[k])
      BY <3>1, <3>2 DEF TagAt
    <3>4. QED
      BY <3>1, <3>2, <3>3
  <2>3. QED
    BY <2>1, <2>2
<1>2. QED
  BY <1>1, InitBrowse, NextBrowse, PTL DEF Spec

=============================================================================
