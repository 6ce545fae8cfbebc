----------------------- MODULE InventoryBoundaryProofs -----------------------
(***************************************************************************)
(* Theorems about the gate of InventoryBoundary and its telemetry, for any *)
(* setters, pacings, costs and bounds of the histograms, and slices and    *)
(* operations of any length.                                               *)
(***************************************************************************)
EXTENDS InventoryBoundary, FiniteSetTheorems, TLAPS

USE DEF controlVars, gateVars, telemetryVars, historyVars

-----------------------------------------------------------------------------
(* Cancel. *)

\* A cancel found no operation past its checks.
Cancelled == cancelled /\ at \notin {"start", "running"}

LEMMA CancelledStays == Cancelled /\ [Next]_vars => Cancelled'
<1> SUFFICES ASSUME Cancelled, [Next]_vars PROVE Cancelled'
  OBVIOUS
<1>1. CASE UNCHANGED vars
  BY <1>1 DEF Cancelled, vars
<1>2. CASE Control
  BY <1>2 DEF Control, Cancelled, Cancel, PauseOrResume, StoreInterval, StoreRate
<1>3. CASE Begin
  BY <1>3 DEF Begin, Cancelled
<1>4. CASE Gate
  BY <1>4 DEF Gate, Cancelled, GiveUp, Look, LeavePause, LoadInterval, LoadRate,
              CompareElapsed, Recheck, Start, Enter, MayStart
<1>5. CASE Finish \/ EndSlice \/ FallBack \/ Tick
  BY <1>5 DEF Finish, EndSlice, FallBack, Tick, Cancelled
<1>6. QED
  BY <1>1, <1>2, <1>3, <1>4, <1>5 DEF Next

\* Whatever the worker was waiting for when the cancel came, a resume or the
\* pacing, no operation starts after it.
THEOREM CancelHolds == Spec => CancelStops
<1>1. Cancelled => at # "running"
  BY DEF Cancelled
<1>2. cancelled /\ at \notin {"start", "running"} => Cancelled
  BY DEF Cancelled
<1>3. QED
  BY CancelledStays, <1>1, <1>2, PTL DEF Spec, CancelStops

-----------------------------------------------------------------------------
(* Pacing. *)

PacingPair == [interval : Intervals, rate : Rates]

Types ==
  /\ cells \in PacingPair /\ read \in PacingPair
  /\ held \in [interval : SUBSET Intervals, rate : SUBSET Rates]
  /\ setter \in [Setters -> Pacings \cup {Nil}]
  /\ at # "slice" => op.cost \in Costs

\* The time since the last start, as the worker and as the history count it.
Clock == gap \in 0 .. Longest /\ (since = gap \/ (since = Nil /\ gap = Longest))

\* The cells hold values that are held; so does the pair read.
Held ==
  /\ cells.interval \in held.interval /\ cells.rate \in held.rate
  /\ at \in {"rate", "elapsed", "recheck", "start"} => read.interval \in held.interval
  /\ at \in {"elapsed", "recheck", "start"} => read.rate \in held.rate

Waited ==
  at \in {"recheck", "start"} =>
    gap = Longest \/ gap > PacingInterval(read.interval, read.rate, op.cost)

Inv == Types /\ Clock /\ Held /\ Waited

LEMMA PacingTypes ==
  /\ NoPacing \in PacingPair
  /\ \A p \in Pacings : p.interval \in Intervals /\ p.rate \in Rates
BY DEF NoPacing, PacingPair, Intervals, Rates

LEMMA InitInv == Init => Inv
<1> SUFFICES ASSUME Init PROVE Inv
  OBVIOUS
<1>1. Holding(NoPacing) \in [interval : SUBSET Intervals, rate : SUBSET Rates]
  BY PacingTypes DEF Holding, PacingPair
<1>2. Types
  BY <1>1, PacingTypes DEF Init, Types
<1>3. Clock
  BY BoundaryAssumption DEF Init, Clock
<1>4. Held /\ Waited
  BY DEF Init, Held, Waited, Holding
<1>5. QED
  BY <1>2, <1>3, <1>4 DEF Inv

LEMMA TypesStay == Inv /\ [Next]_vars => Types'
<1> SUFFICES ASSUME Inv, [Next]_vars PROVE Types'
  OBVIOUS
<1> USE DEF Inv, Types
<1>1. CASE UNCHANGED vars
  BY <1>1 DEF vars
<1>2. CASE Cancel \/ PauseOrResume
  BY <1>2 DEF Cancel, PauseOrResume
<1>3. ASSUME NEW s \in Setters, StoreInterval(s) PROVE Types'
  <2>1. PICK p \in Pacings :
          /\ setter' = [setter EXCEPT ![s] = p]
          /\ cells' = [cells EXCEPT !.interval = p.interval]
          /\ held' = [held EXCEPT !.interval = @ \cup {p.interval}]
    BY <1>3 DEF StoreInterval
  <2>2. p.interval \in Intervals
    BY PacingTypes
  <2>3. cells' \in PacingPair
    BY <2>1, <2>2 DEF PacingPair
  <2>4. held' \in [interval : SUBSET Intervals, rate : SUBSET Rates]
    BY <2>1, <2>2
  <2>5. setter' \in [Setters -> Pacings \cup {Nil}]
    BY <2>1
  <2>6. QED
    BY <1>3, <2>3, <2>4, <2>5 DEF StoreInterval
<1>4. ASSUME NEW s \in Setters, StoreRate(s) PROVE Types'
  <2>1. setter[s] \in Pacings
    BY <1>4 DEF StoreRate
  <2>2. setter[s].rate \in Rates
    BY <2>1, PacingTypes
  <2>3. cells' \in PacingPair
    BY <1>4, <2>2 DEF StoreRate, PacingPair
  <2>4. held' \in [interval : SUBSET Intervals, rate : SUBSET Rates]
    BY <1>4, <2>2 DEF StoreRate
  <2>5. setter' \in [Setters -> Pacings \cup {Nil}]
    BY <1>4 DEF StoreRate
  <2>6. QED
    BY <1>4, <2>3, <2>4, <2>5 DEF StoreRate
<1>5. CASE Begin
  BY <1>5 DEF Begin
<1>6. CASE Look
  <2>1. held' \in [interval : SUBSET Intervals, rate : SUBSET Rates]
    BY <1>6 DEF Look, Holding, PacingPair
  <2>2. QED
    BY <1>6, <2>1 DEF Look
<1>7. CASE LoadInterval \/ LoadRate
  <2>1. read' \in PacingPair
    BY <1>7 DEF LoadInterval, LoadRate, PacingPair
  <2>2. QED
    BY <1>7, <2>1 DEF LoadInterval, LoadRate
<1>8. CASE GiveUp \/ LeavePause \/ CompareElapsed \/ Recheck \/ Start \/ Enter
  BY <1>8 DEF GiveUp, LeavePause, CompareElapsed, Recheck, Start, Enter
<1>9. CASE Finish \/ EndSlice \/ FallBack \/ Tick
  BY <1>9 DEF Finish, EndSlice, FallBack, Tick
<1>10. QED
  BY <1>1, <1>2, <1>3, <1>4, <1>5, <1>6, <1>7, <1>8, <1>9 DEF Next, Control, Gate

LEMMA ClockStays == Inv /\ [Next]_vars => Clock'
<1> SUFFICES ASSUME Inv, [Next]_vars PROVE Clock'
  OBVIOUS
<1> USE DEF Inv, Clock
<1>1. CASE UNCHANGED <<since, gap>>
  BY <1>1
<1>2. CASE Enter
  BY <1>2, BoundaryAssumption DEF Enter, JustStarted
<1>3. CASE Tick
  BY <1>3, BoundaryAssumption DEF Tick
<1>4. QED
  BY <1>1, <1>2, <1>3 DEF Next, Control, Cancel, PauseOrResume, StoreInterval, StoreRate,
     Begin, Gate, GiveUp, Look, LeavePause, LoadInterval, LoadRate, CompareElapsed,
     Recheck, Start, Finish, EndSlice, FallBack, vars

LEMMA HeldStays == Inv /\ [Next]_vars => Held'
<1> SUFFICES ASSUME Inv, [Next]_vars PROVE Held'
  OBVIOUS
<1> USE DEF Inv, Types, Held, PacingPair
<1>1. CASE UNCHANGED vars
  BY <1>1 DEF vars
<1>2. CASE Cancel \/ PauseOrResume
  BY <1>2 DEF Cancel, PauseOrResume
<1>3. ASSUME NEW s \in Setters, StoreInterval(s) PROVE Held'
  BY <1>3 DEF StoreInterval
<1>4. ASSUME NEW s \in Setters, StoreRate(s) PROVE Held'
  BY <1>4 DEF StoreRate
<1>5. CASE Begin \/ GiveUp \/ LeavePause \/ LoadInterval \/ LoadRate
  BY <1>5 DEF Begin, GiveUp, LeavePause, LoadInterval, LoadRate
<1>6. CASE Look
  BY <1>6 DEF Look, Holding
<1>7. CASE CompareElapsed \/ Recheck \/ Start \/ Enter
  BY <1>7 DEF CompareElapsed, Recheck, Start, Enter
<1>8. CASE Finish \/ EndSlice \/ FallBack \/ Tick
  BY <1>8 DEF Finish, EndSlice, FallBack, Tick
<1>9. QED
  BY <1>1, <1>2, <1>3, <1>4, <1>5, <1>6, <1>7, <1>8 DEF Next, Control, Gate

LEMMA WaitedStays == Inv /\ [Next]_vars => Waited'
<1> SUFFICES ASSUME Inv, [Next]_vars PROVE Waited'
  OBVIOUS
<1> USE DEF Inv, Waited
<1> DEFINE P == PacingInterval(read.interval, read.rate, op.cost)
<1>1. CASE UNCHANGED vars
  BY <1>1 DEF vars
<1>2. CASE Control
  BY <1>2 DEF Control, Cancel, PauseOrResume, StoreInterval, StoreRate
<1>3. CASE CompareElapsed
  <2>1. P' = P
    BY <1>3 DEF CompareElapsed
  <2>2. CASE MustWait
    BY <1>3, <2>2 DEF CompareElapsed
  <2>3. CASE ~MustWait
    <3>1. P \in 0 .. Longest - 1
      BY <1>3, BoundaryAssumption DEF CompareElapsed, Types, PacingPair
    <3>2. gap = Longest \/ gap > P
      <4> HIDE DEF P
      <4>1. since = Nil \/ ~(since <= P)
        BY <2>3 DEF MustWait, P
      <4>2. QED
        BY <3>1, <4>1, BoundaryAssumption DEF Clock
    <3>3. QED
      BY <1>3, <2>1, <3>2 DEF CompareElapsed
  <2>4. QED
    BY <2>2, <2>3
<1>4. CASE Tick
  <2>1. at' = at /\ P' = P
    BY <1>4 DEF Tick
  <2>2. at \in {"recheck", "start"} => P \in 0 .. Longest - 1
    BY BoundaryAssumption DEF Types, PacingPair
  <2>3. at \in {"recheck", "start"} => gap' = Longest \/ gap' > P
    <3> HIDE DEF P
    <3>1. at \in {"recheck", "start"} => gap = Longest \/ gap > P
      BY DEF P
    <3>2. QED
      BY <1>4, <2>2, <3>1, BoundaryAssumption DEF Tick, Clock
  <2>4. QED
    BY <2>1, <2>3
<1>5. CASE Begin \/ GiveUp \/ Look \/ LeavePause \/ LoadInterval \/ LoadRate
  BY <1>5 DEF Begin, GiveUp, Look, LeavePause, LoadInterval, LoadRate
<1>6. CASE Recheck \/ Start \/ Enter
  BY <1>6 DEF Recheck, Start, Enter
<1>7. CASE Finish \/ EndSlice \/ FallBack
  BY <1>7 DEF Finish, EndSlice, FallBack
<1>8. QED
  BY <1>1, <1>2, <1>3, <1>4, <1>5, <1>6, <1>7 DEF Next, Gate

LEMMA Invariance == Spec => []Inv
<1>1. Inv /\ [Next]_vars => Inv'
  BY TypesStay, ClockStays, HeldStays, WaitedStays DEF Inv
<1>2. QED
  BY InitInv, <1>1, PTL DEF Spec

LEMMA EntersPaced ==
  Inv /\ [Next]_vars =>
    (Enters => \E i \in held.interval, r \in held.rate :
                 gap = Longest \/ gap > PacingInterval(i, r, op.cost))
<1> SUFFICES ASSUME Inv, [Next]_vars, Enters
             PROVE \E i \in held.interval, r \in held.rate :
                     gap = Longest \/ gap > PacingInterval(i, r, op.cost)
  OBVIOUS
<1>1. at = "start"
  BY DEF Enters, Next, Control, Cancel, PauseOrResume, StoreInterval, StoreRate, Begin,
     Gate, GiveUp, Look, LeavePause, LoadInterval, LoadRate, CompareElapsed, Recheck,
     Start, Enter, Finish, EndSlice, FallBack, Tick, vars
<1>2. read.interval \in held.interval /\ read.rate \in held.rate
  BY <1>1 DEF Inv, Held
<1>3. gap = Longest \/ gap > PacingInterval(read.interval, read.rate, op.cost)
  BY <1>1 DEF Inv, Waited
<1>4. QED
  BY <1>2, <1>3

\* The pacing of every operation start, through any interleaving of set_pacing
\* calls with the two loads of the worker.
THEOREM PacingHolds == Spec => Paced
<1> DEFINE Step == Enters => \E i \in held.interval, r \in held.rate :
                      gap = Longest \/ gap > PacingInterval(i, r, op.cost)
<1>1. Inv /\ [Next]_vars => [Step]_vars
  BY EntersPaced
<1>2. QED
  BY Invariance, <1>1, PTL DEF Spec, Paced

-----------------------------------------------------------------------------
(***************************************************************************)
(* Telemetry: sums. Only two facts about them are needed: what a sum of    *)
(* zeros is, and what one more at one place adds. Both are inductions on   *)
(* the size of the set, carried out with the least counterexample.         *)
(***************************************************************************)

LEMMA LeastNat ==
  ASSUME NEW T, T \subseteq Nat, T # {}
  PROVE  \E x \in T : \A y \in T : x <= y
<1> DEFINE R == {ss \in Nat \X Nat : ss[1] < ss[2]}
<1>1. IsWellFoundedOn(R, Nat)
  BY NatLessThanWellFounded DEF OpToRel
<1>2. \A x, y \in Nat : x < y => <<x, y>> \in R
  OBVIOUS
<1> HIDE DEF R
<1>3. PICK x \in T : \A y \in T : ~(<<y, x>> \in R)
  BY <1>1, WFMin
<1>4. ASSUME NEW y \in T PROVE x <= y
  <2>1. x \in Nat /\ y \in Nat
    OBVIOUS
  <2>2. ~(y < x)
    BY <1>2, <1>3, <2>1
  <2>3. QED
    BY <2>1, <2>2
<1>5. QED
  BY <1>4

Pick(s) == CHOOSE x \in s : TRUE

\* The sums over the subsets in D: the equation, and its solution for all subsets.
Adds(f, D, g) == g = [s \in D |-> IF s = {} THEN 0 ELSE f[Pick(s)] + g[s \ {Pick(s)}]]
Partial(f, S) == CHOOSE g : g = [s \in SUBSET S |-> IF s = {} THEN 0 ELSE f[Pick(s)] + g[s \ {Pick(s)}]]

LEMMA SumIsPartial == \A f, S : SumFunctionOnSet(f, S) = Partial(f, S)[S]
BY DEF SumFunctionOnSet, FoldFunctionOnSet, MapThenFoldSet, Partial, Pick

UpTo(S, n) == {s \in SUBSET S : Cardinality(s) <= n}

\* One element less.
LEMMA Smaller ==
  ASSUME NEW S, IsFiniteSet(S), NEW s \in SUBSET S, s # {}
  PROVE  /\ Pick(s) \in s /\ s \ {Pick(s)} \in SUBSET S
         /\ Cardinality(s) \in Nat /\ Cardinality(s) > 0
         /\ Cardinality(s \ {Pick(s)}) = Cardinality(s) - 1
<1>1. Pick(s) \in s
  BY DEF Pick
<1>2. IsFiniteSet(s)
  BY FS_Subset
<1>3. Cardinality(s) \in Nat /\ Cardinality(s) # 0
  BY <1>2, FS_CardinalityType, FS_EmptySet
<1>4. Cardinality(s \ {Pick(s)}) = Cardinality(s) - 1
  BY <1>1, <1>2, FS_RemoveElement
<1>5. QED
  BY <1>1, <1>3, <1>4

LEMMA SumsExist ==
  ASSUME NEW S, IsFiniteSet(S), NEW f
  PROVE  Adds(f, SUBSET S, Partial(f, S))
<1> DEFINE Bad == {n \in Nat : ~\E g : Adds(f, UpTo(S, n), g)}
<1>1. Bad = {}
  <2> SUFFICES ASSUME Bad # {} PROVE FALSE
    OBVIOUS
  <2>1. PICK n \in Bad : \A m \in Bad : n <= m
    BY LeastNat
  <2>2. CASE n = 0
    <3>1. \A s \in UpTo(S, n) : s = {}
      <4> SUFFICES ASSUME NEW s \in UpTo(S, n), s # {} PROVE FALSE
        OBVIOUS
      <4>1. Cardinality(s) > 0 /\ Cardinality(s) <= 0 /\ Cardinality(s) \in Nat
        BY <2>2, Smaller DEF UpTo
      <4>2. QED
        BY <4>1
    <3>2. Adds(f, UpTo(S, n), [s \in UpTo(S, n) |-> 0])
      BY <3>1 DEF Adds
    <3>3. QED
      BY <3>2
  <2>3. CASE n # 0
    <3>1. n - 1 \in Nat /\ n - 1 \notin Bad /\ n \in Nat
      BY <2>1, <2>3
    <3>2. PICK h : Adds(f, UpTo(S, n - 1), h)
      BY <3>1
    <3> DEFINE g == [s \in UpTo(S, n) |-> IF s = {} THEN 0 ELSE f[Pick(s)] + h[s \ {Pick(s)}]]
    <3>3. ASSUME NEW s \in UpTo(S, n), s # {}
          PROVE  s \ {Pick(s)} \in UpTo(S, n - 1)
      BY <3>1, <3>3, Smaller DEF UpTo
    <3>4. \A s \in UpTo(S, n - 1) : s \in UpTo(S, n)
      <4> SUFFICES ASSUME NEW s \in UpTo(S, n - 1) PROVE s \in UpTo(S, n)
        OBVIOUS
      <4>1. Cardinality(s) \in Nat
        BY FS_Subset, FS_CardinalityType DEF UpTo
      <4>2. QED
        BY <3>1, <4>1 DEF UpTo
    <3>5. \A s \in UpTo(S, n - 1) : g[s] = h[s]
      BY <3>2, <3>4 DEF Adds
    <3>6. Adds(f, UpTo(S, n), g)
      BY <3>3, <3>5 DEF Adds
    <3>7. QED
      BY <3>6
  <2>4. QED
    BY <2>2, <2>3
<1>2. Cardinality(S) \in Nat
  BY FS_CardinalityType
<1>3. UpTo(S, Cardinality(S)) = SUBSET S
  BY FS_Subset DEF UpTo
<1>4. \E g : Adds(f, SUBSET S, g)
  <2>1. \A n \in Nat : \E g : Adds(f, UpTo(S, n), g)
    BY <1>1
  <2>2. \E g : Adds(f, UpTo(S, Cardinality(S)), g)
    BY <1>2, <2>1
  <2>3. QED
    BY <1>3, <2>2
<1>5. QED
  BY <1>4 DEF Adds, Partial

LEMMA SumEquation ==
  ASSUME NEW S, IsFiniteSet(S), NEW f
  PROVE  \A s \in SUBSET S :
           Partial(f, S)[s] = IF s = {} THEN 0 ELSE f[Pick(s)] + Partial(f, S)[s \ {Pick(s)}]
<1> DEFINE g == Partial(f, S)
<1>1. Adds(f, SUBSET S, g)
  BY SumsExist
<1> HIDE DEF g
<1>2. \A s \in SUBSET S : g[s] = IF s = {} THEN 0 ELSE f[Pick(s)] + g[s \ {Pick(s)}]
  BY <1>1 DEF Adds
<1>3. QED
  BY <1>2 DEF g

\* A property of the sums of all subsets that a larger set inherits.
LEMMA SumsBy ==
  ASSUME NEW S, IsFiniteSet(S), NEW Good,
         {} \in Good, \A s \in SUBSET S : s # {} /\ s \ {Pick(s)} \in Good => s \in Good
  PROVE  SUBSET S \subseteq Good
<1> DEFINE Bad == {n \in Nat : \E s \in SUBSET S : s \notin Good /\ Cardinality(s) = n}
<1> SUFFICES ASSUME NEW t \in SUBSET S, t \notin Good PROVE FALSE
  OBVIOUS
<1>1. Cardinality(t) \in Bad
  BY FS_Subset, FS_CardinalityType
<1>2. PICK n \in Bad : \A m \in Bad : n <= m
  BY <1>1, LeastNat
<1>3. PICK s \in SUBSET S : s \notin Good /\ Cardinality(s) = n
  BY <1>2
<1>4. /\ s \ {Pick(s)} \in SUBSET S /\ Cardinality(s \ {Pick(s)}) = n - 1
      /\ n \in Nat /\ n > 0 /\ n - 1 \in Nat
  <2>1. s # {}
    BY <1>3
  <2>2. /\ s \ {Pick(s)} \in SUBSET S /\ Cardinality(s) \in Nat /\ Cardinality(s) > 0
        /\ Cardinality(s \ {Pick(s)}) = Cardinality(s) - 1
    BY <2>1, Smaller
  <2>3. QED
    BY <1>3, <2>2
<1>5. n - 1 \in Bad
  <2>1. s # {}
    BY <1>3
  <2>2. s \ {Pick(s)} \notin Good
    BY <1>3, <2>1
  <2>3. QED
    BY <1>4, <2>2
<1>6. QED
  BY <1>2, <1>4, <1>5

LEMMA SumZero ==
  ASSUME NEW S, IsFiniteSet(S), NEW f, \A x \in S : f[x] = 0
  PROVE  SumFunctionOnSet(f, S) = 0
<1> DEFINE A == Partial(f, S)
           Good == {s \in SUBSET S : A[s] = 0}
<1>1. \A s \in SUBSET S : A[s] = IF s = {} THEN 0 ELSE f[Pick(s)] + A[s \ {Pick(s)}]
  BY SumEquation
<1> HIDE DEF A
<1>2. {} \in Good
  BY <1>1
<1>3. ASSUME NEW s \in SUBSET S, s # {}, s \ {Pick(s)} \in Good PROVE s \in Good
  <2>1. f[Pick(s)] = 0
    BY <1>3, Smaller
  <2>2. QED
    BY <1>1, <1>3, <2>1
<1> HIDE DEF Good
<1>4. SUBSET S \subseteq Good
  BY <1>2, <1>3, SumsBy
<1>5. A[S] = 0
  BY <1>4 DEF Good
<1>6. QED
  BY <1>5, SumIsPartial DEF A

\* One more at r.
LEMMA SumMore ==
  ASSUME NEW S, IsFiniteSet(S), NEW f, NEW g, NEW r,
         \A x \in S : f[x] \in Nat /\ g[x] = f[x] + (IF x = r THEN 1 ELSE 0)
  PROVE  /\ SumFunctionOnSet(f, S) \in Nat
         /\ SumFunctionOnSet(g, S) = SumFunctionOnSet(f, S) + (IF r \in S THEN 1 ELSE 0)
<1> DEFINE A == Partial(f, S)
           B == Partial(g, S)
           Good == {s \in SUBSET S : A[s] \in Nat /\ B[s] = A[s] + (IF r \in s THEN 1 ELSE 0)}
<1>1. \A s \in SUBSET S : A[s] = IF s = {} THEN 0 ELSE f[Pick(s)] + A[s \ {Pick(s)}]
  BY SumEquation
<1>2. \A s \in SUBSET S : B[s] = IF s = {} THEN 0 ELSE g[Pick(s)] + B[s \ {Pick(s)}]
  BY SumEquation
<1> HIDE DEF A, B
<1>3. {} \in Good
  <2>1. A[{}] = 0 /\ B[{}] = 0
    BY <1>1, <1>2
  <2>2. QED
    BY <2>1
<1>4. ASSUME NEW s \in SUBSET S, s # {}, s \ {Pick(s)} \in Good PROVE s \in Good
  <2> DEFINE x == Pick(s)
             t == s \ {x}
  <2>1. x \in s /\ x \in S /\ t \in SUBSET S /\ (r \in s <=> r \in t \/ x = r) /\ (x = r => r \notin t)
    <3>1. Pick(s) \in s
      BY <1>4, Smaller
    <3>2. QED
      BY <3>1
  <2>2. A[t] \in Nat /\ B[t] = A[t] + (IF r \in t THEN 1 ELSE 0)
    BY <1>4
  <2>3. A[s] = f[x] + A[t] /\ B[s] = g[x] + B[t]
    BY <1>1, <1>2, <1>4
  <2> HIDE DEF x, t
  <2>4. f[x] \in Nat /\ g[x] = f[x] + (IF x = r THEN 1 ELSE 0)
    BY <2>1
  <2>5. A[s] \in Nat /\ B[s] = A[s] + (IF r \in s THEN 1 ELSE 0)
    BY <2>1, <2>2, <2>3, <2>4
  <2>6. QED
    BY <2>5
<1> HIDE DEF Good
<1>5. SUBSET S \subseteq Good
  BY <1>3, <1>4, SumsBy
<1>6. A[S] \in Nat /\ B[S] = A[S] + (IF r \in S THEN 1 ELSE 0)
  BY <1>5 DEF Good
<1>7. QED
  BY <1>6, SumIsPartial DEF A, B

-----------------------------------------------------------------------------
(***************************************************************************)
(* Telemetry: the observations of a slice. What a histogram says of the    *)
(* durations recorded in it.                                               *)
(***************************************************************************)

Durations == 0 .. MaxDuration
BucketIds == 1 .. Len(Bounds) + 1
Statistics == [count : Nat, max : Durations, buckets : [BucketIds -> Nat]]

\* The longest duration that bound i covers, if it can be told from shorter ones.
Covered(i) == IF Bounds[i] < MaxDuration THEN Bounds[i] ELSE MaxDuration

\* s is what the recorder has after of[d] operations that took d ticks: the buckets
\* up to a bound hold the durations up to it.
Recorded(s, of) ==
  /\ SumFunctionOnSet(of, Durations) = s.count
  /\ \A i \in DOMAIN Bounds :
       /\ \A d \in Durations : d <= Bounds[i] =>
            SumFunctionOnSet(of, 0 .. d) <= SumFunctionOnSet(s.buckets, 1 .. i)
       /\ SumFunctionOnSet(of, 0 .. Covered(i)) = SumFunctionOnSet(s.buckets, 1 .. i)
  /\ \A d \in Durations : of[d] > 0 => d <= s.max
  /\ IF s.count = 0 THEN s.max = 0 ELSE of[s.max] > 0

Counts(st) == [k \in OperationKinds |-> st[k].count]

\* Every operation that returned since the last take is recorded, under its kind:
\* those of this turn, and before the slice after a fallback its one page.
SliceInv ==
  /\ stats \in [OperationKinds -> Statistics] /\ samples \in [OperationKinds -> [Durations -> Nat]]
  /\ ops \in Nat /\ ran \in Durations
  /\ at # "slice" => op.kind \in OperationKinds
  /\ \A k \in OperationKinds : Recorded(stats[k], samples[k])
  /\ kept \in {0, 1} /\ (kept = 1 => stage = "later")
  /\ ops + kept = SumFunction(Counts(stats)) + (IF at = "running" THEN 1 ELSE 0)

LEMMA Growing ==
  ASSUME NEW i \in DOMAIN Bounds, NEW j \in DOMAIN Bounds, i <= j
  PROVE  Bounds[i] <= Bounds[j]
<1> DEFINE Bad == {k \in i .. j : Bounds[i] > Bounds[k]}
<1>1. Bounds \in Seq(Nat) /\ \A k \in 1 .. Len(Bounds) - 1 : Bounds[k] < Bounds[k + 1]
  BY BoundaryAssumption
<1>2. Len(Bounds) \in Nat /\ DOMAIN Bounds = 1 .. Len(Bounds) /\ \A k \in DOMAIN Bounds : Bounds[k] \in Nat
  BY <1>1
<1> SUFFICES ASSUME j \in Bad PROVE FALSE
  BY <1>2
<1>3. PICK k \in Bad : \A l \in Bad : k <= l
  <2>1. Bad \subseteq Nat
    BY <1>2
  <2> HIDE DEF Bad
  <2>2. QED
    BY <2>1, LeastNat
<1>4. k # i /\ k - 1 \in i .. j /\ k - 1 \notin Bad /\ k \in DOMAIN Bounds
  BY <1>2, <1>3
<1>5. k - 1 \in 1 .. Len(Bounds) - 1 /\ Bounds[k - 1] < Bounds[(k - 1) + 1] /\ (k - 1) + 1 = k
  BY <1>1, <1>2, <1>4
<1>6. Bounds[i] <= Bounds[k - 1] /\ Bounds[i] > Bounds[k]
  BY <1>2, <1>3, <1>4
<1>7. QED
  BY <1>2, <1>4, <1>5, <1>6

LEMMA BoundTypes ==
  /\ Len(Bounds) \in Nat /\ DOMAIN Bounds = 1 .. Len(Bounds) /\ \A i \in DOMAIN Bounds : Bounds[i] \in Nat
  /\ MaxDuration \in Nat
  /\ IsFiniteSet(Durations) /\ IsFiniteSet(OperationKinds)
  /\ \A i \in Nat : IsFiniteSet(1 .. i) /\ IsFiniteSet(0 .. i)
<1>1. Bounds \in Seq(Nat) /\ MaxDuration \in Nat /\ IsFiniteSet(OperationKinds)
  BY BoundaryAssumption
<1>2. \A i \in Nat : IsFiniteSet(1 .. i) /\ IsFiniteSet(0 .. i)
  BY FS_Interval
<1>3. QED
  BY <1>1, <1>2 DEF Durations

\* A duration goes to the first bucket whose bound it does not exceed.
LEMMA BucketFacts ==
  ASSUME NEW d \in Durations
  PROVE  /\ BucketIndex(d) \in BucketIds
         /\ \A i \in DOMAIN Bounds : BucketIndex(d) <= i <=> d <= Bounds[i]
<1> DEFINE n == Len(Bounds)
           High == {i \in DOMAIN Bounds : Bounds[i] >= d}
           Low == {i \in DOMAIN Bounds : Bounds[i] < d}
<1>1. n \in Nat /\ DOMAIN Bounds = 1 .. n /\ d \in Nat /\ \A i \in DOMAIN Bounds : Bounds[i] \in Nat
  BY BoundTypes DEF Durations
<1>2. BucketIndex(d) = Cardinality(Low) + 1
  BY DEF BucketIndex
<1>3. ASSUME NEW m \in 0 .. n, Low = 1 .. m
      PROVE  /\ BucketIndex(d) \in BucketIds
             /\ \A i \in DOMAIN Bounds : BucketIndex(d) <= i <=> d <= Bounds[i]
  <2>1. m \in Int /\ Cardinality(1 .. m) = m
    BY <1>1, FS_Interval
  <2>2. BucketIndex(d) = m + 1
    BY <1>2, <1>3, <2>1
  <2>3. \A i \in DOMAIN Bounds : i <= m <=> Bounds[i] < d
    <3>1. \A i \in DOMAIN Bounds : i \in Low <=> Bounds[i] < d
      OBVIOUS
    <3> HIDE DEF Low
    <3>2. QED
      BY <1>1, <1>3, <3>1
  <2>4. QED
    BY <1>1, <2>1, <2>2, <2>3 DEF BucketIds
<1>4. CASE High = {}
  <2>1. Low = 1 .. n
    BY <1>1, <1>4
  <2>2. n \in 0 .. n
    BY <1>1
  <2> HIDE DEF Low, n
  <2>3. QED
    BY <1>3, <2>1, <2>2
<1>5. CASE High # {}
  <2>1. High \subseteq Nat
    BY <1>1
  <2>2. PICK h \in High : \A i \in High : h <= i
    <3> HIDE DEF High
    <3>1. QED
      BY <1>5, <2>1, LeastNat
  <2>3. \A i \in DOMAIN Bounds : i >= h => Bounds[i] >= d
    BY <1>1, <2>2, Growing
  <2>4. Low = 1 .. h - 1 /\ h - 1 \in 0 .. n
    BY <1>1, <2>2, <2>3
  <2> HIDE DEF Low
  <2>5. QED
    BY <1>3, <2>4
<1>6. QED
  BY <1>4, <1>5

LEMMA CoveredFacts ==
  ASSUME NEW i \in DOMAIN Bounds
  PROVE  /\ Covered(i) \in Durations /\ Covered(i) <= Bounds[i]
         /\ \A d \in Durations : d <= Covered(i) <=> d <= Bounds[i]
BY BoundTypes DEF Covered, Durations

\* The sums of a histogram and of durations are natural numbers.
LEMMA SumTypes ==
  ASSUME NEW s \in Statistics, NEW of \in [Durations -> Nat]
  PROVE  /\ \A i \in DOMAIN Bounds : SumFunctionOnSet(s.buckets, 1 .. i) \in Nat
         /\ \A d \in Durations : SumFunctionOnSet(of, 0 .. d) \in Nat
         /\ SumFunctionOnSet(of, Durations) \in Nat
<1>1. ASSUME NEW S, IsFiniteSet(S), NEW f, \A x \in S : f[x] \in Nat
      PROVE  SumFunctionOnSet(f, S) \in Nat
  <2> DEFINE g == [x \in S |-> f[x] + (IF x = 0 THEN 1 ELSE 0)]
  <2>1. \A x \in S : f[x] \in Nat /\ g[x] = f[x] + (IF x = 0 THEN 1 ELSE 0)
    BY <1>1
  <2> HIDE DEF g
  <2>2. /\ SumFunctionOnSet(f, S) \in Nat
        /\ SumFunctionOnSet(g, S) = SumFunctionOnSet(f, S) + (IF 0 \in S THEN 1 ELSE 0)
    BY <1>1, <2>1, SumMore
  <2>3. QED
    BY <2>2
<1>2. ASSUME NEW i \in DOMAIN Bounds PROVE SumFunctionOnSet(s.buckets, 1 .. i) \in Nat
  <2>1. IsFiniteSet(1 .. i) /\ \A x \in 1 .. i : s.buckets[x] \in Nat
    BY BoundTypes DEF Statistics, BucketIds
  <2>2. QED
    BY <1>1, <2>1
<1>3. ASSUME NEW d \in Durations PROVE SumFunctionOnSet(of, 0 .. d) \in Nat
  <2>1. IsFiniteSet(0 .. d) /\ \A x \in 0 .. d : of[x] \in Nat
    BY BoundTypes DEF Durations
  <2>2. QED
    BY <1>1, <2>1
<1>4. SumFunctionOnSet(of, Durations) \in Nat
  BY <1>1, BoundTypes
<1>5. QED
  BY <1>2, <1>3, <1>4

\* One operation more.
LEMMA RecordedMore ==
  ASSUME NEW s \in Statistics, NEW of \in [Durations -> Nat], Recorded(s, of), NEW r \in Durations
  PROVE  Record(s, r) \in Statistics /\ Recorded(Record(s, r), [of EXCEPT ![r] = @ + 1])
<1> DEFINE t == Record(s, r)
           g == [of EXCEPT ![r] = @ + 1]
           b == BucketIndex(r)
<1>1. b \in BucketIds /\ \A i \in DOMAIN Bounds : b <= i <=> r <= Bounds[i]
  BY BucketFacts
<1>2. Max({s.max, r}) = IF s.max >= r THEN s.max ELSE r
  BY BoundTypes DEF Statistics, Durations, Max
<1>3. /\ t.count = s.count + 1 /\ t.max = (IF s.max >= r THEN s.max ELSE r)
      /\ t.buckets = [s.buckets EXCEPT ![b] = @ + 1]
  BY <1>2 DEF Record
<1>4. t \in Statistics
  <2>1. t = [count |-> s.count + 1, max |-> IF s.max >= r THEN s.max ELSE r,
             buckets |-> [s.buckets EXCEPT ![b] = @ + 1]]
    BY <1>2 DEF Record
  <2> HIDE DEF t, b
  <2>2. QED
    BY <1>1, <2>1 DEF Statistics
<1> HIDE DEF t, b
<1>5. \A x \in BucketIds : s.buckets[x] \in Nat /\ t.buckets[x] = s.buckets[x] + (IF x = b THEN 1 ELSE 0)
  BY <1>1, <1>3 DEF Statistics
<1>6. \A x \in Durations : of[x] \in Nat /\ g[x] = of[x] + (IF x = r THEN 1 ELSE 0)
  OBVIOUS
<1> HIDE DEF g
<1>7. SumFunctionOnSet(g, Durations) = t.count
  <2>1. SumFunctionOnSet(g, Durations) = SumFunctionOnSet(of, Durations) + 1
    BY <1>6, BoundTypes, SumMore
  <2>2. QED
    BY <1>3, <2>1 DEF Recorded
<1>8. ASSUME NEW d \in Durations
      PROVE  SumFunctionOnSet(g, 0 .. d) = SumFunctionOnSet(of, 0 .. d) + (IF r <= d THEN 1 ELSE 0)
  <2>1. IsFiniteSet(0 .. d) /\ 0 .. d \subseteq Durations /\ (r \in 0 .. d <=> r <= d)
    BY BoundTypes DEF Durations
  <2>2. \A x \in 0 .. d : of[x] \in Nat /\ g[x] = of[x] + (IF x = r THEN 1 ELSE 0)
    BY <1>6, <2>1
  <2>3. SumFunctionOnSet(g, 0 .. d) = SumFunctionOnSet(of, 0 .. d) + (IF r \in 0 .. d THEN 1 ELSE 0)
    <3> DEFINE S == 0 .. d
    <3>1. IsFiniteSet(S) /\ \A x \in S : of[x] \in Nat /\ g[x] = of[x] + (IF x = r THEN 1 ELSE 0)
      BY <2>1, <2>2
    <3> HIDE DEF S
    <3>2. SumFunctionOnSet(g, S) = SumFunctionOnSet(of, S) + (IF r \in S THEN 1 ELSE 0)
      BY <3>1, SumMore
    <3>3. QED
      BY <3>2 DEF S
  <2>4. QED
    BY <2>1, <2>3
<1>9. ASSUME NEW i \in DOMAIN Bounds
      PROVE  SumFunctionOnSet(t.buckets, 1 .. i)
               = SumFunctionOnSet(s.buckets, 1 .. i) + (IF r <= Bounds[i] THEN 1 ELSE 0)
  <2>1. IsFiniteSet(1 .. i) /\ 1 .. i \subseteq BucketIds /\ (b \in 1 .. i <=> r <= Bounds[i])
    BY <1>1, BoundTypes DEF BucketIds
  <2>2. \A x \in 1 .. i : s.buckets[x] \in Nat /\ t.buckets[x] = s.buckets[x] + (IF x = b THEN 1 ELSE 0)
    BY <1>5, <2>1
  <2>3. SumFunctionOnSet(t.buckets, 1 .. i)
          = SumFunctionOnSet(s.buckets, 1 .. i) + (IF b \in 1 .. i THEN 1 ELSE 0)
    <3> DEFINE S == 1 .. i
               f == s.buckets
               h == t.buckets
    <3>1. IsFiniteSet(S) /\ \A x \in S : f[x] \in Nat /\ h[x] = f[x] + (IF x = b THEN 1 ELSE 0)
      BY <2>1, <2>2
    <3> HIDE DEF S, f, h
    <3>2. SumFunctionOnSet(h, S) = SumFunctionOnSet(f, S) + (IF b \in S THEN 1 ELSE 0)
      BY <3>1, SumMore
    <3>3. QED
      BY <3>2 DEF S, f, h
  <2>4. QED
    BY <2>1, <2>3
<1>10. ASSUME NEW i \in DOMAIN Bounds
       PROVE  /\ \A d \in Durations : d <= Bounds[i] =>
                   SumFunctionOnSet(g, 0 .. d) <= SumFunctionOnSet(t.buckets, 1 .. i)
              /\ SumFunctionOnSet(g, 0 .. Covered(i)) = SumFunctionOnSet(t.buckets, 1 .. i)
  <2>1. ASSUME NEW d \in Durations, d <= Bounds[i]
        PROVE  SumFunctionOnSet(g, 0 .. d) <= SumFunctionOnSet(t.buckets, 1 .. i)
    <3>1. SumFunctionOnSet(of, 0 .. d) <= SumFunctionOnSet(s.buckets, 1 .. i)
      BY <2>1 DEF Recorded
    <3>2. r <= d => r <= Bounds[i]
      BY <2>1, BoundTypes DEF Durations
    <3>3. SumFunctionOnSet(of, 0 .. d) \in Nat /\ SumFunctionOnSet(s.buckets, 1 .. i) \in Nat
      BY SumTypes
    <3>4. QED
      BY <1>8, <1>9, <3>1, <3>2, <3>3
  <2>2. Covered(i) \in Durations /\ (r <= Covered(i) <=> r <= Bounds[i])
    BY CoveredFacts
  <2>3. SumFunctionOnSet(of, 0 .. Covered(i)) = SumFunctionOnSet(s.buckets, 1 .. i)
    BY DEF Recorded
  <2>4. QED
    BY <1>8, <1>9, <2>1, <2>2, <2>3
<1>11. \A d \in Durations : g[d] > 0 => d <= t.max
  <2> SUFFICES ASSUME NEW d \in Durations, g[d] > 0 PROVE d <= t.max
    OBVIOUS
  <2>1. d = r \/ of[d] > 0
    BY <1>6
  <2>2. of[d] > 0 => d <= s.max
    BY DEF Recorded
  <2>3. s.max \in Nat /\ r \in Nat /\ d \in Nat
    BY BoundTypes DEF Statistics, Durations
  <2>4. QED
    BY <1>3, <2>1, <2>2, <2>3
<1>12. t.count # 0 /\ g[t.max] > 0
  <2>1. s.count \in Nat /\ s.max \in Durations /\ \A d \in Durations : d \in Nat
    BY BoundTypes DEF Statistics, Durations
  <2>2. CASE s.max >= r /\ s.count # 0
    <3>1. of[s.max] > 0 /\ t.max = s.max
      BY <1>3, <2>2 DEF Recorded
    <3>2. QED
      BY <1>3, <1>6, <2>1, <3>1
  <2>3. CASE ~(s.max >= r /\ s.count # 0)
    <3>1. t.max = r
      BY <1>3, <2>1, <2>3 DEF Recorded
    <3>2. QED
      BY <1>3, <1>6, <2>1, <3>1
  <2>4. QED
    BY <2>2, <2>3
<1>13. Recorded(t, g)
  BY <1>7, <1>10, <1>11, <1>12 DEF Recorded
<1>14. QED
  BY <1>4, <1>13 DEF t, g

-----------------------------------------------------------------------------
(* Telemetry: percentiles. *)

LEMMA MinIs ==
  ASSUME NEW S \in SUBSET Nat, NEW m \in S, \A x \in S : m <= x
  PROVE  Min(S) = m
<1>1. Min(S) \in S /\ \A x \in S : Min(S) <= x
  BY DEF Min
<1>2. Min(S) <= m /\ m <= Min(S) /\ m \in Nat /\ Min(S) \in Nat
  BY <1>1
<1> DEFINE o == Min(S)
<1> HIDE DEF o
<1>3. o <= m /\ m <= o /\ m \in Nat /\ o \in Nat
  BY <1>2 DEF o
<1>4. o = m
  BY <1>3
<1>5. QED
  BY <1>4 DEF o

LEMMA MaxIs ==
  ASSUME NEW S \in SUBSET Nat, NEW m \in S, \A x \in S : x <= m
  PROVE  Max(S) = m
<1>1. Max(S) \in S /\ \A x \in S : Max(S) >= x
  BY DEF Max
<1> DEFINE o == Max(S)
<1> HIDE DEF o
<1>2. o >= m /\ m >= o /\ m \in Nat /\ o \in Nat
  BY <1>1 DEF o
<1>3. o = m
  BY <1>2
<1>4. QED
  BY <1>3 DEF o

\* The rank is rounded up, and at least 1.
LEMMA RankFacts ==
  ASSUME NEW total \in Nat, NEW p \in Nat, NEW u \in Nat
  PROVE  u >= Rank(p, total) <=> 100 * u >= p * total /\ u > 0
<1> DEFINE q == p * total
           r == (q + 99) \div 100
<1>1. q \in Nat /\ total * p = q
  OBVIOUS
<1> HIDE DEF q
<1>2. r \in Nat /\ (u >= r <=> 100 * u >= q)
  BY <1>1
<1> HIDE DEF r
<1>3. Max({r, 1}) = IF r >= 1 THEN r ELSE 1
  BY <1>2 DEF Max
<1>4. Rank(p, total) = IF r >= 1 THEN r ELSE 1
  BY <1>1, <1>3 DEF Rank, r
<1>5. QED
  BY <1>2, <1>4 DEF q

\* Durations that enough of the recorded ones do not exceed.
Enough(of, p, total) ==
  {d \in Durations : 100 * SumFunctionOnSet(of, 0 .. d) >= p * total /\ SumFunctionOnSet(of, 0 .. d) > 0}

\* The histogram finds the bound of the nearest-rank percentile.
LEMMA PercentileFacts ==
  ASSUME NEW s \in Statistics, NEW of \in [Durations -> Nat], Recorded(s, of), s.count > 0,
         NEW p \in Percents
  PROVE  LET above == {i \in DOMAIN Bounds : Min(Enough(of, p, s.count)) <= Bounds[i]}
         IN Percentile(p, s) = IF above = {} THEN Max({d \in Durations : of[d] > 0})
                               ELSE Bounds[Min(above)]
<1> DEFINE N == Enough(of, p, s.count)
           upto(d) == SumFunctionOnSet(of, 0 .. d)
           hist(i) == SumFunctionOnSet(s.buckets, 1 .. i)
           above == {i \in DOMAIN Bounds : Min(N) <= Bounds[i]}
           reaching == {i \in DOMAIN s.buckets : hist(i) >= Rank(p, s.count)}
<1>1. /\ p \in Nat /\ p <= 100 /\ s.count \in Nat /\ s.count > 0 /\ MaxDuration \in Nat
      /\ DOMAIN s.buckets = 1 .. Len(Bounds) + 1
      /\ Len(Bounds) \in Nat /\ DOMAIN Bounds = 1 .. Len(Bounds)
      /\ \A i \in DOMAIN Bounds : Bounds[i] \in Nat
  BY BoundaryAssumption, BoundTypes DEF Statistics, BucketIds
<1>2. /\ \A d \in Durations : d \in Nat /\ upto(d) \in Nat
      /\ \A i \in DOMAIN Bounds : hist(i) \in Nat
  BY <1>1, SumTypes DEF Durations
<1>3. /\ \A i \in DOMAIN Bounds :
           /\ \A d \in Durations : d <= Bounds[i] => upto(d) <= hist(i)
           /\ upto(Covered(i)) = hist(i)
      /\ upto(MaxDuration) = s.count
  BY DEF Recorded, Durations
<1>4. \A i \in DOMAIN Bounds : Covered(i) \in Durations /\ Covered(i) <= Bounds[i]
  BY CoveredFacts
<1>5. \A d \in Durations : d \in N <=> upto(d) >= Rank(p, s.count)
  BY <1>1, <1>2, RankFacts DEF Enough
<1>6. MaxDuration \in N
  <2>1. p * s.count <= 100 * s.count
    BY <1>1
  <2>2. MaxDuration \in Durations
    BY <1>1 DEF Durations
  <2>3. QED
    BY <1>1, <1>3, <2>1, <2>2 DEF Enough
<1>7. N \subseteq Durations /\ N \subseteq Nat
  BY <1>2 DEF Enough
<1> HIDE DEF N
<1>8. PICK n \in N : \A d \in N : n <= d
  BY <1>6, <1>7, LeastNat
<1>9. Min(N) = n
  BY <1>7, <1>8, MinIs
<1>10. Percentile(p, s) = IF reaching = {} \/ Min(reaching) > Len(Bounds) THEN s.max
                          ELSE Bounds[Min(reaching)]
  BY <1>1 DEF Percentile
<1> DEFINE rank == Rank(p, s.count)
<1>11. rank \in Nat
  <2>1. Rank(p, s.count) = Max({(s.count * p + 99) \div 100, 1})
    BY DEF Rank
  <2> DEFINE r == (s.count * p + 99) \div 100
  <2>2. s.count * p \in Nat
    BY <1>1
  <2>3. r \in Nat
    BY <2>2
  <2> HIDE DEF r
  <2>4. Max({r, 1}) \in Nat
    BY <2>3 DEF Max
  <2>5. QED
    BY <2>1, <2>4 DEF r
<1> HIDE DEF upto, hist, rank
<1>12. \A i \in DOMAIN Bounds : i \in reaching <=> i \in above
  <2> SUFFICES ASSUME NEW i \in DOMAIN Bounds PROVE hist(i) >= rank <=> n <= Bounds[i]
    BY <1>1, <1>9 DEF rank
  <2>1. ASSUME hist(i) >= rank PROVE n <= Bounds[i]
    <3>1. Covered(i) \in N
      BY <1>3, <1>4, <1>5, <2>1 DEF rank
    <3>2. n <= Covered(i) /\ Covered(i) <= Bounds[i] /\ Covered(i) \in Nat /\ n \in Nat /\ Bounds[i] \in Nat
      BY <1>1, <1>2, <1>4, <1>7, <1>8, <3>1
    <3>3. QED
      BY <3>2
  <2>2. ASSUME n <= Bounds[i] PROVE hist(i) >= rank
    <3>1. upto(n) >= rank /\ upto(n) <= hist(i) /\ upto(n) \in Nat /\ hist(i) \in Nat
      BY <1>2, <1>3, <1>5, <1>7, <1>8, <2>2 DEF rank
    <3>2. QED
      BY <1>11, <3>1
  <2>3. QED
    BY <2>1, <2>2
<1>13. reaching \subseteq 1 .. Len(Bounds) + 1 /\ above \subseteq DOMAIN Bounds
  BY <1>1
<1> HIDE DEF reaching, above
<1>14. CASE above = {}
  <2>1. reaching \subseteq {Len(Bounds) + 1}
    BY <1>1, <1>12, <1>13, <1>14
  <2>2. reaching # {} => Min(reaching) = Len(Bounds) + 1
    <3> DEFINE last == Len(Bounds) + 1
    <3>1. last \in Nat /\ \A x \in reaching : x = last
      <4>1. last \in Nat
        BY <1>1
      <4>2. \A x \in reaching : x = last
        BY <2>1
      <4>3. QED
        BY <4>1, <4>2
    <3> HIDE DEF last
    <3>2. ASSUME NEW y \in reaching PROVE Min(reaching) = last
      <4>1. last \in reaching /\ reaching \in SUBSET Nat /\ \A x \in reaching : last <= x
        BY <3>1, <3>2
      <4>2. QED
        BY <4>1, MinIs
    <3>3. QED
      BY <3>2 DEF last
  <2>3. Percentile(p, s) = s.max
    BY <1>1, <1>10, <2>2
  <2> DEFINE D == {d \in Durations : of[d] > 0}
  <2>4. s.max \in D /\ D \in SUBSET Nat /\ \A d \in D : d <= s.max
    BY <1>1, <1>2 DEF Recorded, Statistics
  <2>5. Max(D) = s.max
    <3> HIDE DEF D
    <3>1. QED
      BY <2>4, MaxIs
  <2>6. QED
    BY <1>14, <2>3, <2>5 DEF above, N
<1>15. CASE above # {}
  <2>1. above \in SUBSET Nat
    BY <1>1, <1>13
  <2>2. PICK m \in above : \A i \in above : m <= i
    BY <1>15, <2>1, LeastNat
  <2>3. Min(above) = m
    BY <2>1, <2>2, MinIs
  <2>4. m \in reaching /\ m \in Nat /\ m <= Len(Bounds)
    BY <1>1, <1>12, <1>13, <2>2
  <2>5. \A i \in reaching : m <= i
    BY <1>1, <1>12, <1>13, <2>2, <2>4
  <2>6. reaching \in SUBSET Nat
    BY <1>1, <1>13
  <2>7. Min(reaching) = m
    BY <2>4, <2>5, <2>6, MinIs
  <2>8. reaching # {} /\ ~(Min(reaching) > Len(Bounds))
    BY <1>1, <2>4, <2>7
  <2>9. Percentile(p, s) = Bounds[Min(above)]
    BY <1>10, <2>3, <2>7, <2>8
  <2>10. QED
    BY <1>15, <2>9 DEF above, N
<1>16. QED
  BY <1>14, <1>15


-----------------------------------------------------------------------------
(* Telemetry: the slice and its report. *)

NoDurations == [d \in Durations |-> 0]

LEMMA RecordedNone == NoStats \in Statistics /\ Recorded(NoStats, NoDurations)
<1>1. /\ Len(Bounds) \in Nat /\ DOMAIN Bounds = 1 .. Len(Bounds) /\ MaxDuration \in Nat
      /\ 0 \in Durations /\ \A d \in Durations : d \in Nat /\ 0 .. d \subseteq Durations
  BY BoundTypes DEF Durations
<1>2. NoStats \in Statistics /\ NoStats.count = 0 /\ NoStats.max = 0
  BY <1>1 DEF NoStats, EmptyHistogram, Statistics, BucketIds
<1>3. SumFunctionOnSet(NoDurations, Durations) = 0
  <2>1. IsFiniteSet(Durations) /\ \A d \in Durations : NoDurations[d] = 0
    BY BoundTypes DEF NoDurations
  <2>2. QED
    BY <2>1, SumZero
<1>4. ASSUME NEW d \in Durations PROVE SumFunctionOnSet(NoDurations, 0 .. d) = 0
  <2>1. IsFiniteSet(0 .. d) /\ \A x \in 0 .. d : NoDurations[x] = 0
    BY <1>1, BoundTypes DEF NoDurations
  <2>2. QED
    BY <2>1, SumZero
<1>5. ASSUME NEW i \in DOMAIN Bounds PROVE SumFunctionOnSet(NoStats.buckets, 1 .. i) = 0
  <2>1. IsFiniteSet(1 .. i) /\ \A x \in 1 .. i : NoStats.buckets[x] = 0
    BY <1>1, BoundTypes DEF NoStats, EmptyHistogram
  <2>2. QED
    BY <2>1, SumZero
<1>6. \A i \in DOMAIN Bounds : Covered(i) \in Durations
  BY CoveredFacts
<1>7. \A d \in Durations : ~(NoDurations[d] > 0)
  BY DEF NoDurations
<1>8. QED
  BY <1>2, <1>3, <1>4, <1>5, <1>6, <1>7 DEF Recorded

\* The sum of the counts, when one of them grows and when all of them are none.
LEMMA CountsMore ==
  ASSUME NEW f \in [OperationKinds -> Nat], NEW r \in OperationKinds
  PROVE  SumFunction([f EXCEPT ![r] = @ + 1]) = SumFunction(f) + 1 /\ SumFunction(f) \in Nat
<1> DEFINE g == [f EXCEPT ![r] = @ + 1]
<1>1. SumFunction(f) = SumFunctionOnSet(f, OperationKinds) /\ SumFunction(g) = SumFunctionOnSet(g, OperationKinds)
  BY DEF SumFunction
<1>2. \A x \in OperationKinds : f[x] \in Nat /\ g[x] = f[x] + (IF x = r THEN 1 ELSE 0)
  OBVIOUS
<1> HIDE DEF g
<1>3. /\ SumFunctionOnSet(f, OperationKinds) \in Nat
      /\ SumFunctionOnSet(g, OperationKinds)
           = SumFunctionOnSet(f, OperationKinds) + (IF r \in OperationKinds THEN 1 ELSE 0)
  <2>1. IsFiniteSet(OperationKinds)
    BY BoundTypes
  <2>2. QED
    BY <1>2, <2>1, SumMore
<1>4. QED
  BY <1>1, <1>3 DEF g

LEMMA CountsNone == SumFunction([k \in OperationKinds |-> 0]) = 0
<1> DEFINE f == [k \in OperationKinds |-> 0]
<1>1. SumFunction(f) = SumFunctionOnSet(f, OperationKinds)
  BY DEF SumFunction
<1>2. \A k \in OperationKinds : f[k] = 0
  OBVIOUS
<1> HIDE DEF f
<1>3. SumFunctionOnSet(f, OperationKinds) = 0
  BY <1>2, BoundTypes, SumZero
<1>4. QED
  BY <1>1, <1>3 DEF f

\* The collector and the history of a slice that has recorded nothing.
LEMMA EmptySlice ==
  LET none == [k \in OperationKinds |-> NoStats]
  IN /\ none \in [OperationKinds -> Statistics] /\ NoSamples \in [OperationKinds -> [Durations -> Nat]]
     /\ \A k \in OperationKinds : Recorded(none[k], NoSamples[k])
     /\ SumFunction(Counts(none)) = 0
<1> DEFINE none == [k \in OperationKinds |-> NoStats]
<1>1. \A k \in OperationKinds : none[k] = NoStats /\ NoSamples[k] = NoDurations
  BY DEF NoSamples, NoDurations, Durations
<1>2. NoSamples \in [OperationKinds -> [Durations -> Nat]]
  BY DEF NoSamples, Durations
<1>3. none \in [OperationKinds -> Statistics]
  BY RecordedNone
<1>4. Counts(none) = [k \in OperationKinds |-> 0]
  BY <1>1 DEF Counts, NoStats
<1> HIDE DEF none
<1>5. \A k \in OperationKinds : Recorded(none[k], NoSamples[k])
  BY <1>1, RecordedNone
<1>6. SumFunction(Counts(none)) = 0
  BY <1>4, CountsNone
<1>7. QED
  BY <1>2, <1>3, <1>5, <1>6 DEF none

LEMMA SliceInit == Init => SliceInv
<1> SUFFICES ASSUME Init PROVE SliceInv
  OBVIOUS
<1>1. /\ stats = [k \in OperationKinds |-> NoStats] /\ samples = NoSamples
      /\ ops = 0 /\ kept = 0 /\ ran = 0 /\ at = "slice"
  BY DEF Init
<1>2. 0 \in Durations
  BY BoundTypes DEF Durations
<1>3. QED
  BY <1>1, <1>2, EmptySlice DEF SliceInv

LEMMA SliceStays == SliceInv /\ [Next]_vars => SliceInv'
<1> SUFFICES ASSUME SliceInv, [Next]_vars PROVE SliceInv'
  OBVIOUS
<1>1. ASSUME UNCHANGED <<stats, samples, stage, ops, kept, ran>>, at' # "slice" => op'.kind \in OperationKinds,
             at = "running" <=> at' = "running"
      PROVE  SliceInv'
  BY <1>1 DEF SliceInv, Counts
<1>2. CASE UNCHANGED vars
  BY <1>1, <1>2 DEF vars, SliceInv
<1>3. CASE Control
  BY <1>1, <1>3 DEF Control, Cancel, PauseOrResume, StoreInterval, StoreRate, SliceInv
<1>4. CASE Begin
  <2>1. op'.kind \in OperationKinds
    BY <1>4 DEF Begin
  <2>2. QED
    BY <1>1, <1>4, <2>1 DEF Begin
<1>5. CASE Gate /\ ~Enter
  BY <1>1, <1>5 DEF Gate, GiveUp, Look, LeavePause, LoadInterval, LoadRate, CompareElapsed,
                    Recheck, Start, SliceInv
<1>6. CASE Enter
  <2>1. /\ at = "start" /\ at' = "running" /\ ops' = ops + 1 /\ ran' = 0
        /\ UNCHANGED <<op, stage, stats, samples, kept>>
    BY <1>6 DEF Enter
  <2>2. 0 \in Durations
    BY BoundTypes DEF Durations
  <2>3. ops \in Nat /\ kept \in {0, 1} /\ ops + kept = SumFunction(Counts(stats)) + 0
    BY <2>1 DEF SliceInv
  <2>4. Counts(stats') = Counts(stats)
    BY <2>1 DEF Counts
  <2> DEFINE total == SumFunction(Counts(stats))
  <2>5. total \in Nat
    <3>1. Counts(stats) \in [OperationKinds -> Nat] /\ op.kind \in OperationKinds
      BY <2>1 DEF SliceInv, Counts, Statistics
    <3>2. QED
      BY <3>1, CountsMore
  <2>6. SumFunction(Counts(stats')) = total
    BY <2>4
  <2> HIDE DEF total
  <2>7. ops' + kept' = total + 1 /\ ops' \in Nat
    BY <2>1, <2>3, <2>5 DEF total
  <2>8. QED
    BY <2>1, <2>2, <2>3, <2>6, <2>7 DEF SliceInv
<1>7. CASE Finish
  <2> DEFINE k == op.kind
  <2>1. /\ at = "running" /\ at' = "slice" /\ ran' = 0 /\ UNCHANGED <<stage, ops, kept>>
        /\ stats' = [stats EXCEPT ![k] = Record(stats[k], ran)]
        /\ samples' = [samples EXCEPT ![k] = [samples[k] EXCEPT ![ran] = @ + 1]]
    BY <1>7 DEF Finish
  <2>2. /\ k \in OperationKinds /\ stats[k] \in Statistics /\ samples[k] \in [Durations -> Nat]
        /\ ran \in Durations /\ Recorded(stats[k], samples[k]) /\ 0 \in Durations
        /\ ops \in Nat /\ ops + kept = SumFunction(Counts(stats)) + 1
        /\ stats \in [OperationKinds -> Statistics] /\ samples \in [OperationKinds -> [Durations -> Nat]]
    BY <2>1, BoundTypes DEF SliceInv, Durations
  <2> HIDE DEF k
  <2> DEFINE s == Record(stats[k], ran)
             of == [samples[k] EXCEPT ![ran] = @ + 1]
  <2>3. s \in Statistics /\ Recorded(s, of) /\ of \in [Durations -> Nat]
    <3>1. of \in [Durations -> Nat]
      BY <2>2
    <3> DEFINE st == stats[k]
               sa == samples[k]
    <3>2. st \in Statistics /\ sa \in [Durations -> Nat] /\ Recorded(st, sa) /\ ran \in Durations
      BY <2>2
    <3> HIDE DEF st, sa
    <3>3. Record(st, ran) \in Statistics /\ Recorded(Record(st, ran), [sa EXCEPT ![ran] = @ + 1])
      BY <3>2, RecordedMore
    <3>4. QED
      BY <3>1, <3>3 DEF st, sa
  <2>4. s.count = stats[k].count + 1
    BY DEF Record
  <2> HIDE DEF s, of
  <2>5. stats' = [stats EXCEPT ![k] = s] /\ samples' = [samples EXCEPT ![k] = of]
    BY <2>1 DEF s, of
  <2>6. stats' \in [OperationKinds -> Statistics] /\ samples' \in [OperationKinds -> [Durations -> Nat]]
    BY <2>2, <2>3, <2>5
  <2>7. \A l \in OperationKinds : Recorded(stats'[l], samples'[l])
    <3> SUFFICES ASSUME NEW l \in OperationKinds PROVE Recorded(stats'[l], samples'[l])
      OBVIOUS
    <3>1. CASE l = k
      <4>1. stats'[l] = s /\ samples'[l] = of
        BY <2>2, <2>5, <3>1
      <4>2. QED
        BY <2>3, <4>1
    <3>2. CASE l # k
      <4>1. stats'[l] = stats[l] /\ samples'[l] = samples[l]
        BY <2>2, <2>5, <3>2
      <4>2. Recorded(stats[l], samples[l])
        BY DEF SliceInv
      <4>3. QED
        BY <4>1, <4>2
    <3>3. QED
      BY <3>1, <3>2
  <2>8. /\ Counts(stats) \in [OperationKinds -> Nat]
        /\ Counts(stats') = [Counts(stats) EXCEPT ![k] = @ + 1]
    BY <2>2, <2>4, <2>5 DEF Counts, Statistics
  <2>9. SumFunction(Counts(stats')) = SumFunction(Counts(stats)) + 1
    BY <2>2, <2>8, CountsMore
  <2>10. ops' + kept' = SumFunction(Counts(stats')) + 0 /\ ops' \in Nat
    <3>1. SumFunction(Counts(stats)) \in Nat
      BY <2>2, <2>8, CountsMore
    <3>2. QED
      BY <2>1, <2>2, <2>9, <3>1
  <2>11. QED
    BY <2>1, <2>2, <2>6, <2>7, <2>10 DEF SliceInv
<1>8. CASE EndSlice
  <2>1. /\ at = "slice" /\ at' = "slice" /\ ran' = ran /\ ops' = 0 /\ kept' = 0 /\ samples' = NoSamples
        /\ stats' = [k \in OperationKinds |-> NoStats]
    BY <1>8 DEF EndSlice, StatsAfterTake
  <2>2. ran \in Durations
    BY DEF SliceInv
  <2>3. QED
    BY <2>1, <2>2, EmptySlice DEF SliceInv
<1>9. CASE FallBack
  <2>1. /\ at = "slice" /\ stage = "root" /\ stage' = "later" /\ ops = 1 /\ ops' = 0 /\ kept' = 1
        /\ UNCHANGED <<at, op, ran, stats, samples>>
    BY <1>9 DEF FallBack
  <2>2. kept = 0 /\ 1 + 0 = SumFunction(Counts(stats)) + 0
    BY <2>1 DEF SliceInv
  <2>3. Counts(stats') = Counts(stats) /\ ops' + kept' = SumFunction(Counts(stats)) + 0
    BY <2>1, <2>2 DEF Counts
  <2>4. QED
    BY <2>1, <2>3 DEF SliceInv
<1>10. CASE Tick
  <2>1. /\ UNCHANGED <<at, op, stage, ops, kept, stats, samples>> /\ (at = "running" => ran < MaxDuration)
        /\ ran' = IF at = "running" THEN ran + 1 ELSE ran
    BY <1>10 DEF Tick
  <2>2. ran' \in Durations
    BY <2>1, BoundTypes DEF SliceInv, Durations
  <2>3. QED
    BY <2>1, <2>2 DEF SliceInv, Counts
<1>11. QED
  BY <1>2, <1>3, <1>4, <1>5, <1>6, <1>7, <1>8, <1>9, <1>10 DEF Next

LEMMA SliceInvariance == Spec => []SliceInv
BY SliceInit, SliceStays, PTL DEF Spec

\* What EndSlice takes is what the slice recorded.
LEMMA ReportTaken == SliceInv /\ EndSlice => ReportExact'
<1> SUFFICES ASSUME SliceInv, EndSlice PROVE ReportExact'
  OBVIOUS
<1>1. report' = [operations |-> ops, kept |-> kept, of |-> samples,
                 stats |-> [k \in OperationKinds |->
                   [count |-> stats[k].count, max |-> stats[k].max,
                    percentiles |-> [p \in Percents |-> Percentile(p, stats[k])]]]]
  BY DEF EndSlice
<1>2. /\ report'.operations = ops /\ report'.kept = kept /\ report'.of = samples
      /\ \A k \in OperationKinds :
           /\ report'.stats[k].count = stats[k].count
           /\ \A p \in Percents : report'.stats[k].percentiles[p] = Percentile(p, stats[k])
  BY <1>1
<1>3. /\ report'.kept \in {0, 1}
      /\ report'.operations + report'.kept = SumFunction([k \in OperationKinds |-> report'.stats[k].count])
  <2>1. [k \in OperationKinds |-> report'.stats[k].count] = Counts(stats)
    BY <1>2 DEF Counts
  <2>2. at # "running" /\ ops \in Nat /\ kept \in {0, 1}
    BY DEF EndSlice, SliceInv
  <2>3. ops + kept = SumFunction(Counts(stats)) + 0
    BY <2>2 DEF SliceInv
  <2>4. SumFunction(Counts(stats)) \in Nat \/ OperationKinds = {}
    <3>1. Counts(stats) \in [OperationKinds -> Nat]
      BY DEF SliceInv, Counts, Statistics
    <3>2. QED
      BY <3>1, CountsMore
  <2>5. OperationKinds = {} => SumFunction(Counts(stats)) = 0
    <3>1. OperationKinds = {} => Counts(stats) = [k \in OperationKinds |-> 0]
      BY DEF Counts
    <3>2. QED
      BY <3>1, CountsNone
  <2> DEFINE total == SumFunction(Counts(stats))
  <2>6. total \in Nat
    BY <2>4, <2>5
  <2> HIDE DEF total
  <2>7. ops + kept = total
    BY <2>2, <2>3, <2>6 DEF total
  <2>8. QED
    BY <1>2, <2>1, <2>2, <2>7 DEF total
<1>4. ASSUME NEW k \in OperationKinds
      PROVE  /\ stats[k] \in Statistics /\ report'.of[k] \in [Durations -> Nat]
             /\ Recorded(stats[k], report'.of[k])
             /\ SumFunction(report'.of[k]) = stats[k].count
  <2>1. /\ stats[k] \in Statistics /\ samples[k] \in [Durations -> Nat]
        /\ Recorded(stats[k], samples[k])
    BY DEF SliceInv
  <2>2. SumFunction(samples[k]) = SumFunctionOnSet(samples[k], Durations)
    BY <2>1 DEF SumFunction
  <2>3. QED
    BY <1>2, <2>1, <2>2 DEF Recorded
<1>5. ASSUME NEW k \in OperationKinds, SumFunction(report'.of[k]) > 0, NEW p \in Percents
      PROVE  LET nearest == Min({d \in 0 .. MaxDuration :
                               /\ 100 * SumFunctionOnSet(report'.of[k], 0 .. d) >= p * SumFunction(report'.of[k])
                               /\ SumFunctionOnSet(report'.of[k], 0 .. d) > 0})
                 above == {i \in DOMAIN Bounds : nearest <= Bounds[i]}
             IN report'.stats[k].percentiles[p]
                  = IF above = {} THEN Max({d \in 0 .. MaxDuration : report'.of[k][d] > 0})
                    ELSE Bounds[Min(above)]
  <2> DEFINE of == report'.of[k]
             st == stats[k]
  <2>1. st \in Statistics /\ of \in [Durations -> Nat] /\ Recorded(st, of) /\ SumFunction(of) = st.count
    BY <1>4
  <2>2. SumFunction(of) > 0
    BY <1>5
  <2> HIDE DEF of, st
  <2>3. LET above == {i \in DOMAIN Bounds : Min(Enough(of, p, st.count)) <= Bounds[i]}
        IN Percentile(p, st) = IF above = {} THEN Max({d \in Durations : of[d] > 0})
                               ELSE Bounds[Min(above)]
    BY <2>1, <2>2, PercentileFacts
  <2>4. Enough(of, p, st.count) = {d \in 0 .. MaxDuration :
                                     /\ 100 * SumFunctionOnSet(of, 0 .. d) >= p * SumFunction(of)
                                     /\ SumFunctionOnSet(of, 0 .. d) > 0}
    BY <2>1 DEF Enough, Durations
  <2>5. report'.stats[k].percentiles[p] = Percentile(p, st)
    BY <1>2 DEF st
  <2>6. QED
    BY <2>3, <2>4, <2>5 DEF of, Durations
<1>6. \A k \in OperationKinds : report'.stats[k].count = SumFunction(report'.of[k])
  BY <1>2, <1>4
<1>7. QED
  BY <1>3, <1>5, <1>6 DEF ReportExact, Exact

LEMMA ReportStays == SliceInv /\ ReportExact /\ [Next]_vars => ReportExact'
<1> SUFFICES ASSUME SliceInv, ReportExact, [Next]_vars PROVE ReportExact'
  OBVIOUS
<1>1. CASE EndSlice
  BY <1>1, ReportTaken
<1>2. CASE Begin
  BY <1>2 DEF Begin, ReportExact
<1>3. CASE report' = report
  BY <1>3 DEF ReportExact
<1>4. QED
  BY <1>1, <1>2, <1>3 DEF Next, Control, Cancel, PauseOrResume, StoreInterval, StoreRate,
     Gate, GiveUp, Look, LeavePause, LoadInterval, LoadRate, CompareElapsed, Recheck, Start,
     Enter, Finish, FallBack, Tick, vars

\* The telemetry of every slice, for any bounds of the histogram that ascend: each operation
\* that was started is recorded once before take empties the collector, the page of a root that
\* fell back to DA 2 with the slice after it, and percentile_from_rank finds in the cumulated counts the bound of the nearest-rank percentile of the durations, which
\* it never sees, or the maximum when that percentile lies beyond the last bound.
THEOREM ReportsAreExact == Spec => []ReportExact
<1>1. Init => ReportExact
  BY DEF Init, ReportExact
<1>2. QED
  BY SliceInvariance, ReportStays, <1>1, PTL DEF Spec
=============================================================================
