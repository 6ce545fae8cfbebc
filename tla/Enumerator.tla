------------------------------ MODULE Enumerator ------------------------------
(***************************************************************************)
(* A DA 2 name enumerator as the browsers use it: the server's enumerator  *)
(* behind GuardedBrowseIterator, which gives up when the same name comes   *)
(* MaxSame times in a row, behind BufferedBrowseIterator, which reads one  *)
(* value ahead. A fetch is a choice among outcomes, each with its cost in  *)
(* faults of the server.                                                   *)
(***************************************************************************)
EXTENDS Naturals, Sequences

CONSTANTS
  MaxSame,       \* MAX_CONSECUTIVE_IDENTICAL_BROWSE_VALUES
  Nil            \* Option::None

\* A name that is listed once is not given up.
ASSUME MaxSameAssumption == MaxSame \in Nat \ {0, 1}

\* Names left, last name and its consecutive count, value read ahead.
Iterator(names) == [rest |-> names, last |-> Nil, same |-> 0, pending |-> <<>>]

Result(kind, name) == [kind |-> kind, name |-> name]

\* Enumerators of these names, and the values they may have read ahead.
Iterators(names) ==
  [rest : Seq(names), last : names \cup {Nil}, same : Nat,
   pending : {<<>>} \cup {<<r>> : r \in {Result("name", n) : n \in names}
                                    \cup {Result("stuck", Nil), Result("broken", Nil)}}]

\* The guard counts identical consecutive names and gives up at MaxSame.
Guarded(it, name) ==
  LET same == IF name = it.last THEN it.same + 1 ELSE 1
  IN IF same >= MaxSame
     THEN [res |-> Result("stuck", Nil), it |-> Iterator(<<>>)]
     ELSE [res |-> Result("name", name), it |-> [it EXCEPT !.last = name, !.same = same]]

\* One native fetch with what it costs: the next name, the end, the last name
\* once more, or a failure. What a failure takes with it is left to the callers
\* that go on after one.
Fetches(it) ==
  {[f |-> IF it.rest = <<>> THEN [res |-> Result("end", Nil), it |-> it]
          ELSE Guarded([it EXCEPT !.rest = Tail(it.rest)], Head(it.rest)),
    cost |-> 0]}
  \cup (IF it.last = Nil THEN {} ELSE {[f |-> Guarded(it, it.last), cost |-> 1]})
  \cup {[f |-> [res |-> Result("broken", Nil), it |-> it], cost |-> 1]}

\* BufferedBrowseIterator::next takes the value read ahead first.
NextOf(it) ==
  IF it.pending = <<>> THEN Fetches(it)
  ELSE {[f |-> [res |-> Head(it.pending), it |-> [it EXCEPT !.pending = <<>>]],
         cost |-> 0]}

\* BufferedBrowseIterator::has_more reads one value ahead and keeps it.
PeekOf(it) ==
  IF it.pending # <<>> THEN {[f |-> [res |-> Head(it.pending), it |-> it], cost |-> 0]}
  ELSE {[f |-> [res |-> x.f.res,
                it |-> [x.f.it EXCEPT
                         !.pending = IF x.f.res.kind = "end" THEN <<>> ELSE <<x.f.res>>]],
         cost |-> x.cost] : x \in Fetches(it)}

\* An enumerator that was never created, or was dropped, has nothing.
Peeks(it) ==
  IF it = Nil THEN {[f |-> [res |-> Result("end", Nil), it |-> Nil], cost |-> 0]}
  ELSE PeekOf(it)

=============================================================================
