----------------------------- MODULE ValueStream -----------------------------
(***************************************************************************)
(* What a native iterator promises its caller: the values the server hands *)
(* over are returned one by one, in order, each once; a value is lost only *)
(* together with an error; once the stream is over nothing more comes.     *)
(***************************************************************************)
EXTENDS Sequences

CONSTANT
  Nothing        \* the result None; an entry without a value

VARIABLES
  ahead,         \* entries handed over and not yet returned
  over,          \* the stream has ended or failed
  result         \* what the last call returned

Ok(v) == [kind |-> "ok", value |-> v]
Err == [kind |-> "err"]

Init == ahead = <<>> /\ over = FALSE /\ result = Nothing

\* The server hands over more values, when none is left.
Offer == ~over /\ ahead = <<>> /\ ahead' # <<>> /\ UNCHANGED <<over, result>>

\* The next value, or an error in its place.
Deliver ==
  /\ ~over /\ ahead # <<>>
  /\ ahead' = Tail(ahead)
  /\ result' \in {Ok(Head(ahead)), Err}
  /\ UNCHANGED over

\* An entry without a value may be passed over.
Skip ==
  /\ ahead # <<>> /\ Head(ahead) = Nothing
  /\ ahead' = Tail(ahead)
  /\ UNCHANGED <<over, result>>

\* The caller's own gate or cancel: no value now, and none lost.
Pause == result' = Nothing /\ UNCHANGED <<ahead, over>>

\* The end comes after the last value; a failure drops the rest and says so.
End == ~over /\ ahead = <<>> /\ over' = TRUE /\ result' = Nothing /\ UNCHANGED ahead
Fail == ~over /\ over' = TRUE /\ ahead' = <<>> /\ result' = Err

Next == Offer \/ Deliver \/ Skip \/ Pause \/ End \/ Fail

Spec == Init /\ [][Next]_<<ahead, over, result>>

=============================================================================
