------------------------ MODULE InventoryStreamProofs ------------------------
(***************************************************************************)
(* Theorems about InventoryStream, for every set of streams, channel       *)
(* capacity and number of native calls.                                    *)
(***************************************************************************)
EXTENDS InventoryStream, SequenceTheorems, TLAPS

USE DEF consumerVars, workerVars

Msg == Terminals \cup {Event}

-----------------------------------------------------------------------------
(* Types. *)

LEMMA Messages ==
  /\ Event \notin Terminals /\ EndOfStream \notin Terminals /\ EndOfStream # Event
  /\ Failure \in Terminals /\ Completed(TRUE) \in Terminals
  /\ \A f \in BOOLEAN : Completed(f) \in Terminals
  BY DEF Terminals, Event, EndOfStream, Failure, Completed

Flags == [cancelled : BOOLEAN, paused : BOOLEAN]

LEMMA FlagUpdates ==
  \A f \in Flags, b \in BOOLEAN :
    [f EXCEPT !.cancelled = b] \in Flags /\ [f EXCEPT !.paused = b] \in Flags
  BY DEF Flags

\* The type invariant holds in every reachable state; in particular no
\* interleaving of senders and receivers overfills the event channel.
THEOREM TypeCorrect == Spec => []TypeOK
<1>1. Init => TypeOK
  <2>1. 0 \in 0 .. MaxCalls /\ Len(<<>>) <= Capacity
    BY StreamAssumption
  <2>2. [cancelled |-> FALSE, paused |-> FALSE] \in Flags
    BY DEF Flags
  <2>3. <<>> \in Seq(Terminals \cup {Event}) /\ <<>> \in Seq(Terminals \cup {EndOfStream})
    OBVIOUS
  <2> SUFFICES ASSUME Init PROVE TypeOK
    OBVIOUS
  <2>4. chan \in [Streams -> Seq(Terminals \cup {Event})]
        /\ received \in [Streams -> Seq(Terminals \cup {EndOfStream})]
    BY <2>3 DEF Init
  <2>5. \A s \in Streams : Len(chan[s]) <= Capacity
    BY <2>1 DEF Init
  <2>6. control \in [Streams -> Flags]
    BY <2>2 DEF Init
  <2>7. result \in [Streams -> Terminals \cup {Event}]
    BY DEF Init
  <2>8. QED
    BY <2>1, <2>4, <2>5, <2>6, <2>7 DEF Init, TypeOK, Flags
<1>2. TypeOK /\ [Next]_vars => TypeOK'
  <2> SUFFICES ASSUME TypeOK, [Next]_vars PROVE TypeOK'
    OBVIOUS
  <2>1. CASE UNCHANGED vars
    BY <2>1 DEF vars, TypeOK
  <2>2. ASSUME NEW s \in Streams, Starting(s) PROVE TypeOK'
    BY <2>2 DEF Starting, Claim, Spawn, SpawnFails, TypeOK
  <2>3. ASSUME NEW s \in Streams, WorkerStep(s) PROVE TypeOK'
    <3>1. CASE NativeCall(s)
      <4>1. calls[s] + 1 \in 0 .. MaxCalls
        BY <3>1, StreamAssumption DEF NativeCall, TypeOK
      <4>2. worker' = [worker EXCEPT ![s] = "send"]
            /\ \E r \in Terminals \cup {Event} : result' = [result EXCEPT ![s] = r]
        BY <3>1, Messages DEF NativeCall, Goes
      <4>3. calls' = [calls EXCEPT ![s] = calls[s] + 1]
            /\ UNCHANGED <<active, consumerVars, chan, control>>
        BY <3>1 DEF NativeCall
      <4>4. QED
        BY <4>1, <4>2, <4>3 DEF TypeOK
    <3>2. CASE Settle(s)
      BY <3>2, Messages DEF Settle, Goes, TypeOK
    <3>3. CASE Send(s)
      <4>1. chan[s] \in Seq(Msg) /\ result[s] \in Msg /\ After(s) \in {"boundary", "ended"}
        BY DEF TypeOK, Msg, After
      <4>2. Append(chan[s], result[s]) \in Seq(Msg)
            /\ Len(Append(chan[s], result[s])) = Len(chan[s]) + 1 /\ Len(chan[s]) \in Nat
        BY <4>1
      <4>3. chan' \in [Streams -> Seq(Msg)]
        BY <3>3, <4>2 DEF Send, TypeOK, Msg
      <4>4. \A t \in Streams : Len(chan'[t]) <= Capacity
        BY <3>3, <4>2, StreamAssumption DEF Send, TypeOK, HasSlot
      <4>5. QED
        BY <3>3, <4>1, <4>3, <4>4 DEF Send, Goes, TypeOK, Msg
    <3>4. CASE SendFails(s)
      BY <3>4, Messages DEF SendFails, Goes, TypeOK
    <3>5. CASE ReleaseSlot(s)
      BY <3>5 DEF ReleaseSlot, Goes, TypeOK
    <3>6. CASE Exit(s)
      BY <3>6, StreamAssumption DEF Exit, Goes, TypeOK
    <3>7. QED
      BY <2>3, <3>1, <3>2, <3>3, <3>4, <3>5, <3>6 DEF WorkerStep
  <2>4. ASSUME NEW s \in Streams, ConsumerStep(s) PROVE TypeOK'
    <3>1. CASE Message(s)
      <4>1. CASE chan[s] # <<>> /\ chan' = [chan EXCEPT ![s] = Tail(@)]
                 /\ seen' = [seen EXCEPT ![s] = @ \/ Head(chan[s]).type = "completed"]
                 /\ received' = IF Head(chan[s]) = Event THEN received
                                ELSE [received EXCEPT ![s] = Append(@, Head(chan[s]))]
        <5>1. chan[s] \in Seq(Msg) /\ received[s] \in Seq(Terminals \cup {EndOfStream})
          BY DEF TypeOK, Msg
        <5>2. Tail(chan[s]) \in Seq(Msg) /\ Len(Tail(chan[s])) <= Len(chan[s])
              /\ Len(Tail(chan[s])) \in Nat /\ Len(chan[s]) \in Nat /\ Head(chan[s]) \in Msg
          BY <4>1, <5>1
        <5>3. chan' \in [Streams -> Seq(Msg)] /\ \A t \in Streams : Len(chan'[t]) <= Capacity
          <6>1. chan \in [Streams -> Seq(Msg)] /\ \A t \in Streams : Len(chan[t]) <= Capacity
            BY DEF TypeOK, Msg
          <6>2. chan' = [chan EXCEPT ![s] = Tail(chan[s])]
            BY <4>1
          <6>3. chan' \in [Streams -> Seq(Msg)] /\ chan'[s] = Tail(chan[s])
                /\ \A t \in Streams \ {s} : chan'[t] = chan[t]
            BY ONLY <5>2, <6>1, <6>2, s \in Streams
          <6>4. Len(chan'[s]) <= Capacity
            <7>1. Capacity \in Nat /\ Len(chan[s]) <= Capacity
              BY <6>1, StreamAssumption
            <7>2. QED
              BY ONLY <5>2, <6>3, <7>1
          <6>5. QED
            BY ONLY <6>1, <6>3, <6>4
        <5>4. received' \in [Streams -> Seq(Terminals \cup {EndOfStream})]
          BY <4>1, <5>1, <5>2 DEF TypeOK, Msg
        <5>5. QED
          BY <3>1, <4>1, <5>3, <5>4 DEF Message, TypeOK, Msg
      <4>2. CASE received' = [received EXCEPT ![s] = Append(@, EndOfStream)]
                 /\ UNCHANGED <<seen, chan>>
        <5>1. received' \in [Streams -> Seq(Terminals \cup {EndOfStream})]
          <6>1. received \in [Streams -> Seq(Terminals \cup {EndOfStream})]
            BY DEF TypeOK
          <6>2. QED
            BY <4>2, <6>1
        <5>2. UNCHANGED <<active, stage, open, worker, calls, result, control, seen, chan>>
          BY <3>1, <4>2 DEF Message, workerVars
        <5>3. QED
          BY <5>1, <5>2 DEF TypeOK
      <4>3. QED
        BY <3>1, <4>1, <4>2 DEF Message
    <3>2. CASE Cancel(s) \/ Pause(s) \/ Resume(s)
      <4>1. PICK f \in Flags : Controls(s, f)
        <5>1. control[s] \in Flags
          BY DEF TypeOK, Flags
        <5>2. /\ [control[s] EXCEPT !.cancelled = TRUE] \in Flags
              /\ [control[s] EXCEPT !.paused = TRUE] \in Flags
              /\ [control[s] EXCEPT !.paused = FALSE] \in Flags
          BY <5>1, FlagUpdates
        <5>3. QED
          BY <3>2, <5>2 DEF Cancel, Pause, Resume
      <4>2. QED
        BY <4>1 DEF Controls, TypeOK, Flags
    <3>3. CASE Close(s)
      BY <3>3 DEF Close, TypeOK
    <3>6. CASE CancelOnDrop(s)
      <4>1. PICK b \in BOOLEAN : b = (control[s].cancelled \/ ~seen[s])
        OBVIOUS
      <4>2. control' = [control EXCEPT ![s] = [control[s] EXCEPT !.cancelled = b]]
        BY <3>6, <4>1 DEF CancelOnDrop
      <4>3. control' \in [Streams -> Flags]
        <5>1. control \in [Streams -> Flags] /\ control[s] \in Flags
          BY DEF TypeOK, Flags
        <5>2. [control[s] EXCEPT !.cancelled = b] \in Flags
          BY <5>1, FlagUpdates
        <5>3. QED
          BY <4>2, <5>1, <5>2
      <4>4. stage' = [stage EXCEPT ![s] = "joining"]
            /\ UNCHANGED <<active, open, seen, received, workerVars, chan>>
        BY <3>6 DEF CancelOnDrop
      <4>5. QED
        BY <4>3, <4>4 DEF TypeOK, Flags
    <3>4. CASE Join(s)
      BY <3>4, StreamAssumption DEF Join, TypeOK
    <3>5. QED
      BY <2>4, <3>1, <3>2, <3>3, <3>4, <3>6 DEF ConsumerStep
  <2>5. QED
    BY <2>1, <2>2, <2>3, <2>4 DEF Next
<1>3. QED
  BY <1>1, <1>2, PTL DEF Spec

-----------------------------------------------------------------------------
(***************************************************************************)
(* The slot. SlotExact alone is not inductive: releasing the slot must not *)
(* release it under another holder, and a claimed stream has no thread     *)
(* yet. Owners says which stage each thread can be in.                     *)
(***************************************************************************)
Owners ==
  \A s \in Streams :
    /\ stage[s] \in {"none", "rejected", "claimed"} => worker[s] = "none"
    /\ stage[s] = "gone" => worker[s] = "exited"

SlotInv == TypeOK /\ SlotExact /\ Owners

\* What a step of a holder, or of a thread that no longer holds, does to the
\* set of holders.
LEMMA SlotStep ==
  ASSUME SlotInv, TypeOK', NEW s \in Streams,
         \A t \in Streams \ {s} : stage'[t] = stage[t] /\ worker'[t] = worker[t],
         Holds(s)' => Holds(s) \/ ~active,
         active' <=> Holds(s)' \/ (active /\ ~Holds(s))
  PROVE  SlotExact'
<1>1. \A t \in Streams \ {s} : Holds(t)' <=> Holds(t)
  BY DEF Holds
<1>2. active \in BOOLEAN /\ active' \in BOOLEAN
  BY DEF SlotInv, TypeOK
<1>3. ASSUME NEW a \in Streams, NEW b \in Streams, Holds(a)', Holds(b)' PROVE a = b
  BY <1>1, <1>3 DEF SlotInv, SlotExact
<1>4. active' => \E t \in Streams : Holds(t)'
  BY <1>1 DEF SlotInv, SlotExact
<1>5. ASSUME NEW t \in Streams, Holds(t)' PROVE active'
  <2>1. CASE t = s
    BY <1>5, <2>1
  <2>2. CASE t # s
    BY <1>1, <1>5, <2>2 DEF SlotInv, SlotExact
  <2>3. QED
    BY <2>1, <2>2
<1>6. QED
  BY <1>2, <1>3, <1>4, <1>5 DEF SlotExact

\* A step that changes neither the slot nor the holders.
LEMMA SlotKept ==
  ASSUME SlotInv, TypeOK', \A t \in Streams : Holds(t)' <=> Holds(t), active' = active
  PROVE  SlotExact'
  BY DEF SlotInv, SlotExact

LEMMA SlotInductive == SlotInv /\ TypeOK' /\ [Next]_vars => SlotInv'
<1> SUFFICES ASSUME SlotInv, TypeOK', [Next]_vars PROVE SlotExact' /\ Owners'
  BY DEF SlotInv
<1>1. CASE UNCHANGED vars
  <2>1. \A t \in Streams : Holds(t)' <=> Holds(t)
    BY <1>1 DEF vars, Holds
  <2>2. QED
    BY <1>1, <2>1, SlotKept DEF vars, Owners, SlotInv
<1>2. ASSUME NEW s \in Streams, Starting(s) PROVE SlotExact' /\ Owners'
  <2>1. CASE Claim(s)
    <3>1. CASE active
      <4>1. \A t \in Streams : Holds(t)' <=> Holds(t)
        BY <2>1, <3>1 DEF Claim, Holds, SlotInv, TypeOK
      <4>2. active' = active
        BY <2>1, <3>1 DEF Claim, SlotInv, TypeOK
      <4>3. QED
        BY <2>1, <3>1, <4>1, <4>2, SlotKept DEF Claim, Owners, SlotInv, TypeOK
    <3>2. CASE ~active
      <4>1. stage' = [stage EXCEPT ![s] = "claimed"] /\ active' /\ worker' = worker
        BY <2>1, <3>2 DEF Claim
      <4>2. Holds(s)'
        BY <4>1 DEF Holds, SlotInv, TypeOK
      <4>3. \A t \in Streams \ {s} : stage'[t] = stage[t] /\ worker'[t] = worker[t]
        BY <4>1 DEF SlotInv, TypeOK
      <4>4. SlotExact'
        BY <3>2, <4>1, <4>2, <4>3, SlotStep
      <4>5. QED
        BY <2>1, <4>1, <4>4 DEF Claim, Owners, SlotInv, TypeOK
    <3>3. QED
      BY <3>1, <3>2
  <2>2. CASE Spawn(s)
    <3>1. \A t \in Streams : Holds(t)' <=> Holds(t)
      BY <2>2 DEF Spawn, Goes, Holds, SlotInv, TypeOK
    <3>2. QED
      BY <2>2, <3>1, SlotKept DEF Spawn, Owners, SlotInv, TypeOK
  <2>3. CASE SpawnFails(s)
    <3>1. stage' = [stage EXCEPT ![s] = "rejected"] /\ ~active' /\ worker' = worker
      BY <2>3 DEF SpawnFails
    <3>2. Holds(s) /\ ~Holds(s)'
      BY <2>3, <3>1 DEF SpawnFails, Holds, SlotInv, TypeOK, Owners
    <3>3. \A t \in Streams \ {s} : stage'[t] = stage[t] /\ worker'[t] = worker[t]
      BY <3>1 DEF SlotInv, TypeOK
    <3>4. SlotExact'
      BY <3>1, <3>2, <3>3, SlotStep
    <3>5. QED
      BY <2>3, <3>1, <3>4 DEF SpawnFails, Owners, SlotInv, TypeOK
  <2>4. QED
    BY <1>2, <2>1, <2>2, <2>3 DEF Starting
<1>3. ASSUME NEW s \in Streams, WorkerStep(s) PROVE SlotExact' /\ Owners'
  <2>1. CASE ReleaseSlot(s)
    <3>1. worker' = [worker EXCEPT ![s] = "released"] /\ ~active' /\ stage' = stage
      BY <2>1 DEF ReleaseSlot, Goes
    <3>2. Holds(s) /\ ~Holds(s)'
      BY <2>1, <3>1 DEF ReleaseSlot, Holds, SlotInv, TypeOK, Owners
    <3>3. \A t \in Streams \ {s} : stage'[t] = stage[t] /\ worker'[t] = worker[t]
      BY <3>1 DEF SlotInv, TypeOK
    <3>4. SlotExact'
      BY <3>1, <3>2, <3>3, SlotStep
    <3>5. QED
      BY <2>1, <3>1, <3>4 DEF ReleaseSlot, Owners, SlotInv, TypeOK
  <2>2. ASSUME NEW x \in {"boundary", "send", "ended"}, NEW y \in {"boundary", "send", "ended"},
               worker[s] = x, worker' = [worker EXCEPT ![s] = y],
               stage' = stage, active' = active
        PROVE  SlotExact' /\ Owners'
    <3>1. \A t \in Streams : Holds(t)' <=> Holds(t)
      BY <2>2 DEF Holds, SlotInv, TypeOK
    <3>2. QED
      BY <2>2, <3>1, SlotKept DEF Owners, SlotInv, TypeOK
  <2>3. CASE NativeCall(s) \/ Settle(s)
    BY <2>2, <2>3 DEF NativeCall, Settle, Goes
  <2>4. CASE Send(s)
    <3>1. After(s) \in {"boundary", "send", "ended"}
      BY DEF After
    <3>2. QED
      BY <2>2, <2>4, <3>1 DEF Send, Goes
  <2>5. CASE SendFails(s)
    <3>1. CASE result[s] = Event
      <4>1. worker' = [worker EXCEPT ![s] = "send"]
        <5>1. worker' = worker /\ worker[s] = "send"
          BY <2>5, <3>1 DEF SendFails
        <5>2. DOMAIN worker = Streams /\ worker \in [Streams -> {"none", "boundary", "send", "ended", "released", "exited"}]
          BY DEF SlotInv, TypeOK
        <5>3. worker = [worker EXCEPT ![s] = worker[s]]
          BY <5>2
        <5>4. QED
          BY <5>1, <5>3
      <4>2. QED
        BY <2>2, <2>5, <4>1 DEF SendFails
    <3>2. CASE result[s] # Event
      BY <2>2, <2>5, <3>2 DEF SendFails, Goes
    <3>3. QED
      BY <3>1, <3>2
  <2>6. CASE Exit(s)
    <3>1. \A t \in Streams : Holds(t)' <=> Holds(t)
      BY <2>6 DEF Exit, Goes, Holds, SlotInv, TypeOK
    <3>2. QED
      BY <2>6, <3>1, SlotKept DEF Exit, Goes, Owners, SlotInv, TypeOK
  <2>7. QED
    BY <1>3, <2>1, <2>3, <2>4, <2>5, <2>6 DEF WorkerStep
<1>4. ASSUME NEW s \in Streams, ConsumerStep(s) PROVE SlotExact' /\ Owners'
  <2>1. active' = active /\ worker' = worker
    BY <1>4 DEF ConsumerStep, Message, Cancel, Pause, Resume, Controls, Close, CancelOnDrop, Join
  <2>2. \/ stage' = stage
        \/ stage[s] = "open" /\ stage' = [stage EXCEPT ![s] = "closing"]
        \/ stage[s] = "closing" /\ stage' = [stage EXCEPT ![s] = "joining"]
        \/ stage[s] = "joining" /\ worker[s] = "exited" /\ stage' = [stage EXCEPT ![s] = "gone"]
    BY <1>4 DEF ConsumerStep, Message, Cancel, Pause, Resume, Controls, Close, CancelOnDrop, Join
  <2>3. \A t \in Streams : Holds(t)' <=> Holds(t)
    BY <2>1, <2>2 DEF Holds, SlotInv, TypeOK
  <2>4. QED
    <3>1. SlotExact'
      BY <2>1, <2>3, SlotKept
    <3>2. DOMAIN stage = Streams /\ Owners
      BY DEF SlotInv, TypeOK
    <3>3. QED
      BY <2>1, <2>2, <3>1, <3>2 DEF Owners
<1>5. QED
  BY <1>1, <1>2, <1>3, <1>4 DEF Next

LEMMA SlotAlways == Spec => []SlotInv
<1>1. Init /\ TypeOK => SlotInv
  BY DEF Init, SlotInv, SlotExact, Owners, Holds
<1>2. QED
  BY <1>1, SlotInductive, TypeCorrect, PTL DEF Spec

\* Two inventories never run at once on one client, and the slot is taken
\* exactly while one is being started or runs (inventory_active, its guard and
\* the path of a failed spawn).
THEOREM SlotIsExact == Spec => []SlotExact
<1>1. SlotInv => SlotExact
  BY DEF SlotInv
<1>2. QED
  BY <1>1, SlotAlways, PTL

-----------------------------------------------------------------------------
(***************************************************************************)
(* A justified rejection. The slot is taken, so some stream holds it; that *)
(* its consumer has not seen the end of its stream rests on the order in   *)
(* which the thread's locals drop: the sender after the slot's guard.      *)
(***************************************************************************)
EndMeansExited == \A s \in Streams : Ended(s) => worker[s] = "exited"

LEMMA EndInductive == SlotInv /\ EndMeansExited /\ [Next]_vars => EndMeansExited'
<1> SUFFICES ASSUME SlotInv, EndMeansExited, [Next]_vars, NEW t \in Streams, Ended(t)'
             PROVE  worker'[t] = "exited"
  BY DEF EndMeansExited
<1>1. CASE received' = received
  <2>1. worker[t] = "exited"
    BY <1>1 DEF EndMeansExited, Ended
  <2>2. CASE UNCHANGED vars
    BY <2>1, <2>2 DEF vars
  <2>3. ASSUME NEW s \in Streams, Starting(s) PROVE worker'[t] = "exited"
    BY <2>1, <2>3 DEF Starting, Claim, Spawn, SpawnFails, Goes, SlotInv, Owners, TypeOK
  <2>4. ASSUME NEW s \in Streams, WorkerStep(s) PROVE worker'[t] = "exited"
    <3>1. worker[s] # "exited" /\ worker'[t] = IF t = s THEN worker'[t] ELSE worker[t]
      BY <2>4 DEF WorkerStep, NativeCall, Settle, Send, SendFails, ReleaseSlot, Exit, Goes, SlotInv, TypeOK
    <3>2. QED
      BY <2>1, <3>1
  <2>5. ASSUME NEW s \in Streams, ConsumerStep(s) PROVE worker'[t] = "exited"
    BY <2>1, <2>5 DEF ConsumerStep, Message, Cancel, Pause, Resume, Controls, Close, CancelOnDrop, Join
  <2>6. QED
    BY <2>2, <2>3, <2>4, <2>5 DEF Next
<1>2. ASSUME NEW s \in Streams, Message(s) PROVE worker'[t] = "exited"
  <2>1. worker' = worker
    BY <1>2 DEF Message
  <2>2. CASE Ended(t)
    BY <2>1, <2>2 DEF EndMeansExited
  <2>3. CASE ~Ended(t)
    <3>1. t = s /\ received' # received
      BY <1>2, <2>3 DEF Message, Ended, SlotInv, TypeOK
    <3>2. CASE chan[s] # <<>> /\ received' = [received EXCEPT ![s] = Append(@, Head(chan[s]))]
      <4>1. chan[s] \in Seq(Msg) /\ received[s] \in Seq(Terminals \cup {EndOfStream})
        BY DEF SlotInv, TypeOK, Msg
      <4>2. Head(chan[s]) \in Msg
        BY <3>2, <4>1
      <4>3. Head(chan[s]) # EndOfStream
        BY <4>2, Messages DEF Msg
      <4>4. received'[t] = Append(received[s], Head(chan[s]))
        BY <3>1, <3>2 DEF SlotInv, TypeOK
      <4>5. ~Ended(t)'
        BY <2>3, <3>1, <4>1, <4>2, <4>3, <4>4 DEF Ended, Msg
      <4>6. QED
        BY <4>5
    <3>3. CASE SenderGone(s)
      BY <2>1, <3>1, <3>3 DEF SenderGone
    <3>4. QED
      BY <1>2, <3>1, <3>2, <3>3 DEF Message
  <2>4. QED
    BY <2>2, <2>3
<1>3. received' = received \/ \E s \in Streams : Message(s)
  BY DEF vars, Next, Starting, Claim, Spawn, SpawnFails, WorkerStep, NativeCall, Settle, Send,
         SendFails, ReleaseSlot, Exit, ConsumerStep, Cancel, Pause, Resume, Controls, Close,
         CancelOnDrop, Join
<1>4. QED
  BY <1>1, <1>2, <1>3

\* A start is only refused while another inventory is being started or runs,
\* and never one whose consumer has already seen the end of its stream
\* (inventory_active.swap against the drop order of the worker's locals).
THEOREM RejectionIsJustified == Spec => RejectionJustified
<1>1. Init => EndMeansExited
  BY DEF Init, EndMeansExited, Ended
<1>2. SlotInv /\ EndMeansExited /\ [Next]_vars =>
        [\A s \in Streams : stage[s] = "none" /\ stage'[s] = "rejected" =>
           \E t \in Streams : stage[t] = "claimed" \/
             (stage[t] \in {"open", "closing", "joining"} /\ ~Ended(t))]_vars
  <2> SUFFICES ASSUME SlotInv, EndMeansExited, Next, NEW s \in Streams,
                      stage[s] = "none", stage'[s] = "rejected"
               PROVE  \E t \in Streams : stage[t] = "claimed" \/
                        (stage[t] \in {"open", "closing", "joining"} /\ ~Ended(t))
    OBVIOUS
  <2>1. Claim(s) /\ active
    <3>1. PICK r \in Streams : Starting(r) \/ WorkerStep(r) \/ ConsumerStep(r)
      BY DEF Next
    <3>2. ~WorkerStep(r)
      BY DEF WorkerStep, NativeCall, Settle, Send, SendFails, ReleaseSlot, Exit
    <3>3. ~ConsumerStep(r)
      BY DEF ConsumerStep, Message, Cancel, Pause, Resume, Controls, Close, CancelOnDrop, Join, SlotInv, TypeOK
    <3>4. Starting(r)
      BY <3>1, <3>2, <3>3
    <3>5. Claim(r) /\ r = s
      BY <3>4 DEF Starting, Claim, Spawn, SpawnFails, SlotInv, TypeOK
    <3>6. QED
      BY <3>5 DEF Claim, SlotInv, TypeOK
  <2>2. PICK t \in Streams : Holds(t)
    BY <2>1 DEF SlotInv, SlotExact
  <2>3. CASE stage[t] = "claimed"
    BY <2>3
  <2>4. CASE worker[t] \in {"boundary", "send", "ended"}
    <3>1. ~Ended(t)
      BY <2>4 DEF EndMeansExited
    <3>2. stage[t] \in {"open", "closing", "joining"}
      BY <2>4 DEF SlotInv, Owners, TypeOK
    <3>3. QED
      BY <3>1, <3>2
  <2>5. QED
    BY <2>2, <2>3, <2>4 DEF Holds
<1>3. QED
  BY <1>1, <1>2, SlotAlways, EndInductive, PTL DEF Spec, RejectionJustified

-----------------------------------------------------------------------------
(***************************************************************************)
(* The terminal event. Until the thread has left its loop, only plain      *)
(* events are on the way; from then on, as long as the receiver is open,   *)
(* the terminal is the last thing in the channel, or was received.         *)
(***************************************************************************)
Working(s) == worker[s] \in {"none", "boundary", "send"}

PlainEvents(q) == \A i \in 1 .. Len(q) : q[i] = Event

TerminalWaits(q) ==
  /\ Len(q) > 0 /\ q[Len(q)] \in Terminals
  /\ \A i \in 1 .. Len(q) - 1 : q[i] = Event

Orderly(r) == r = <<>> \/ \E t \in Terminals : r = <<t>> \/ r = <<t, EndOfStream>>

Delivery(s) ==
  /\ stage[s] \in {"closing", "joining", "gone"} <=> ~open[s]
  /\ Orderly(received[s])
  /\ Working(s) => received[s] = <<>> /\ PlainEvents(chan[s])
  /\ ~Working(s) /\ open[s] =>
       \/ received[s] = <<>> /\ TerminalWaits(chan[s])
       \/ received[s] # <<>> /\ chan[s] = <<>>

DeliveryInv == \A s \in Streams : Delivery(s)

LEMMA Appending ==
  ASSUME NEW q \in Seq(Msg), PlainEvents(q), NEW e \in Msg
  PROVE  IF e = Event THEN PlainEvents(Append(q, e)) ELSE TerminalWaits(Append(q, e))
<1>1. /\ Len(q) \in Nat /\ Len(Append(q, e)) = Len(q) + 1
      /\ Append(q, e)[Len(q) + 1] = e
      /\ \A i \in 1 .. Len(q) : Append(q, e)[i] = q[i]
  OBVIOUS
<1>2. \A i \in 1 .. Len(q) + 1 : i = Len(q) + 1 \/ i \in 1 .. Len(q)
  BY <1>1
<1>3. CASE e = Event
  BY <1>1, <1>2, <1>3 DEF PlainEvents
<1>4. CASE e # Event
  <2>1. e \in Terminals
    BY <1>4 DEF Msg
  <2>2. Len(q) + 1 > 0 /\ Len(q) + 1 - 1 = Len(q)
    BY <1>1
  <2>3. QED
    BY <1>1, <1>4, <2>1, <2>2 DEF PlainEvents, TerminalWaits
<1>5. QED
  BY <1>3, <1>4

LEMMA Removing ==
  ASSUME NEW q \in Seq(Msg), q # <<>>
  PROVE  /\ PlainEvents(q) => Head(q) = Event /\ PlainEvents(Tail(q))
         /\ TerminalWaits(q) => \/ Head(q) = Event /\ TerminalWaits(Tail(q))
                                \/ Head(q) \in Terminals /\ Tail(q) = <<>>
<1>1. /\ Len(q) \in Nat \ {0} /\ Len(Tail(q)) = Len(q) - 1 /\ Tail(q) \in Seq(Msg)
      /\ Head(q) = q[1] /\ \A i \in 1 .. Len(q) - 1 : Tail(q)[i] = q[i + 1]
  OBVIOUS
<1>2. PlainEvents(q) => Head(q) = Event /\ PlainEvents(Tail(q))
  BY <1>1 DEF PlainEvents
<1>3. ASSUME TerminalWaits(q), Len(q) = 1 PROVE Head(q) \in Terminals /\ Tail(q) = <<>>
  <2>1. Len(Tail(q)) = 0
    BY <1>1, <1>3
  <2>2. Tail(q) = <<>>
    BY <1>1, <2>1, EmptySeq
  <2>3. QED
    BY <1>1, <1>3, <2>2 DEF TerminalWaits
<1>4. ASSUME TerminalWaits(q), Len(q) # 1 PROVE Head(q) = Event /\ TerminalWaits(Tail(q))
  <2>1. Len(q) - 1 \in 1 .. Len(q) - 1 /\ Len(q) - 1 + 1 = Len(q) /\ 1 \in 1 .. Len(q) - 1
    BY <1>1, <1>4
  <2>2. Tail(q)[Len(q) - 1] = q[Len(q)]
    BY <1>1, <2>1
  <2>3. \A i \in 1 .. Len(q) - 1 - 1 : i \in 1 .. Len(q) - 1 /\ i + 1 \in 1 .. Len(q) - 1
    BY <1>1
  <2>4. QED
    BY <1>1, <1>4, <2>1, <2>2, <2>3 DEF TerminalWaits
<1>5. QED
  BY <1>2, <1>3, <1>4

LEMMA PairByAppend ==
  ASSUME NEW t \in Terminals PROVE Append(<<t>>, EndOfStream) = <<t, EndOfStream>>
<1> DEFINE S == Terminals \cup {EndOfStream}
<1>1. /\ <<t>> \in Seq(S) /\ <<t, EndOfStream>> \in Seq(S)
      /\ Len(<<t>>) = 1 /\ <<t>>[1] = t
      /\ Len(<<t, EndOfStream>>) = 2
      /\ <<t, EndOfStream>>[1] = t /\ <<t, EndOfStream>>[2] = EndOfStream
  OBVIOUS
<1>2. /\ Append(<<t>>, EndOfStream) \in Seq(S) /\ Len(Append(<<t>>, EndOfStream)) = 2
      /\ Append(<<t>>, EndOfStream)[1] = t /\ Append(<<t>>, EndOfStream)[2] = EndOfStream
  BY <1>1, AppendProperties
<1>3. \A i \in 1 .. 2 : i = 1 \/ i = 2
  OBVIOUS
<1>4. QED
  BY <1>1, <1>2, <1>3, SeqEqual

\* A step of one stream leaves the others as they are.
LEMMA OtherStreams ==
  ASSUME DeliveryInv, NEW s \in Streams, Delivery(s)',
         \A t \in Streams \ {s} :
            /\ stage'[t] = stage[t] /\ worker'[t] = worker[t] /\ open'[t] = open[t]
            /\ received'[t] = received[t] /\ chan'[t] = chan[t]
  PROVE  DeliveryInv'
<1>1. ASSUME NEW t \in Streams \ {s} PROVE Delivery(t)'
  BY DEF DeliveryInv, Delivery, Working
<1>2. QED
  BY <1>1 DEF DeliveryInv

LEMMA DeliveryInductive == SlotInv /\ DeliveryInv /\ [Next]_vars => DeliveryInv'
<1> SUFFICES ASSUME SlotInv, DeliveryInv, [Next]_vars PROVE DeliveryInv'
  OBVIOUS
<1>1. CASE UNCHANGED vars
  BY <1>1 DEF vars, DeliveryInv, Delivery, Working
<1>2. ASSUME NEW s \in Streams, Starting(s) PROVE DeliveryInv'
  <2>1. Delivery(s)'
    BY <1>2 DEF Starting, Claim, Spawn, SpawnFails, SlotInv, Owners, TypeOK, DeliveryInv, Delivery, Working
  <2>2. QED
    BY <1>2, <2>1, OtherStreams DEF Starting, Claim, Spawn, SpawnFails, SlotInv, TypeOK
<1>3. ASSUME NEW s \in Streams, WorkerStep(s) PROVE DeliveryInv'
  <2>1. UNCHANGED consumerVars /\ Delivery(s)
    BY <1>3 DEF WorkerStep, NativeCall, Settle, Send, SendFails, ReleaseSlot, Exit, DeliveryInv
  <2>2. \A t \in Streams \ {s} : worker'[t] = worker[t] /\ chan'[t] = chan[t]
    BY <1>3 DEF WorkerStep, NativeCall, Settle, Send, SendFails, ReleaseSlot, Exit, Goes, SlotInv, TypeOK
  <2>3. Delivery(s)'
    <3>1. CASE Send(s)
      <4>1. /\ chan[s] \in Seq(Msg) /\ result[s] \in Msg
            /\ chan'[s] = Append(chan[s], result[s])
            /\ worker'[s] = After(s) /\ worker[s] = "send" /\ open[s]
        BY <3>1 DEF Send, Goes, SlotInv, TypeOK, Msg
      <4>2. PlainEvents(chan[s]) /\ received[s] = <<>>
        BY <2>1, <4>1 DEF Delivery, Working
      <4>3. IF result[s] = Event THEN PlainEvents(chan'[s]) ELSE TerminalWaits(chan'[s])
        BY <4>1, <4>2, Appending
      <4>4. Working(s)' <=> result[s] = Event
        BY <4>1 DEF Working, After
      <4>5. QED
        BY <2>1, <4>2, <4>3, <4>4 DEF Delivery, Working
    <3>2. CASE SendFails(s)
      <4>1. chan'[s] = chan[s] /\ ~open[s] /\ worker[s] = "send" /\ worker'[s] \in {"send", "ended"}
        BY <3>2 DEF SendFails, Goes, SlotInv, TypeOK
      <4>2. QED
        BY <2>1, <4>1 DEF Delivery, Working
    <3>3. CASE NativeCall(s) \/ Settle(s)
      <4>1. chan'[s] = chan[s] /\ worker[s] = "boundary" /\ worker'[s] = "send"
        BY <3>3 DEF NativeCall, Settle, Goes, SlotInv, TypeOK
      <4>2. QED
        BY <2>1, <4>1 DEF Delivery, Working
    <3>4. CASE ReleaseSlot(s) \/ Exit(s)
      <4>1. chan'[s] = chan[s] /\ ~Working(s) /\ ~Working(s)'
        BY <3>4 DEF ReleaseSlot, Exit, Goes, SlotInv, TypeOK, Working
      <4>2. QED
        BY <2>1, <4>1 DEF Delivery
    <3>5. QED
      BY <1>3, <3>1, <3>2, <3>3, <3>4 DEF WorkerStep
  <2>4. QED
    BY <2>1, <2>2, <2>3, OtherStreams
<1>4. ASSUME NEW s \in Streams, ConsumerStep(s) PROVE DeliveryInv'
  <2>1. worker' = worker /\ Delivery(s)
    BY <1>4 DEF ConsumerStep, Message, Cancel, Pause, Resume, Controls, Close, CancelOnDrop, Join, DeliveryInv
  <2>2. \A t \in Streams \ {s} : /\ stage'[t] = stage[t] /\ open'[t] = open[t]
                                 /\ received'[t] = received[t] /\ chan'[t] = chan[t]
    BY <1>4 DEF ConsumerStep, Message, Cancel, Pause, Resume, Controls, Close, CancelOnDrop, Join, SlotInv, TypeOK
  <2>3. CASE Message(s)
    <3>1. open[s] /\ stage' = stage /\ open' = open
      BY <2>1, <2>3 DEF Message, Delivery
    <3>2. CASE chan[s] # <<>>
      <4>1. chan[s] \in Seq(Msg) /\ chan'[s] = Tail(chan[s])
        BY <2>3, <3>2 DEF Message, SlotInv, TypeOK, Msg
      <4>2. received'[s] = IF Head(chan[s]) = Event THEN received[s]
                           ELSE Append(received[s], Head(chan[s]))
        BY <2>3, <3>2 DEF Message, SlotInv, TypeOK
      <4>3. received[s] = <<>>
        BY <2>1, <3>1, <3>2 DEF Delivery
      <4>4. ASSUME Working(s) PROVE Delivery(s)'
        <5>1. Head(chan[s]) = Event /\ PlainEvents(chan'[s])
          BY <2>1, <3>2, <4>1, <4>4, Removing DEF Delivery
        <5>2. QED
          BY <2>1, <3>1, <4>2, <4>4, <5>1 DEF Delivery, Working
      <4>5. ASSUME ~Working(s) PROVE Delivery(s)'
        <5>1. TerminalWaits(chan[s])
          BY <2>1, <3>1, <4>3, <4>5 DEF Delivery
        <5>2. CASE Head(chan[s]) = Event /\ TerminalWaits(chan'[s])
          BY <2>1, <3>1, <4>2, <4>3, <4>5, <5>2 DEF Delivery, Working
        <5>3. CASE Head(chan[s]) \in Terminals /\ chan'[s] = <<>>
          <6>1. received'[s] = <<Head(chan[s])>>
            BY <4>2, <4>3, <5>3, Messages
          <6>2. QED
            BY <2>1, <3>1, <4>5, <5>3, <6>1 DEF Delivery, Working, Orderly
        <5>4. QED
          BY <3>2, <4>1, <5>1, <5>2, <5>3, Removing
      <4>6. Delivery(s)'
        BY <4>4, <4>5
      <4>7. QED
        BY <2>1, <2>2, <4>6, OtherStreams
    <3>3. CASE chan[s] = <<>>
      <4>1. /\ worker[s] = "exited" /\ ~Ended(s) /\ chan'[s] = <<>>
            /\ received'[s] = Append(received[s], EndOfStream)
        BY <2>3, <3>3 DEF Message, SenderGone, SlotInv, TypeOK
      <4>2. received[s] # <<>>
        BY <2>1, <3>1, <3>3, <4>1 DEF Delivery, Working, TerminalWaits
      <4>3. PICK t \in Terminals : received[s] = <<t>> \/ received[s] = <<t, EndOfStream>>
        BY <2>1, <4>2 DEF Delivery, Orderly
      <4>4. received[s] = <<t>>
        <5>1. received[s] # <<t, EndOfStream>>
          <6>1. SUFFICES ASSUME received[s] = <<t, EndOfStream>> PROVE FALSE
            OBVIOUS
          <6>2. 2 \in DOMAIN received[s] /\ received[s][2] = EndOfStream
            BY <6>1
          <6>3. QED
            BY <4>1, <6>2 DEF Ended
        <5>2. QED
          BY <4>3, <5>1
      <4>5. received'[s] = <<t, EndOfStream>>
        <5>1. Append(<<t>>, EndOfStream) = <<t, EndOfStream>>
          BY PairByAppend
        <5>2. QED
          BY <4>1, <4>4, <5>1
      <4>6. Delivery(s)'
        BY <2>1, <3>1, <4>1, <4>5 DEF Delivery, Working, Orderly
      <4>7. QED
        BY <2>1, <2>2, <4>6, OtherStreams
    <3>4. QED
      BY <3>2, <3>3
  <2>4. CASE Cancel(s) \/ Pause(s) \/ Resume(s)
    BY <2>1, <2>4 DEF Cancel, Pause, Resume, Controls, DeliveryInv, Delivery, Working
  <2>5. CASE Close(s) \/ CancelOnDrop(s)
    <3>1. received' = received /\ chan' = chan
          /\ stage'[s] \in {"closing", "joining"} /\ ~open'[s]
      BY <2>1, <2>5 DEF Close, CancelOnDrop, Delivery, SlotInv, TypeOK
    <3>2. Delivery(s)'
      BY <2>1, <3>1 DEF Delivery, Working
    <3>3. QED
      BY <2>1, <2>2, <3>2, OtherStreams
  <2>6. CASE Join(s)
    <3>1. received' = received /\ worker[s] = "exited" /\ stage'[s] = "gone" /\ ~open'[s]
      BY <2>1, <2>6 DEF Join, Delivery, SlotInv, TypeOK
    <3>2. Delivery(s)'
      BY <2>1, <3>1 DEF Delivery, Working
    <3>3. QED
      BY <2>1, <2>2, <3>2, OtherStreams
  <2>7. QED
    BY <1>4, <2>3, <2>4, <2>5, <2>6 DEF ConsumerStep
<1>5. QED
  BY <1>1, <1>2, <1>3, <1>4 DEF Next

\* Whatever the thread does, a consumer receives one terminal event, last, and
\* sees the end of its stream only after it (Completed from the traversal,
\* errors and panics from the thread around it, both through one sender).
THEOREM TerminalIsLast == Spec => []OneTerminalLast
<1>1. Init => DeliveryInv
  BY DEF Init, DeliveryInv, Delivery, Working, PlainEvents, Orderly
<1>2. DeliveryInv => OneTerminalLast
  BY DEF DeliveryInv, Delivery, Orderly, OneTerminalLast
<1>3. QED
  BY <1>1, <1>2, SlotAlways, DeliveryInductive, PTL DEF Spec

=============================================================================
