--------------------------- MODULE InventoryStream ---------------------------
(***************************************************************************)
(* The life of inventory streams on one client: start_inventory claims the *)
(* single inventory slot and spawns a worker thread; the worker sends      *)
(* events through a bounded channel, blocking while it is full, and ends   *)
(* with one terminal event; the consumer receives, pauses, resumes,        *)
(* cancels, and finally drops the stream, which closes the receiver,       *)
(* cancels and joins the thread.                                           *)
(*                                                                         *)
(* What the worker does between two events is InventoryTraversal; here it  *)
(* is a bounded number of native calls that each yield an event, fail or   *)
(* panic.                                                                  *)
(***************************************************************************)
EXTENDS Naturals, Sequences, FiniteSets

CONSTANTS
  Streams,   \* calls of start_inventory, each by its own task
  Capacity,  \* mpsc::channel(64)
  MaxCalls   \* bound: native calls of one worker

ASSUME StreamAssumption ==
  /\ IsFiniteSet(Streams) /\ Capacity \in Nat \ {0} /\ MaxCalls \in Nat

VARIABLES
  active,    \* inventory_active
  stage,     \* the consumer's side of each stream
  worker,    \* program counter of each worker thread
  calls,     \* native calls made by each worker
  result,    \* the terminal event each worker is about to send
  chan,      \* the event channel
  open,      \* its receiver is open
  control,   \* InventoryControl: [cancelled, paused]
  seen,      \* terminal_event_seen
  received   \* history: terminal events and end of stream, as received

consumerVars == <<stage, open, seen, received>>
workerVars == <<worker, calls, result>>
vars == <<active, consumerVars, workerVars, chan, control>>

Completed(flag) == [type |-> "completed", cancelled |-> flag]
Failure == [type |-> "failure", cancelled |-> FALSE]
Event == [type |-> "event", cancelled |-> FALSE]
EndOfStream == [type |-> "end", cancelled |-> FALSE]

Terminals == {Completed(FALSE), Completed(TRUE), Failure}

Init ==
  /\ active = FALSE
  /\ stage = [s \in Streams |-> "none"]
  /\ worker = [s \in Streams |-> "none"]
  /\ calls = [s \in Streams |-> 0]
  /\ result = [s \in Streams |-> Event]
  /\ chan = [s \in Streams |-> <<>>]
  /\ open = [s \in Streams |-> TRUE]
  /\ control = [s \in Streams |-> [cancelled |-> FALSE, paused |-> FALSE]]
  /\ seen = [s \in Streams |-> FALSE]
  /\ received = [s \in Streams |-> <<>>]

-----------------------------------------------------------------------------
(* start_inventory_with_root *)

\* inventory_active.swap(true): the slot is taken, or already was.
Claim(s) ==
  /\ stage[s] = "none"
  /\ stage' = [stage EXCEPT ![s] = IF active THEN "rejected" ELSE "claimed"]
  /\ active' = TRUE
  /\ UNCHANGED <<open, seen, received, workerVars, chan, control>>

\* The thread is created and the stream returned.
Spawn(s) ==
  /\ stage[s] = "claimed"
  /\ stage' = [stage EXCEPT ![s] = "open"]
  /\ worker' = [worker EXCEPT ![s] = "boundary"]
  /\ UNCHANGED <<active, open, seen, received, calls, result, chan, control>>

\* Mutation: the slot is not given back.
SpawnLeaks(s) ==
  /\ stage[s] = "claimed"
  /\ stage' = [stage EXCEPT ![s] = "rejected"]
  /\ UNCHANGED <<active, open, seen, received, workerVars, chan, control>>

\* The thread cannot be created: the slot is given back.
SpawnFails(s) ==
  /\ stage[s] = "claimed"
  /\ stage' = [stage EXCEPT ![s] = "rejected"]
  /\ active' = FALSE
  /\ UNCHANGED <<open, seen, received, workerVars, chan, control>>

-----------------------------------------------------------------------------
(* The worker thread. *)

Goes(s, pc) == worker' = [worker EXCEPT ![s] = pc]

\* Mutation: a paused worker does not look at the cancellation.
ProceedsUnpaused(s) == ~control[s].paused

\* InventoryBoundary: cancelled, or neither cancelled nor paused; a paused
\* worker polls.
Proceeds(s) == control[s].cancelled \/ ~control[s].paused

\* A native call: it yields an event to send, or the namespace is exhausted;
\* it fails, or panics under catch_unwind. A cancelled worker makes no call.
NativeCall(s) ==
  /\ worker[s] = "boundary" /\ Proceeds(s) /\ ~control[s].cancelled
  /\ calls[s] < MaxCalls
  /\ calls' = [calls EXCEPT ![s] = @ + 1]
  /\ \/ Goes(s, "send") /\ result' = [result EXCEPT ![s] = Event]
     \/ Goes(s, "send") /\ result' = [result EXCEPT ![s] = Failure]
  /\ UNCHANGED <<active, consumerVars, chan, control>>

\* Leaving the loop: the flags of InventoryCompleted are settled before the
\* event is sent, which may still wait for a slot.
Settle(s) ==
  /\ worker[s] = "boundary" /\ Proceeds(s)
  /\ result' = [result EXCEPT ![s] = Completed(control[s].cancelled)]
  /\ Goes(s, "send")
  /\ UNCHANGED <<active, consumerVars, calls, chan, control>>

\* Mutations: a failure is followed by a completion; the last slot is never
\* used.
AfterGoesOn(s) == IF result[s].type # "completed" THEN "boundary" ELSE "ended"
SpareSlot(s) == Len(chan[s]) + 1 < Capacity

After(s) == IF result[s] = Event THEN "boundary" ELSE "ended"

HasSlot(s) == Len(chan[s]) < Capacity

\* blocking_send with a slot free.
Send(s) ==
  /\ worker[s] = "send" /\ open[s] /\ HasSlot(s)
  /\ chan' = [chan EXCEPT ![s] = Append(@, result[s])]
  /\ Goes(s, After(s))
  /\ UNCHANGED <<active, consumerVars, calls, result, control>>

\* blocking_send after the receiver closed, also while it waits for a slot: an
\* undelivered event counts as a cancel, an undelivered terminal is dropped.
SendFails(s) ==
  /\ worker[s] = "send" /\ ~open[s]
  /\ IF result[s] = Event
     THEN result' = [result EXCEPT ![s] = Completed(TRUE)] /\ UNCHANGED worker
     ELSE Goes(s, "ended") /\ UNCHANGED result
  /\ UNCHANGED <<active, consumerVars, calls, chan, control>>

\* The closure returns: InventoryActiveGuard is a local and drops first, the
\* sender is captured and drops last.
ReleaseSlot(s) ==
  /\ worker[s] = "ended"
  /\ active' = FALSE
  /\ Goes(s, "released")
  /\ UNCHANGED <<consumerVars, calls, result, chan, control>>

\* Mutation: the sender goes before the guard.
SenderGoneEarly(s) == worker[s] \in {"ended", "released", "exited"}

\* The channel is closed from the sending side.
SenderGone(s) == worker[s] = "exited"

\* The thread's locals go with it.
Exit(s) ==
  /\ worker[s] = "released"
  /\ Goes(s, "exited")
  /\ calls' = [calls EXCEPT ![s] = 0]
  /\ result' = [result EXCEPT ![s] = Event]
  /\ UNCHANGED <<active, consumerVars, chan, control>>

-----------------------------------------------------------------------------
(* The consumer. *)

Ended(s) == \E i \in DOMAIN received[s] : received[s][i] = EndOfStream

\* InventoryStream::message. Only a Completed event marks the terminal as seen;
\* the end of the stream is recorded once.
Message(s) ==
  /\ stage[s] = "open"
  /\ \/ /\ chan[s] # <<>>
        /\ LET e == Head(chan[s])
           IN /\ seen' = [seen EXCEPT ![s] = @ \/ e.type = "completed"]
              /\ received' = IF e = Event THEN received
                             ELSE [received EXCEPT ![s] = Append(@, e)]
        /\ chan' = [chan EXCEPT ![s] = Tail(@)]
     \/ /\ chan[s] = <<>> /\ SenderGone(s)
        /\ ~Ended(s)
        /\ received' = [received EXCEPT ![s] = Append(@, EndOfStream)]
        /\ UNCHANGED <<seen, chan>>
  /\ UNCHANGED <<active, stage, open, workerVars, control>>

\* InventoryControl, through the stream or a clone of its control handle. Once
\* the worker has settled nobody reads the flags again.
Controls(s, to) ==
  /\ worker[s] \in {"boundary", "send"}
  /\ control' = [control EXCEPT ![s] = to]
  /\ UNCHANGED <<active, consumerVars, workerVars, chan>>

Cancel(s) == Controls(s, [control[s] EXCEPT !.cancelled = TRUE])
Pause(s) == Controls(s, [control[s] EXCEPT !.paused = TRUE])
Resume(s) == Controls(s, [control[s] EXCEPT !.paused = FALSE])

\* Drop for InventoryStream, its three steps: close the receiver, cancel unless
\* the Completed event was received, join the thread.
Close(s) ==
  /\ stage[s] = "open"
  /\ stage' = [stage EXCEPT ![s] = "closing"]
  /\ open' = [open EXCEPT ![s] = FALSE]
  /\ UNCHANGED <<active, seen, received, workerVars, chan, control>>

CancelOnDrop(s) ==
  /\ stage[s] = "closing"
  /\ stage' = [stage EXCEPT ![s] = "joining"]
  /\ control' = [control EXCEPT ![s].cancelled = @ \/ ~seen[s]]
  /\ UNCHANGED <<active, open, seen, received, workerVars, chan>>

Join(s) ==
  /\ stage[s] = "joining" /\ worker[s] = "exited"
  /\ stage' = [stage EXCEPT ![s] = "gone"]
  /\ chan' = [chan EXCEPT ![s] = <<>>]
  /\ UNCHANGED <<active, open, seen, received, workerVars, control>>

-----------------------------------------------------------------------------

Starting(s) == Claim(s) \/ Spawn(s) \/ SpawnFails(s)

WorkerStep(s) == NativeCall(s) \/ Settle(s) \/ Send(s) \/ SendFails(s) \/ ReleaseSlot(s) \/ Exit(s)

ConsumerStep(s) == \/ Message(s) \/ Cancel(s) \/ Pause(s) \/ Resume(s)
                   \/ Close(s) \/ CancelOnDrop(s) \/ Join(s)

Next == \E s \in Streams : Starting(s) \/ WorkerStep(s) \/ ConsumerStep(s)

\* Threads are scheduled and native calls return; a drop, once begun, goes on;
\* a consumer that keeps its stream keeps receiving from it.
Spec ==
  /\ Init /\ [][Next]_vars
  /\ \A s \in Streams : /\ WF_vars(WorkerStep(s))
                        /\ WF_vars(CancelOnDrop(s)) /\ WF_vars(Join(s))
                        /\ WF_vars(Message(s))

-----------------------------------------------------------------------------
(* Properties. *)

\* Every variable keeps its type, and the channel its bound.
TypeOK ==
  /\ active \in BOOLEAN
  /\ stage \in [Streams -> {"none", "rejected", "claimed", "open", "closing", "joining", "gone"}]
  /\ worker \in [Streams -> {"none", "boundary", "send", "ended", "released", "exited"}]
  /\ calls \in [Streams -> 0 .. MaxCalls]
  /\ result \in [Streams -> Terminals \cup {Event}]
  /\ chan \in [Streams -> Seq(Terminals \cup {Event})]
  /\ \A s \in Streams : Len(chan[s]) <= Capacity
  /\ received \in [Streams -> Seq(Terminals \cup {EndOfStream})]
  /\ open \in [Streams -> BOOLEAN] /\ seen \in [Streams -> BOOLEAN]
  /\ control \in [Streams -> [cancelled : BOOLEAN, paused : BOOLEAN]]

Holds(s) == stage[s] = "claimed" \/ worker[s] \in {"boundary", "send", "ended"}

\* The atomic slot is exact at every interleaving of starts, failed spawns,
\* ends and drops: two inventories never run at once on one client, and the
\* slot is never left taken with nobody to give it back.
SlotExact ==
  /\ \A s, t \in Streams : Holds(s) /\ Holds(t) => s = t
  /\ active <=> \E s \in Streams : Holds(s)

\* "already running" is only said while another inventory is: one whose
\* consumer has neither seen the end of its stream nor finished dropping it.
RejectionJustified ==
  [][\A s \in Streams : stage[s] = "none" /\ stage'[s] = "rejected" =>
       \E t \in Streams : stage[t] = "claimed" \/
         (stage[t] \in {"open", "closing", "joining"} /\ ~Ended(t))]_vars

\* A consumer that keeps receiving sees exactly one terminal event, as the last
\* one, and then the end of the stream; never an end without a terminal.
OneTerminalLast ==
  \A s \in Streams :
    \/ received[s] = <<>>
    \/ \E t \in Terminals : received[s] = <<t>> \/ received[s] = <<t, EndOfStream>>

\* Dropping a stream ends, wherever the worker is: paused, waiting for a slot
\* of the full channel, or already past its terminal event.
DropTerminates == \A s \in Streams : stage[s] = "closing" ~> stage[s] = "gone"

\* An inventory that is not left paused delivers its terminal event to a
\* consumer that keeps receiving.
TerminalArrives ==
  \A s \in Streams :
    [](stage[s] = "open" /\ <>[](~control[s].paused)
         => <>(received[s] # <<>> \/ stage[s] # "open"))

=============================================================================
