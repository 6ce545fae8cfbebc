--------------------------- MODULE ComWorkerProofs ---------------------------
(***************************************************************************)
(* Theorems about ComWorker, for every set of callers and servers and all  *)
(* values of the bounds.                                                   *)
(***************************************************************************)
EXTENDS ComWorker, FiniteSetTheorems, TLAPS

USE DEF callerVars, workerVars, sessionVars, serverVars

-----------------------------------------------------------------------------
\* The frame of a call is well typed after each kind of update.
LEMMA FrameUpdate ==
  ASSUME call \in [Callers -> CallFrame], NEW c \in Callers,
         NEW w \in {"idle", "sending", "awaiting"}
  PROVE  [call EXCEPT ![c].pc = w] \in [Callers -> CallFrame]
  BY DEF CallFrame

LEMMA TokenType ==
  ASSUME call \in [Callers -> CallFrame], NEW c \in Callers
  PROVE  TokenOf(RequestOf(c)) \in Token
  BY DEF CallFrame, RequestOf, TokenOf, Token

LEMMA NewJobType ==
  ASSUME NEW r \in Request \cup {Nil}, NEW f \in BOOLEAN
  PROVE  NewJob(r, f) \in Job
<1>1. 0 \in 0..2
  OBVIOUS
<1>2. QED
  BY <1>1 DEF NewJob, Job

LEMMA NoJobType == NoJob \in Job
  BY NewJobType DEF NoJob

\* What Operate and Retry do to the job record.
LEMMA JobUpdate ==
  ASSUME job \in Job, NEW a \in 0..2, NEW e \in 0..2, NEW f \in BOOLEAN,
         NEW x \in Outcome \cup {Nil},
         job' = [job EXCEPT !.attempts = a, !.effects = e, !.faulted = f, !.result = x]
  PROVE  /\ job' \in Job
         /\ job'.req = job.req /\ job'.conn = job.conn
         /\ job'.effects = e /\ job'.faulted = f /\ job'.result = x
  BY DEF Job

LEMMA ServersUpdate ==
  ASSUME up \in [Servers -> BOOLEAN], gen \in [Servers -> Nat],
         NEW s \in Servers, NEW conn, NEW result, NEW e,
         RunOperation(s, conn, result, e)
  PROVE  up' \in [Servers -> BOOLEAN] /\ gen' \in [Servers -> Nat]
<1>1. CASE UNCHANGED serverVars
  BY <1>1
<1>2. CASE up' = [up EXCEPT ![s] = FALSE] /\ gen' = [gen EXCEPT ![s] = @ + 1]
  BY <1>2
<1>3. QED
  BY <1>1, <1>2 DEF RunOperation

\* RequestOf builds a request from a frame whose call has been made.
LEMMA RequestType ==
  ASSUME call \in [Callers -> CallFrame], NEW c \in Callers, call[c].kind \in AllKinds
  PROVE  RequestOf(c) \in Request
  BY DEF CallFrame, RequestOf, Request

LEMMA DoneType ==
  ASSUME job \in Job, NEW result \in Outcome, Done(result)
  PROVE  job' \in Job /\ phase' \in Phase
  BY DEF Job, Done, Phase, Serving

\* Requests name the caller and the server they are for.
Formed(r) ==
  /\ r \in Request
  /\ r.kind \in CachedKinds \cup {"open"} => r.srv \in Servers

\* TypeOK and the shape of the requests on their way: an inductive invariant.
TInv ==
  /\ TypeOK
  /\ \A c \in Callers : call[c].pc # "idle" => Formed(RequestOf(c))
  /\ \A i \in 1..Len(chan) : Formed(chan[i])
  /\ phase \in Serving => Formed(job.req)
  /\ phase \in {"operate", "reconnect", "retry"} => job.req.kind \in CachedKinds
  /\ phase \in {"reconnect", "retry"} => job.effects \in {0, 1}

LEMMA TInvInit == Init => TInv
  BY NoJobType, ConstantsAssumption
  DEF Init, TInv, TypeOK, CallFrame, Phase, Serving

LEMMA TInvStart ==
  ASSUME TInv, Start
  PROVE  TInv'
  BY DEF Start, TInv, TypeOK, Phase, Serving, RequestOf

LEMMA TInvClosed ==
  ASSUME TInv, Closed
  PROVE  TInv'
  BY DEF Closed, TInv, TypeOK, Phase, Serving, RequestOf

LEMMA TInvDropClient ==
  ASSUME TInv, DropClient
  PROVE  TInv'
  BY DEF DropClient, TInv, TypeOK, Phase, Serving, RequestOf

LEMMA TInvCall ==
  ASSUME TInv, NEW c \in Callers, NEW kind \in Kinds,
         NEW p \in Params(c, kind), Call(c, kind, p[1], p[2])
  PROVE  TInv'
<1> DEFINE frame == call'[c]
<1>1. /\ p[1] \in Servers \cup {Nil}
      /\ p[2] \in Token \cup {Nil}
      /\ kind \in CachedKinds \cup {"open"} => p[1] \in Servers
  BY DEF Params, TInv, TypeOK, CachedKinds
<1>2. kind \in AllKinds
  BY ConstantsAssumption
<1>3. /\ frame = [pc |-> frame.pc, n |-> call[c].n + 1, kind |-> kind,
                  srv |-> p[1], tok |-> p[2]]
      /\ frame.pc \in {"idle", "sending"}
      /\ \A d \in Callers \ {c} : call'[d] = call[d]
      /\ DOMAIN call' = Callers
      /\ call' = [d \in Callers |-> call'[d]]
  BY DEF Call, TInv, TypeOK
<1>4. call[c].n \in Nat
  BY DEF TInv, TypeOK, CallFrame
<1>5. frame \in CallFrame
  BY <1>1, <1>2, <1>3, <1>4 DEF CallFrame
<1>6. call' \in [Callers -> CallFrame]
  BY <1>3, <1>5 DEF TInv, TypeOK
<1>7. Formed(RequestOf(c))'
  BY <1>1, <1>2, <1>3, <1>4 DEF Formed, RequestOf, Request
<1>8. TypeOK'
  BY <1>6 DEF Call, TInv, TypeOK
<1>9. QED
  BY <1>3, <1>7, <1>8 DEF Call, TInv, RequestOf

LEMMA TInvEnqueue ==
  ASSUME TInv, NEW c \in Callers, Enqueue(c)
  PROVE  TInv'
<1>1. Formed(RequestOf(c))
  BY DEF Enqueue, TInv
<1>2. call' \in [Callers -> CallFrame]
  BY FrameUpdate DEF Enqueue, TInv, TypeOK
<1>3. /\ chan' \in Seq(Request)
      /\ Len(chan') <= Capacity
      /\ \A i \in 1..Len(chan') : Formed(chan'[i])
  BY <1>1, ConstantsAssumption DEF Enqueue, TInv, TypeOK, Formed
<1>4. \A d \in Callers : RequestOf(d)' = RequestOf(d) /\ (d # c => call'[d].pc = call[d].pc)
  BY DEF Enqueue, TInv, TypeOK, CallFrame, RequestOf
<1>5. QED
  BY <1>1, <1>2, <1>3, <1>4 DEF Enqueue, TInv, TypeOK, Formed

LEMMA TInvSendFails ==
  ASSUME TInv, NEW c \in Callers, SendFails(c)
  PROVE  TInv'
<1>1. call' \in [Callers -> CallFrame]
  BY FrameUpdate DEF SendFails, TInv, TypeOK
<1>2. TokenOf(RequestOf(c)) \in Token
  BY TokenType DEF TInv, TypeOK
<1>3. \A d \in Callers : RequestOf(d)' = RequestOf(d) /\ (call'[d].pc # "idle" => call[d].pc # "idle")
  BY DEF SendFails, TInv, TypeOK, CallFrame, RequestOf
<1>4. QED
  BY <1>1, <1>2, <1>3 DEF SendFails, TInv, TypeOK, Formed

LEMMA TInvReceive ==
  ASSUME TInv, NEW c \in Callers, Receive(c)
  PROVE  TInv'
<1>1. call' \in [Callers -> CallFrame]
  BY FrameUpdate DEF Receive, TInv, TypeOK
<1>2. TokenOf(RequestOf(c)) \in Token
  BY TokenType DEF TInv, TypeOK
<1>3. \A d \in Callers : RequestOf(d)' = RequestOf(d) /\ (call'[d].pc # "idle" => call[d].pc # "idle")
  BY DEF Receive, TInv, TypeOK, CallFrame, RequestOf
<1>4. QED
  BY <1>1, <1>2, <1>3 DEF Receive, TInv, TypeOK, Formed

LEMMA TInvCancel ==
  ASSUME TInv, NEW c \in Callers, Cancel(c)
  PROVE  TInv'
<1>1. call' \in [Callers -> CallFrame]
  BY FrameUpdate DEF Cancel, TInv, TypeOK
<1>2. TokenOf(RequestOf(c)) \in Token
  BY TokenType DEF TInv, TypeOK
<1>3. \A d \in Callers : RequestOf(d)' = RequestOf(d) /\ (call'[d].pc # "idle" => call[d].pc # "idle")
  BY DEF Cancel, TInv, TypeOK, CallFrame, RequestOf
<1>4. QED
  BY <1>1, <1>2, <1>3 DEF Cancel, TInv, TypeOK, Formed

LEMMA TInvRecv ==
  ASSUME TInv, Recv
  PROVE  TInv'
<1>1. Head(chan) \in Request /\ Formed(Head(chan))
  BY DEF Recv, TInv, TypeOK
<1>2. job' \in Job /\ job'.req = Head(chan)
  <2> DEFINE f == Head(chan).srv # Nil /\ ~up[Head(chan).srv]
  <2>1. f \in BOOLEAN
    OBVIOUS
  <2>2. job' = NewJob(Head(chan), f)
    BY DEF Recv
  <2>3. NewJob(Head(chan), f).req = Head(chan)
    BY DEF NewJob
  <2> HIDE DEF f
  <2>4. QED
    BY <1>1, <2>1, <2>2, <2>3, NewJobType
<1>3. /\ chan' \in Seq(Request) /\ Len(chan') <= Capacity
      /\ \A i \in 1..Len(chan') : Formed(chan'[i])
  BY ConstantsAssumption DEF Recv, TInv, TypeOK
<1>4. QED
  BY <1>1, <1>2, <1>3 DEF Recv, TInv, TypeOK, Phase, Serving, RequestOf, Formed

LEMMA TInvExit ==
  ASSUME TInv, Exit
  PROVE  TInv'
  BY DEF Exit, TInv, TypeOK, Phase, Serving, RequestOf, Formed

LEMMA TInvListServers ==
  ASSUME TInv, ListServers
  PROVE  TInv'
<1>1. PICK result \in {"ok", "err"} : Done(result)
  BY DEF ListServers
<1>2. job' \in Job /\ phase' \in Phase
  BY <1>1, DoneType DEF TInv, TypeOK, Outcome
<1>3. job'.req = job.req /\ phase' = "reply"
  BY <1>1 DEF Done, TInv, TypeOK, Job
<1>4. QED
  BY <1>2, <1>3 DEF ListServers, TInv, TypeOK, Serving, RequestOf, Formed

LEMMA TInvSkipAbandoned ==
  ASSUME TInv, SkipAbandoned
  PROVE  TInv'
  BY NoJobType DEF SkipAbandoned, TInv, TypeOK, Phase, Serving, RequestOf, Formed

LEMMA TInvLookup ==
  ASSUME TInv, Lookup
  PROVE  TInv'
<1> DEFINE s == job.req.srv
<1>1. s \in Servers
  BY DEF Lookup, TInv, Serving, Formed
<1>2. job' \in Job /\ job'.req = job.req
  BY DEF Lookup, Done, TInv, TypeOK, Job, Outcome
<1>3. cache' \in [Servers -> Nat \cup {Nil}]
  BY <1>1 DEF Lookup, TInv, TypeOK
<1>4. phase' \in {"operate", "reply"}
  BY DEF Lookup, Done
<1>5. QED
  BY <1>2, <1>3, <1>4 DEF Lookup, TInv, TypeOK, Phase, Serving, RequestOf, Formed

LEMMA TInvOperate ==
  ASSUME TInv, Operate
  PROVE  TInv'
<1> DEFINE s == job.req.srv
<1>1. s \in Servers
  BY DEF Operate, TInv, Serving, Formed
<1>2. PICK result \in Outcome, e \in {0, 1} :
         /\ RunOperation(s, cache[s], result, e)
         /\ job' = [job EXCEPT
              !.attempts = 1,
              !.effects = e,
              !.faulted = @ \/ up'[s] # up[s],
              !.result = IF IsConnectionError(result) THEN Nil ELSE result]
  BY ZenonT(60) DEF Operate
<1>3. up' \in [Servers -> BOOLEAN] /\ gen' \in [Servers -> Nat]
  BY <1>1, <1>2, ServersUpdate DEF TInv, TypeOK
<1> DEFINE f == job.faulted \/ up'[s] # up[s]
           x == IF IsConnectionError(result) THEN Nil ELSE result
<1>4a. f \in BOOLEAN /\ x \in Outcome \cup {Nil}
  OBVIOUS
<1>4b. 1 \in 0..2 /\ e \in 0..2
  OBVIOUS
<1>4c. job' = [job EXCEPT !.attempts = 1, !.effects = e, !.faulted = f, !.result = x]
  BY <1>2
<1>. HIDE DEF f, x
<1>4. job' \in Job /\ job'.req = job.req /\ job'.effects \in {0, 1}
  BY <1>4a, <1>4b, <1>4c, JobUpdate, Zenon DEF TInv, TypeOK
<1>5. cache' \in [Servers -> Nat \cup {Nil}]
  <2>1. cache' = cache \/ cache' = [cache EXCEPT ![s] = Nil]
    BY DEF Operate
  <2>2. cache \in [Servers -> Nat \cup {Nil}]
    BY DEF TInv, TypeOK
  <2>3. QED
    BY <1>1, <2>1, <2>2
<1>6. phase' \in {"reconnect", "reply"}
  BY DEF Operate
<1>7. QED
  BY <1>3, <1>4, <1>5, <1>6 DEF Operate, TInv, TypeOK, Phase, Serving, RequestOf, Formed

LEMMA TInvRetry ==
  ASSUME TInv, Retry
  PROVE  TInv'
<1> DEFINE s == job.req.srv
<1>1. s \in Servers
  BY DEF Retry, TInv, Serving, Formed
<1>2. PICK result \in Outcome, e \in {0, 1} :
         /\ RunOperation(s, job.conn, result, e)
         /\ job' = [job EXCEPT
              !.attempts = 2,
              !.effects = @ + e,
              !.faulted = @ \/ up'[s] # up[s],
              !.result = result]
  BY DEF Retry
<1>3. up' \in [Servers -> BOOLEAN] /\ gen' \in [Servers -> Nat]
  BY <1>1, <1>2, ServersUpdate DEF TInv, TypeOK
<1> DEFINE f == job.faulted \/ up'[s] # up[s]
<1>4a. f \in BOOLEAN /\ job.effects + e \in 0..2
  BY DEF Retry, TInv
<1> DEFINE k == job.effects + e
<1>4b. 2 \in 0..2 /\ k \in 0..2
  BY <1>4a
<1>4c. job' = [job EXCEPT !.attempts = 2, !.effects = k, !.faulted = f, !.result = result]
  BY <1>2
<1>. HIDE DEF f, k
<1>4. job' \in Job /\ job'.req = job.req
  BY <1>4a, <1>4b, <1>4c, JobUpdate, Zenon DEF TInv, TypeOK
<1>5. cache' \in [Servers -> Nat \cup {Nil}]
  <2>1. cache' = [cache EXCEPT ![s] = job.conn]
    BY DEF Retry
  <2>2. cache \in [Servers -> Nat \cup {Nil}] /\ job.conn \in Nat \cup {Nil}
    BY DEF TInv, TypeOK, Job
  <2>3. QED
    BY <1>1, <2>1, <2>2
<1>6. phase' \in {"reply"}
  BY DEF Retry
<1>7. QED
  BY <1>3, <1>4, <1>5, <1>6 DEF Retry, TInv, TypeOK, Phase, Serving, RequestOf, Formed

LEMMA TInvReconnect ==
  ASSUME TInv, Reconnect
  PROVE  TInv'
<1>1. job.req.srv \in Servers
  BY DEF Reconnect, TInv, Serving, Formed
<1>2. job' \in Job /\ job'.req = job.req /\ job'.effects = job.effects
  <2>1. job \in Job /\ gen[job.req.srv] \in Nat
    BY <1>1 DEF TInv, TypeOK
  <2>2. CASE job' = [job EXCEPT !.conn = gen[job.req.srv]]
    BY <2>1, <2>2 DEF Job
  <2>3. ASSUME NEW result \in Outcome, job' = [job EXCEPT !.result = result]
        PROVE  job' \in Job /\ job'.req = job.req /\ job'.effects = job.effects
    BY <2>1, <2>3 DEF Job
  <2>4. "err" \in Outcome /\ "connErr" \in Outcome
    BY DEF Outcome
  <2>5. QED
    BY <2>2, <2>3, <2>4 DEF Reconnect, Done
<1>3. phase' \in {"retry", "reply"}
  BY DEF Reconnect, Done
<1>4. QED
  BY <1>2, <1>3 DEF Reconnect, TInv, TypeOK, Phase, Serving, RequestOf, Formed

LEMMA TInvOpen ==
  ASSUME TInv, Open
  PROVE  TInv'
<1>1. TokenOf(job.req) \in Token
  BY DEF Open, TInv, Serving, Formed, Request, TokenOf, Token
<1>2. job' \in Job /\ job'.req = job.req
  BY DEF Open, Done, TInv, TypeOK, Job, Outcome
<1>3. phase' = "reply"
  BY DEF Open, Done
<1>4. QED
  BY <1>1, <1>2, <1>3 DEF Open, TInv, TypeOK, Phase, Serving, RequestOf, Formed

LEMMA TInvPage ==
  ASSUME TInv, Page
  PROVE  TInv'
<1>1. job' \in Job /\ phase' \in {"recv", "reply"}
  BY NoJobType DEF Page, Done, TInv, TypeOK, Job, Outcome
<1>2. phase' = "reply" => job'.req = job.req
  BY DEF Page, Done, TInv, TypeOK, Job
<1>3. sessions' \in SUBSET Token /\ lapsed' = {}
  BY DEF Page, CloseSession, TInv, TypeOK
<1>4. QED
  BY <1>1, <1>2, <1>3 DEF Page, TInv, TypeOK, Phase, Serving, RequestOf, Formed

LEMMA TInvClose ==
  ASSUME TInv, Close
  PROVE  TInv'
<1>1. job' \in Job /\ job'.req = job.req /\ phase' = "reply"
  BY DEF Close, Done, TInv, TypeOK, Job, Outcome
<1>2. QED
  BY <1>1 DEF Close, CloseSession, TInv, TypeOK, Phase, Serving, RequestOf, Formed

LEMMA TInvReply ==
  ASSUME TInv, Reply
  PROVE  TInv'
<1>1. sessions' \in SUBSET Token /\ lapsed' \in SUBSET Token
  BY DEF Reply, CloseSession, TInv, TypeOK
<1>2. reply' \in [Callers -> Outcome \cup {Nil, "dropped"}]
  BY DEF Reply, TInv, TypeOK, Job
<1>3. QED
  BY <1>1, <1>2, NoJobType DEF Reply, TInv, TypeOK, Phase, Serving, RequestOf, Formed

LEMMA TInvPanic ==
  ASSUME TInv, Panic
  PROVE  TInv'
  BY NoJobType DEF Panic, TInv, TypeOK, Phase, Serving, RequestOf, Formed

LEMMA TInvUnwind ==
  ASSUME TInv, Unwind
  PROVE  TInv'
<1>1. /\ chan' = <<>>
      /\ reply' \in [Callers -> Outcome \cup {Nil, "dropped"}]
  BY DEF Unwind, TInv, TypeOK
<1>2. Len(chan') <= Capacity /\ chan' \in Seq(Request)
  BY <1>1, ConstantsAssumption
<1>3. QED
  BY <1>1, <1>2 DEF Unwind, TInv, TypeOK, Phase, Serving, RequestOf, Formed

LEMMA TInvEnvironment ==
  ASSUME TInv, Environment
  PROVE  TInv'
<1>1. CASE \E t \in sessions : Lapse(t)
  BY <1>1 DEF Lapse, TInv, TypeOK, RequestOf, Formed
<1>2. ASSUME NEW s \in Servers, Crash(s)
      PROVE  TInv'
  <2>1. job' \in Job /\ job'.req = job.req /\ job'.effects = job.effects
    BY <1>2 DEF Crash, TInv, TypeOK, Job
  <2>2. up' \in [Servers -> BOOLEAN] /\ gen' \in [Servers -> Nat]
    BY <1>2 DEF Crash, TInv, TypeOK
  <2>3. QED
    BY <1>2, <2>1, <2>2 DEF Crash, TInv, TypeOK, RequestOf, Formed
<1>3. ASSUME NEW s \in Servers, Restore(s)
      PROVE  TInv'
  BY <1>3 DEF Restore, TInv, TypeOK, RequestOf, Formed
<1>4. QED
  BY <1>1, <1>2, <1>3 DEF Environment

LEMMA TInvNext == TInv /\ [Next]_vars => TInv'
<1> SUFFICES ASSUME TInv, [Next]_vars
             PROVE  TInv'
  OBVIOUS
<1>1. CASE UNCHANGED vars
  BY <1>1 DEF vars, TInv, TypeOK, RequestOf, Formed
<1>2. CASE Next
  BY <1>2, TInvStart, TInvClosed, TInvCall, TInvEnqueue,
     TInvSendFails, TInvReceive, TInvCancel, TInvDropClient,
     TInvRecv, TInvExit, TInvListServers, TInvSkipAbandoned,
     TInvLookup, TInvOperate, TInvReconnect, TInvRetry,
     TInvOpen, TInvPage, TInvClose, TInvReply,
     TInvPanic, TInvUnwind, TInvEnvironment
  DEF Next, CallerStep, WorkerStep
<1>3. QED
  BY <1>1, <1>2

\* Every variable keeps its type, and the channel never holds more requests
\* than its capacity (com_worker.rs: the mpsc channel, the caches and tables
\* of the worker loop).
THEOREM TypeCorrect == Spec => []TypeOK
<1>1. TInv => TypeOK
  BY DEF TInv
<1>2. QED
  BY <1>1, TInvInit, TInvNext, PTL DEF Spec

-----------------------------------------------------------------------------
(***************************************************************************)
(* Faults. A request that is not marked faulted has had its server up since*)
(* the worker took it, so a fresh handle works and only a stale one can    *)
(* fail; an operation that failed after its effect marks the request.      *)
(***************************************************************************)
FaultInv ==
  /\ phase \in Serving /\ job.req.srv \in Servers /\ ~job.faulted => up[job.req.srv]
  /\ phase \in {"dispatch", "operate"} => job.effects = 0
  /\ phase \in {"reconnect", "retry"} /\ job.effects = 1 => job.faulted
  /\ phase = "retry" /\ ~job.faulted => job.conn = gen[job.req.srv]
  /\ StaleHandleTransparent
  /\ EffectsExplained

\* What a run of an operation says about its result, its effects and its
\* server.
LEMMA OperationResult ==
  ASSUME TInv, NEW s \in Servers, NEW conn, NEW result \in Outcome, NEW e \in {0, 1},
         RunOperation(s, conn, result, e), job.req.kind \in AllKinds
  PROVE  /\ result = "connErr" => up'[s] # up[s] \/ ~Works(s, conn)
         /\ result = "connErr" /\ e = 1 => up'[s] # up[s]
         /\ result = "rejected" => e = 0
         /\ up'[s] # up[s] \/ UNCHANGED <<up, gen>>
<1>1. up \in [Servers -> BOOLEAN]
  BY DEF TInv, TypeOK
<1>2. CASE /\ Works(s, conn)
           /\ \/ result = "ok"
              \/ result = "rejected" /\ e = 0
              \/ result = "err"
           /\ UNCHANGED serverVars
  BY <1>2
<1>3. CASE /\ Works(s, conn)
           /\ result \in {"connErr", "ok"}
           /\ up' = [up EXCEPT ![s] = FALSE]
  <2>1. up'[s] # up[s]
    BY <1>1, <1>3 DEF Works
  <2>2. QED
    BY <1>3, <2>1
<1>4. CASE ~Works(s, conn) /\ result = "connErr" /\ e = 0 /\ UNCHANGED serverVars
  BY <1>4
<1>5. CASE result \in {"ok", "err"} /\ UNCHANGED serverVars
  BY <1>5
<1>6. QED
  BY <1>2, <1>3, <1>4, <1>5 DEF RunOperation

LEMMA FaultOperate ==
  ASSUME TInv, FaultInv, Operate
  PROVE  FaultInv'
<1> DEFINE s == job.req.srv
<1>1. s \in Servers /\ job.req.kind \in AllKinds /\ job.effects = 0
  BY DEF Operate, TInv, FaultInv, Serving, Formed, CachedKinds, AllKinds
<1>2. PICK result \in Outcome, e \in {0, 1} :
         /\ RunOperation(s, cache[s], result, e)
         /\ job' = [job EXCEPT
              !.attempts = 1,
              !.effects = e,
              !.faulted = @ \/ up'[s] # up[s],
              !.result = IF IsConnectionError(result) THEN Nil ELSE result]
         /\ IF IsConnectionError(result)
            THEN /\ cache' = [cache EXCEPT ![s] = Nil]
                 /\ phase' = "reconnect"
            ELSE /\ phase' = "reply"
                 /\ UNCHANGED cache
  BY DEF Operate
<1>3. /\ job'.req = job.req /\ job'.effects = e
      /\ up'[s] # up[s] => job'.faulted
      /\ ~job'.faulted => ~job.faulted
      /\ ~IsConnectionError(result) => job'.result = result
  BY <1>2 DEF TInv, TypeOK, Job
<1>4. /\ result = "connErr" /\ e = 1 => up'[s] # up[s]
      /\ result = "rejected" => e = 0
      /\ up'[s] # up[s] \/ UNCHANGED <<up, gen>>
  BY <1>1, <1>2, OperationResult
<1>5. ~job'.faulted => up'[s]
  BY <1>1, <1>3, <1>4 DEF Operate, FaultInv, Serving
<1>6. CASE IsConnectionError(result)
  <2>1. phase' = "reconnect" /\ (job'.effects = 1 => job'.faulted)
    BY <1>2, <1>3, <1>4, <1>6 DEF IsConnectionError
  <2>2. QED
    BY <1>3, <1>5, <2>1 DEF FaultInv, StaleHandleTransparent, EffectsExplained
<1>7. CASE ~IsConnectionError(result)
  <2>1. phase' = "reply" /\ job'.result = result /\ result # "connErr"
    BY <1>2, <1>3, <1>7 DEF IsConnectionError
  <2>2. QED
    BY <1>3, <1>4, <1>5, <2>1 DEF FaultInv, StaleHandleTransparent, EffectsExplained
<1>8. QED
  BY <1>6, <1>7

LEMMA FaultRetry ==
  ASSUME TInv, FaultInv, Retry
  PROVE  FaultInv'
<1> DEFINE s == job.req.srv
<1>1. s \in Servers /\ job.req.kind \in AllKinds /\ job.effects \in {0, 1}
  BY DEF Retry, TInv, Serving, Formed, CachedKinds, AllKinds
<1>2. PICK result \in Outcome, e \in {0, 1} :
         /\ RunOperation(s, job.conn, result, e)
         /\ job' = [job EXCEPT
              !.attempts = 2,
              !.effects = @ + e,
              !.faulted = @ \/ up'[s] # up[s],
              !.result = result]
  BY DEF Retry
<1>3. /\ job'.req = job.req /\ job'.effects = job.effects + e
      /\ up'[s] # up[s] => job'.faulted
      /\ ~job'.faulted => ~job.faulted
      /\ job'.result = result
  BY <1>2 DEF TInv, TypeOK, Job
<1>4. /\ result = "connErr" => up'[s] # up[s] \/ ~Works(s, job.conn)
      /\ result = "rejected" => e = 0
      /\ up'[s] # up[s] \/ UNCHANGED <<up, gen>>
  BY <1>1, <1>2, OperationResult
<1>5. ~job.faulted => Works(s, job.conn) /\ job.effects = 0
  BY <1>1 DEF Retry, FaultInv, Works, Serving
<1>6. /\ phase' = "reply" /\ phase = "retry"
      /\ ~job'.faulted => up'[s]
  BY <1>1, <1>3, <1>4 DEF Retry, FaultInv, Serving
<1>7. StaleHandleTransparent'
  BY <1>3, <1>4, <1>5 DEF StaleHandleTransparent
<1>8. EffectsExplained'
  BY <1>1, <1>3, <1>4, <1>5 DEF EffectsExplained
<1>9. QED
  BY <1>1, <1>3, <1>4, <1>6, <1>7, <1>8 DEF FaultInv, Serving

LEMMA FaultReconnect ==
  ASSUME TInv, FaultInv, Reconnect
  PROVE  FaultInv'
<1>1. job.req.srv \in Servers
  BY DEF Reconnect, TInv, Serving, Formed
<1>2. /\ job'.req = job.req /\ job'.effects = job.effects /\ job'.faulted = job.faulted
      /\ \/ phase' = "retry" /\ job'.conn = gen[job.req.srv]
         \/ phase' = "reply" /\ job'.result = "err"
         \/ phase' = "reply" /\ job'.result = "connErr" /\ ~up[job.req.srv]
  BY DEF Reconnect, Done, TInv, TypeOK, Job
<1>3. job.effects \in {0, 1}
  BY DEF Reconnect, TInv
<1>4. QED
  BY <1>1, <1>2, <1>3
  DEF Reconnect, FaultInv, Serving, StaleHandleTransparent, EffectsExplained

LEMMA FaultLookup ==
  ASSUME TInv, FaultInv, Lookup
  PROVE  FaultInv'
<1>1. job.req.srv \in Servers
  BY DEF Lookup, TInv, Serving, Formed
<1>2. /\ job'.req = job.req /\ job'.effects = job.effects /\ job'.faulted = job.faulted
      /\ \/ phase' = "operate"
         \/ phase' = "reply" /\ job'.result = "err"
         \/ phase' = "reply" /\ job'.result = "connErr" /\ ~up[job.req.srv]
  BY DEF Lookup, Done, TInv, TypeOK, Job
<1>3. QED
  BY <1>1, <1>2
  DEF Lookup, FaultInv, Serving, StaleHandleTransparent, EffectsExplained

\* The arms that do not go through dispatch_with_retry.
LEMMA FaultDirect ==
  ASSUME TInv, FaultInv, ListServers \/ Open \/ Page \/ Close
  PROVE  FaultInv'
<1>1. /\ phase = "dispatch"
      /\ job.req.kind \notin EffectKinds
      /\ up' = up /\ gen' = gen
  BY DEF ListServers, Open, Page, Close, EffectKinds
<1>2. \/ phase' = "recv"
      \/ /\ phase' = "reply" /\ job'.req = job.req /\ job'.faulted = job.faulted
         /\ job'.result \in {"ok", "err"}
  BY DEF ListServers, Open, Page, Close, Done, TInv, TypeOK, Job
<1>3. QED
  BY <1>1, <1>2 DEF FaultInv, Serving, StaleHandleTransparent, EffectsExplained

LEMMA FaultRecv ==
  ASSUME TInv, FaultInv, Recv
  PROVE  FaultInv'
<1> DEFINE r == Head(chan)
<1>1. /\ phase' = "dispatch" /\ up' = up
      /\ job'.req = r /\ job'.effects = 0
      /\ job'.faulted = (r.srv # Nil /\ ~up[r.srv])
  BY DEF Recv, NewJob
<1>2. r.srv \in Servers => r.srv # Nil
  BY ConstantsAssumption
<1>3. QED
  BY <1>1, <1>2 DEF FaultInv, Serving, StaleHandleTransparent, EffectsExplained

LEMMA FaultCrash ==
  ASSUME TInv, FaultInv, NEW s \in Servers, Crash(s)
  PROVE  FaultInv'
<1>1. /\ phase' = phase
      /\ job'.req = job.req /\ job'.effects = job.effects
      /\ job'.conn = job.conn /\ job'.result = job.result
      /\ job.faulted => job'.faulted
      /\ phase \in Serving /\ job.req.srv = s => job'.faulted
  BY DEF Crash, TInv, TypeOK, Job
<1>2. \A t \in Servers \ {s} : up'[t] = up[t] /\ gen'[t] = gen[t]
  BY DEF Crash, TInv, TypeOK
<1>3. phase \in {"reconnect", "retry"} => job.req.srv \in Servers
  BY DEF TInv, Serving, Formed
<1>4. QED
  BY <1>1, <1>2, <1>3
  DEF FaultInv, Serving, StaleHandleTransparent, EffectsExplained

LEMMA FaultRestore ==
  ASSUME TInv, FaultInv, NEW s \in Servers, Restore(s)
  PROVE  FaultInv'
<1>1. \A t \in Servers : up[t] => up'[t]
  BY DEF Restore, TInv, TypeOK
<1>2. QED
  BY <1>1 DEF Restore, FaultInv, Serving, StaleHandleTransparent, EffectsExplained

\* The other steps leave the request and the servers alone, or finish the
\* request.
LEMMA FaultOther ==
  ASSUME FaultInv,
         \/ phase' \notin Serving
         \/ UNCHANGED <<phase, job, up, gen>>
  PROVE  FaultInv'
  BY DEF FaultInv, Serving, StaleHandleTransparent, EffectsExplained

LEMMA FaultNext == TInv /\ FaultInv /\ [Next]_vars => FaultInv'
<1> SUFFICES ASSUME TInv, FaultInv, [Next]_vars
             PROVE  FaultInv'
  OBVIOUS
<1>1. CASE UNCHANGED vars
  BY <1>1, FaultOther DEF vars
<1>2. CASE Start \/ Closed \/ DropClient
  BY <1>2, FaultOther DEF Start, Closed, DropClient, Serving
<1>3. ASSUME NEW c \in Callers, CallerStep(c)
      PROVE  FaultInv'
  BY <1>3, FaultOther
  DEF CallerStep, Call, Enqueue, SendFails, Receive, Cancel
<1>4. CASE Exit \/ SkipAbandoned \/ Reply \/ Panic \/ Unwind
  BY <1>4, FaultOther DEF Exit, SkipAbandoned, Reply, Panic, Unwind, Serving
<1>5. CASE Environment
  <2>1. ASSUME NEW t \in sessions, Lapse(t)
        PROVE  FaultInv'
    BY <2>1, FaultOther DEF Lapse
  <2>2. QED
    BY <1>5, <2>1, FaultCrash, FaultRestore DEF Environment
<1>6. QED
  BY <1>1, <1>2, <1>3, <1>4, <1>5, FaultRecv, FaultDirect, FaultLookup,
     FaultOperate, FaultReconnect, FaultRetry
  DEF Next, WorkerStep

LEMMA FaultInvariant == Spec => [](TInv /\ FaultInv)
<1>1. Init => FaultInv
  BY DEF Init, FaultInv, Serving, StaleHandleTransparent, EffectsExplained
<1>2. QED
  BY <1>1, TInvInit, TInvNext, FaultNext, PTL DEF Spec

\* A caller sees a connection error only if its server was down, or went
\* down, while its request was served: the cache and the retry of
\* dispatch_with_retry hide every stale handle.
THEOREM StaleHandlesHidden == Spec => []StaleHandleTransparent
<1>1. FaultInv => StaleHandleTransparent
  BY DEF FaultInv
<1>2. QED
  BY <1>1, FaultInvariant, PTL

\* The retry of dispatch_with_retry repeats a write or a browse only when the
\* server failed during the request, and a rejected write took no effect unless
\* it failed.
THEOREM EffectsAreExplained == Spec => []EffectsExplained
<1>1. FaultInv => EffectsExplained
  BY DEF FaultInv
<1>2. QED
  BY <1>1, FaultInvariant, PTL

-----------------------------------------------------------------------------
(***************************************************************************)
(* The session table.                                                      *)
(***************************************************************************)
BoundInv == IsFiniteSet(sessions) /\ Cardinality(sessions) <= MaxSessions

\* A table that only shrinks stays within its limit.
LEMMA BoundShrink ==
  ASSUME BoundInv, sessions' \subseteq sessions
  PROVE  BoundInv'
<1>1. IsFiniteSet(sessions') /\ Cardinality(sessions') <= Cardinality(sessions)
  BY FS_Subset DEF BoundInv
<1>2. Cardinality(sessions) \in Nat /\ Cardinality(sessions') \in Nat
  BY <1>1, FS_CardinalityType DEF BoundInv
<1>3. QED
  BY <1>1, <1>2, ConstantsAssumption DEF BoundInv

LEMMA BoundOpen ==
  ASSUME BoundInv, Open
  PROVE  BoundInv'
<1> DEFINE kept == sessions \ lapsed
           t == TokenOf(job.req)
<1>1. CASE sessions' \subseteq sessions
  BY <1>1, BoundShrink
<1>2. CASE Cardinality(kept) < MaxSessions /\ sessions' = kept \cup {t}
  <2>1. IsFiniteSet(kept)
    BY FS_Subset DEF BoundInv
  <2>2. /\ IsFiniteSet(kept \cup {t})
        /\ \/ Cardinality(kept \cup {t}) = Cardinality(kept)
           \/ Cardinality(kept \cup {t}) = Cardinality(kept) + 1
    BY <2>1, FS_AddElement
  <2>3. Cardinality(kept) \in Nat
    BY <2>1, FS_CardinalityType
  <2>4. QED
    BY <1>2, <2>2, <2>3, ConstantsAssumption DEF BoundInv
<1>3. QED
  BY <1>1, <1>2 DEF Open

LEMMA BoundNext == BoundInv /\ [Next]_vars => BoundInv'
<1> SUFFICES ASSUME BoundInv, [Next]_vars
             PROVE  BoundInv'
  OBVIOUS
<1>1. CASE Open
  BY <1>1, BoundOpen
<1>2. CASE ~Open
  <2>1. sessions' \subseteq sessions
    BY <1>2
    DEF Next, vars, CallerStep, WorkerStep, Environment, Start, Closed, Call, Enqueue,
        SendFails, Receive, Cancel, DropClient, Recv, Exit, ListServers, SkipAbandoned,
        Lookup, Operate, Reconnect, Retry, Page, Close, CloseSession, Reply, Panic,
        Unwind, Lapse, Crash, Restore
  <2>2. QED
    BY <2>1, BoundShrink
<1>3. QED
  BY <1>1, <1>2

\* The session table never exceeds MAX_BROWSE_SESSIONS, whatever opens, closes
\* and expires in between (native_browse.rs: the check in BrowseSessions::open
\* after the expired sessions are dropped).
THEOREM SessionTableBounded == Spec => []SessionsBounded
<1>1. Init => BoundInv
  BY FS_EmptySet, ConstantsAssumption DEF Init, BoundInv
<1>2. BoundInv => SessionsBounded
  BY DEF BoundInv, SessionsBounded
<1>3. QED
  BY <1>1, <1>2, BoundNext, PTL DEF Spec

-----------------------------------------------------------------------------
(***************************************************************************)
(* Tokens. A token is named by the call that asked for it; one that was    *)
(* handed out belongs to a call that is over, so that the call an open     *)
(* session is made for, which still waits, has another one.                *)
(***************************************************************************)
Handed(t) == t \in lost \/ \E c \in Callers : t \in held[c]

Past(t) ==
  /\ t[2] <= call[t[1]].n
  /\ call[t[1]].pc # "idle" => t[2] < call[t[1]].n

HandedInv == \A t \in Token : Handed(t) => Past(t)

\* What the steps of caller c do to its frame.
LEMMA FrameOfCall ==
  ASSUME TInv, NEW c \in Callers, NEW kind, NEW srv, NEW tok, Call(c, kind, srv, tok)
  PROVE  /\ call[c].pc = "idle" /\ call[c].n \in Nat
         /\ call'[c].pc \in {"idle", "sending"} /\ call'[c].n = call[c].n + 1
         /\ call'[c].kind = kind
         /\ \A d \in Callers \ {c} : call'[d] = call[d]
  BY DEF Call, TInv, TypeOK, CallFrame

LEMMA FrameOfWait ==
  ASSUME TInv, NEW c \in Callers, NEW w \in {"idle", "sending", "awaiting"},
         call' = [call EXCEPT ![c].pc = w]
  PROVE  /\ call'[c].pc = w /\ call'[c].n = call[c].n /\ call[c].n \in Nat
         /\ call'[c].kind = call[c].kind
         /\ RequestOf(c)' = RequestOf(c)
         /\ \A d \in Callers \ {c} : call'[d] = call[d]
  BY DEF TInv, TypeOK, CallFrame, RequestOf

LEMMA HandedKept ==
  ASSUME HandedInv, UNCHANGED <<call, held, lost>>
  PROVE  HandedInv'
  BY DEF HandedInv, Handed, Past

\* A frame that stops waiting hands out at most its own token.
LEMMA HandedOwn ==
  ASSUME TInv, HandedInv, NEW c \in Callers, NEW w \in {"idle", "awaiting"},
         call' = [call EXCEPT ![c].pc = w], call[c].pc # "idle",
         \A t \in Token : Handed(t)' => Handed(t) \/ (w = "idle" /\ t = TokenOf(RequestOf(c)))
  PROVE  HandedInv'
<1> SUFFICES ASSUME NEW t \in Token, Handed(t)' PROVE Past(t)'
  BY DEF HandedInv
<1>1. t[1] \in Callers /\ t[2] \in Nat
  BY DEF Token
<1>2. CASE t[1] # c
  <2>1. t # TokenOf(RequestOf(c)) /\ call'[t[1]] = call[t[1]]
    BY <1>1, <1>2, FrameOfWait DEF TokenOf, RequestOf
  <2>2. QED
    BY <2>1 DEF HandedInv, Past
<1>3. CASE t[1] = c
  <2>1. call'[c].pc = w /\ call'[c].n = call[c].n /\ call[c].n \in Nat
    BY FrameOfWait
  <2>2. CASE Handed(t)
    BY <1>1, <1>3, <2>1, <2>2 DEF HandedInv, Past
  <2>3. CASE w = "idle" /\ t = TokenOf(RequestOf(c))
    <3>1. t[2] = call[c].n
      BY <2>3 DEF TokenOf, RequestOf
    <3>2. QED
      BY <1>3, <2>1, <2>3, <3>1 DEF Past
  <2>4. QED
    BY <2>2, <2>3
<1>4. QED
  BY <1>2, <1>3

LEMMA HandedNext == TInv /\ HandedInv /\ [Next]_vars => HandedInv'
<1> SUFFICES ASSUME TInv, HandedInv, [Next]_vars PROVE HandedInv'
  OBVIOUS
<1>1. CASE UNCHANGED <<call, held, lost>>
  BY <1>1, HandedKept
<1>2. ASSUME NEW c \in Callers, NEW kind \in Kinds, NEW p \in Params(c, kind),
             Call(c, kind, p[1], p[2])
      PROVE  HandedInv'
  <2>1. held' = held /\ lost' = lost
    BY <1>2 DEF Call
  <2> SUFFICES ASSUME NEW t \in Token, Past(t) PROVE Past(t)'
    BY <2>1 DEF HandedInv, Handed
  <2>2. t[1] \in Callers /\ t[2] \in Nat
    BY DEF Token
  <2>3. QED
    BY <1>2, <2>2, FrameOfCall DEF Past
<1>3. ASSUME NEW c \in Callers, Enqueue(c) PROVE HandedInv'
  BY <1>3, HandedOwn DEF Enqueue, Handed
<1>4. ASSUME NEW c \in Callers, SendFails(c) PROVE HandedInv'
  BY <1>4, HandedOwn DEF SendFails, Handed
<1>5. ASSUME NEW c \in Callers, Receive(c) PROVE HandedInv'
  <2>1. \A t \in Token : Handed(t)' => Handed(t) \/ t = TokenOf(RequestOf(c))
    BY <1>5 DEF Receive, Handed, TInv, TypeOK
  <2>2. call' = [call EXCEPT ![c].pc = "idle"] /\ call[c].pc # "idle"
    BY <1>5 DEF Receive
  <2>3. QED
    BY <2>1, <2>2, HandedOwn
<1>6. ASSUME NEW c \in Callers, Cancel(c) PROVE HandedInv'
  <2>1. \A t \in Token : Handed(t)' => Handed(t) \/ t = TokenOf(RequestOf(c))
    BY <1>6 DEF Cancel, Handed
  <2>2. call' = [call EXCEPT ![c].pc = "idle"] /\ call[c].pc # "idle"
    BY <1>6 DEF Cancel
  <2>3. QED
    BY <2>1, <2>2, HandedOwn
<1>7. CASE Start \/ Closed \/ DropClient
  BY <1>1, <1>7 DEF Start, Closed, DropClient
<1>8. CASE WorkerStep
  BY <1>1, <1>8 DEF WorkerStep, Recv, Exit, ListServers, SkipAbandoned, Lookup, Operate,
    Reconnect, Retry, Open, Page, Close, Reply, Panic, Unwind
<1>9. CASE Environment
  BY <1>1, <1>9 DEF Environment, Lapse, Crash, Restore
<1>10. QED
  BY <1>1, <1>2, <1>3, <1>4, <1>5, <1>6, <1>7, <1>8, <1>9 DEF Next, CallerStep, vars

LEMMA HandedInvariant == Spec => [](TInv /\ HandedInv)
<1>1. Init => HandedInv
  BY DEF Init, HandedInv, Handed
<1>2. QED
  BY <1>1, TInvInit, TInvNext, HandedNext, PTL DEF Spec

\* A token that was handed out and whose session is gone names no session
\* again: only open adds to the table, for a request whose caller still waits
\* (native_browse/state.rs, the fresh UUID of every session).
THEOREM TokensStayClosed == Spec => TokensNeverRevive
<1>1. TInv /\ HandedInv /\ [Next]_vars =>
        [\A t \in lost \cup UNION {held[c] : c \in Callers} :
           t \notin sessions => t \notin sessions']_vars
  <2> SUFFICES ASSUME TInv, HandedInv, Next,
                      NEW t \in lost \cup UNION {held[c] : c \in Callers}, t \in sessions'
               PROVE  t \in sessions
    BY Zenon
  <2>1. t \in Token /\ Handed(t)
    BY DEF Handed, TInv, TypeOK
  <2>2. CASE sessions' \subseteq sessions
    BY <2>2
  <2>3. CASE Open
    <3>1. TokenOf(job.req) # t
      <4>1. SUFFICES ASSUME t = TokenOf(job.req) PROVE FALSE
        OBVIOUS
      <4>2. t[1] = job.req.c /\ t[2] = job.req.n
        BY <4>1 DEF TokenOf
      <4>3. call[t[1]].pc = "awaiting" /\ call[t[1]].n = t[2]
        BY <2>3, <4>2 DEF Open, Live
      <4>4. t[2] < call[t[1]].n
        BY <2>1, <4>3 DEF HandedInv, Past
      <4>5. t[2] \in Nat
        BY <2>1 DEF Token
      <4>6. QED
        BY <4>3, <4>4, <4>5
    <3>2. QED
      BY <2>3, <3>1 DEF Open, Done
  <2>4. CASE Start \/ Closed \/ DropClient \/ Environment \/ \E c \in Callers : CallerStep(c)
    BY <2>2, <2>4 DEF Start, Closed, DropClient, Environment, Lapse, Crash, Restore, CallerStep,
      Call, Enqueue, SendFails, Receive, Cancel
  <2>5. CASE WorkerStep /\ ~Open
    BY <2>2, <2>5 DEF WorkerStep, Recv, Exit, ListServers, SkipAbandoned, Lookup, Operate,
      Reconnect, Retry, Page, Close, CloseSession, Reply, Panic, Unwind
  <2>6. QED
    BY <2>3, <2>4, <2>5 DEF Next
<1>2. QED
  BY <1>1, HandedInvariant, PTL DEF Spec, TokensNeverRevive

-----------------------------------------------------------------------------
(***************************************************************************)
(* Requests in flight. Each is in the channel or with the worker once, its *)
(* one-shot empty; a call that has not reached the channel has no request  *)
(* in flight yet.                                                          *)
(***************************************************************************)
\* With frames f and one-shots p.
Known(r, f, p) ==
  /\ r.n <= f[r.c].n
  /\ r.n = f[r.c].n => f[r.c].pc # "sending" /\ f[r.c].kind = r.kind
  /\ f[r.c].pc = "awaiting" /\ f[r.c].n = r.n => p[r.c] = Nil

Same(r, q) == r.c = q.c /\ r.n = q.n

Unsent == \A c \in Callers : call[c].pc = "sending" => reply[c] = Nil

FlightInv ==
  /\ \A i \in 1 .. Len(chan) : Known(chan[i], call, reply)
  /\ phase \in Serving => Known(job.req, call, reply)
  /\ \A i, j \in 1 .. Len(chan) : Same(chan[i], chan[j]) => i = j
  /\ phase \in Serving => \A i \in 1 .. Len(chan) : ~Same(chan[i], job.req)
  /\ Unsent

LEMMA RequestFields ==
  ASSUME NEW r \in Request
  PROVE  r.c \in Callers /\ r.n \in Nat /\ r.kind \in AllKinds
  BY DEF Request

\* A request stays known when other callers step, and when its own does.
LEMMA KnownKept ==
  ASSUME TInv, NEW r \in Request, Known(r, call, reply), NEW c \in Callers,
         \A d \in Callers \ {c} : call'[d] = call[d] /\ reply'[d] = reply[d],
         \/ r.c # c
         \/ call'[c].n = call[c].n + 1
         \/ /\ call'[c].n = call[c].n /\ call'[c].kind = call[c].kind
            /\ call'[c].pc = "idle" /\ reply'[c] = reply[c]
  PROVE  Known(r, call', reply')
<1>1. r.c \in Callers /\ r.n \in Nat /\ call[c].n \in Nat
  BY RequestFields DEF TInv, TypeOK, CallFrame
<1>2. CASE r.c # c
  BY <1>1, <1>2 DEF Known, Live
<1>3. CASE r.c = c /\ call'[c].n = call[c].n + 1
  BY <1>1, <1>3 DEF Known, Live
<1>4. CASE r.c = c /\ call'[c].n = call[c].n /\ call'[c].kind = call[c].kind /\ call'[c].pc = "idle"
  BY <1>1, <1>4 DEF Known, Live
<1>5. QED
  BY <1>2, <1>3, <1>4

LEMMA ChannelRequests ==
  ASSUME TInv
  PROVE  /\ \A i \in 1 .. Len(chan) : chan[i] \in Request
         /\ phase \in Serving => job.req \in Request
  BY DEF TInv, TypeOK, Formed

\* Steps of a caller that leave the channel alone.
LEMMA FlightCaller ==
  ASSUME TInv, FlightInv, NEW c \in Callers, UNCHANGED <<chan, phase, job>>,
         \A d \in Callers \ {c} : call'[d] = call[d] /\ reply'[d] = reply[d],
         \/ call'[c].n = call[c].n + 1
         \/ /\ call'[c].n = call[c].n /\ call'[c].kind = call[c].kind
            /\ call'[c].pc = "idle" /\ reply'[c] = reply[c],
         call'[c].pc = "sending" => reply'[c] = Nil
  PROVE  FlightInv'
<1>1. \A r \in Request : Known(r, call, reply) => Known(r, call', reply')
  BY KnownKept
<1>2. Unsent'
  BY DEF FlightInv, Unsent
<1>3. QED
  BY <1>1, <1>2, ChannelRequests DEF FlightInv, Same

\* Steps that touch neither frames, one-shots nor requests.
LEMMA FlightKept ==
  ASSUME FlightInv, UNCHANGED <<call, reply, chan>>,
         phase' \in Serving => phase \in Serving /\ job'.req = job.req
  PROVE  FlightInv'
  BY DEF FlightInv, Known, Same, Live, Unsent

LEMMA FlightEnqueue ==
  ASSUME TInv, FlightInv, NEW c \in Callers, Enqueue(c)
  PROVE  FlightInv'
<1> DEFINE new == RequestOf(c)
<1>1. new \in Request /\ new.c = c /\ new.n = call[c].n /\ new.kind = call[c].kind
  BY DEF Enqueue, TInv, Formed, RequestOf
<1>2. /\ call'[c].pc = "awaiting" /\ call'[c].n = call[c].n /\ call[c].n \in Nat
      /\ call'[c].kind = call[c].kind /\ reply' = reply
      /\ \A d \in Callers \ {c} : call'[d] = call[d]
  BY FrameOfWait DEF Enqueue
<1>3. reply[c] = Nil /\ call[c].pc = "sending"
  BY DEF Enqueue, FlightInv, Unsent
<1> HIDE DEF new
<1>4. ASSUME NEW r \in Request, Known(r, call, reply)
      PROVE  Known(r, call', reply') /\ ~Same(r, new) /\ ~Same(new, r)
  <2>1. r.c \in Callers /\ r.n \in Nat
    BY RequestFields
  <2>2. CASE r.c = c
    <3>1. r.n # call[c].n
      BY <1>3, <1>4, <2>2 DEF Known
    <3>2. QED
      BY <1>1, <1>2, <1>4, <2>1, <2>2, <3>1 DEF Known, Live, Same
  <2>3. CASE r.c # c
    BY <1>1, <1>2, <1>4, <2>1, <2>3 DEF Known, Live, Same
  <2>4. QED
    BY <2>2, <2>3
<1>5. Known(new, call', reply')
  BY <1>1, <1>2, <1>3 DEF Known, Live
<1>6. /\ chan \in Seq(Request) /\ Len(chan) \in Nat /\ Len(chan') = Len(chan) + 1
      /\ \A i \in 1 .. Len(chan) : chan'[i] = chan[i]
      /\ chan'[Len(chan) + 1] = new
  BY DEF Enqueue, TInv, TypeOK, new
<1>7. \A i \in 1 .. Len(chan) + 1 : i \in 1 .. Len(chan) \/ i = Len(chan) + 1
  BY <1>6
<1>8. UNCHANGED <<phase, job>> /\ (phase \in Serving => job.req \in Request)
  BY ChannelRequests DEF Enqueue
<1>9. \A i \in 1 .. Len(chan') : Known(chan'[i], call', reply')
  BY <1>4, <1>5, <1>6, <1>7, ChannelRequests DEF FlightInv
<1>10. phase' \in Serving => Known(job'.req, call', reply')
  BY <1>4, <1>8 DEF FlightInv
<1>11. \A i, j \in 1 .. Len(chan') : Same(chan'[i], chan'[j]) => i = j
  BY <1>4, <1>6, <1>7, ChannelRequests DEF FlightInv
<1>12. phase' \in Serving => \A i \in 1 .. Len(chan') : ~Same(chan'[i], job'.req)
  BY <1>4, <1>6, <1>7, <1>8 DEF FlightInv
<1>13. Unsent'
  BY <1>2 DEF FlightInv, Unsent
<1>14. QED
  BY <1>9, <1>10, <1>11, <1>12, <1>13 DEF FlightInv, Known, Live, Same

LEMMA FlightRecv ==
  ASSUME TInv, FlightInv, Recv
  PROVE  FlightInv'
<1>1. /\ chan \in Seq(Request) /\ Len(chan) \in Nat \ {0} /\ Len(chan') = Len(chan) - 1
      /\ \A i \in 1 .. Len(chan) - 1 : chan'[i] = chan[i + 1]
      /\ Head(chan) = chan[1]
  BY DEF Recv, TInv, TypeOK
<1>2. job'.req = chan[1] /\ UNCHANGED <<call, reply>>
  BY <1>1 DEF Recv, NewJob
<1>3. \A i \in 1 .. Len(chan) - 1 : i + 1 \in 1 .. Len(chan) /\ i + 1 # 1
  BY <1>1
<1>4. \A r : Known(r, call', reply') <=> Known(r, call, reply)
  BY <1>2 DEF Known, Live
<1>5. 1 \in 1 .. Len(chan)
  BY <1>1
<1>6. \A i \in 1 .. Len(chan') : Known(chan'[i], call, reply)
  BY <1>1, <1>3 DEF FlightInv
<1>7. Known(job'.req, call, reply)
  BY <1>2, <1>5 DEF FlightInv
<1>8. \A i, j \in 1 .. Len(chan') : Same(chan'[i], chan'[j]) => i = j
  <2> SUFFICES ASSUME NEW i \in 1 .. Len(chan) - 1, NEW j \in 1 .. Len(chan) - 1,
                      Same(chan[i + 1], chan[j + 1])
               PROVE  i = j
    BY <1>1
  <2>1. i + 1 = j + 1
    BY <1>3 DEF FlightInv
  <2>2. QED
    BY <2>1
<1>9. \A i \in 1 .. Len(chan') : ~Same(chan'[i], job'.req)
  BY <1>1, <1>2, <1>3, <1>5 DEF FlightInv
<1>10. Unsent'
  BY <1>2 DEF FlightInv, Unsent
<1>11. QED
  BY <1>4, <1>6, <1>7, <1>8, <1>9, <1>10 DEF FlightInv, Same

\* The one-shots the worker fills or drops belong to requests it has, live
\* ones; those go out of flight.
LEMMA FlightAnswered ==
  ASSUME TInv, FlightInv, UNCHANGED <<call, chan>>, phase \in Serving, phase' \notin Serving,
         \/ reply' = reply
         \/ Live(job.req) /\ \A d \in Callers \ {job.req.c} : reply'[d] = reply[d]
  PROVE  FlightInv'
<1>1. job.req \in Request /\ job.req.c \in Callers /\ job.req.n \in Nat
  BY ChannelRequests, RequestFields
<1>2. ASSUME NEW i \in 1 .. Len(chan) PROVE Known(chan[i], call', reply')
  <2>1. chan[i] \in Request /\ chan[i].c \in Callers /\ Known(chan[i], call, reply)
    BY ChannelRequests, RequestFields DEF FlightInv
  <2>2. CASE reply'[chan[i].c] = reply[chan[i].c]
    BY <2>1, <2>2 DEF Known, Live
  <2>3. CASE chan[i].c = job.req.c /\ Live(job.req)
    <3>1. chan[i].n # job.req.n
      BY <2>3 DEF FlightInv, Same
    <3>2. ~Live(chan[i])
      BY <2>3, <3>1 DEF Live
    <3>3. QED
      BY <2>1, <3>2 DEF Known, Live
  <2>4. QED
    BY <2>1, <2>2, <2>3
<1>3. Unsent'
  BY DEF FlightInv, Unsent, Live
<1>4. QED
  BY <1>2, <1>3 DEF FlightInv, Same

LEMMA FlightUnwind ==
  ASSUME TInv, FlightInv, Unwind
  PROVE  FlightInv'
<1>1. UNCHANGED call /\ chan' = <<>> /\ phase' \notin Serving
  BY DEF Unwind, Serving
<1>2. ASSUME NEW c \in Callers, call[c].pc = "sending" PROVE reply'[c] = Nil
  <2>1. ~\E i \in 1 .. Len(chan) : chan[i].c = c /\ Live(chan[i])
    BY <1>2 DEF Live
  <2>2. reply'[c] = reply[c]
    BY <2>1 DEF Unwind
  <2>3. QED
    BY <1>2, <2>2 DEF FlightInv, Unsent
<1>3. QED
  BY <1>1, <1>2 DEF FlightInv, Unsent

LEMMA FlightNext == TInv /\ FlightInv /\ [Next]_vars => FlightInv'
<1> SUFFICES ASSUME TInv, FlightInv, [Next]_vars PROVE FlightInv'
  OBVIOUS
<1>1. CASE UNCHANGED vars \/ Start \/ Closed \/ DropClient \/ Exit
  BY <1>1, FlightKept DEF vars, Start, Closed, DropClient, Exit, Serving
<1>2. CASE Environment
  <2>1. UNCHANGED <<call, reply, chan, phase>> /\ job'.req = job.req
    BY <1>2 DEF Environment, Lapse, Crash, Restore, TInv, TypeOK, Job
  <2>2. QED
    BY <2>1, FlightKept
<1>3. ASSUME NEW c \in Callers, NEW kind, NEW srv, NEW tok, Call(c, kind, srv, tok)
      PROVE  FlightInv'
  <2>1. /\ reply'[c] = Nil /\ \A d \in Callers \ {c} : reply'[d] = reply[d]
        /\ UNCHANGED <<chan, phase, job>>
    BY <1>3 DEF Call, TInv, TypeOK
  <2>2. QED
    BY <1>3, <2>1, FrameOfCall, FlightCaller
<1>4. ASSUME NEW c \in Callers, SendFails(c) \/ Receive(c) \/ Cancel(c) PROVE FlightInv'
  <2>1. call' = [call EXCEPT ![c].pc = "idle"] /\ UNCHANGED <<reply, chan, phase, job>>
    BY <1>4 DEF SendFails, Receive, Cancel
  <2>2. QED
    <3>1. "idle" \in {"idle", "sending", "awaiting"}
      OBVIOUS
    <3>2. /\ call'[c].pc = "idle" /\ call'[c].n = call[c].n /\ call'[c].kind = call[c].kind
          /\ \A d \in Callers \ {c} : call'[d] = call[d]
      BY <2>1, <3>1, FrameOfWait
    <3>3. /\ reply'[c] = reply[c] /\ \A d \in Callers \ {c} : reply'[d] = reply[d]
          /\ UNCHANGED <<chan, phase, job>>
      BY <2>1
    <3>4. "idle" # "sending"
      OBVIOUS
    <3>5. QED
      BY <3>2, <3>3, <3>4, FlightCaller
<1>5. CASE ListServers \/ Lookup \/ Operate \/ Reconnect \/ Retry \/ Open \/ Close
  <2>1. job'.req = job.req
    BY <1>5 DEF ListServers, Lookup, Operate, Reconnect, Retry, Open, Close, Done, TInv, TypeOK, Job
  <2>2. UNCHANGED <<call, reply, chan>> /\ phase \in Serving
    BY <1>5 DEF ListServers, Lookup, Operate, Reconnect, Retry, Open, Close, Serving
  <2>3. QED
    BY <2>1, <2>2, FlightKept
<1>6. CASE SkipAbandoned \/ Page
  <2>1. phase' \in Serving => job'.req = job.req
    BY <1>6 DEF SkipAbandoned, Page, Done, Serving, TInv, TypeOK, Job
  <2>2. UNCHANGED <<call, reply, chan>> /\ phase \in Serving
    BY <1>6 DEF SkipAbandoned, Page, Serving
  <2>3. QED
    BY <2>1, <2>2, FlightKept
<1>7. CASE Reply \/ Panic
  <2>1. UNCHANGED <<call, chan>> /\ phase \in Serving /\ phase' \notin Serving
    BY <1>7 DEF Reply, Panic, Serving
  <2>2. \/ reply' = reply
        \/ Live(job.req) /\ \A d \in Callers \ {job.req.c} : reply'[d] = reply[d]
    BY <1>7 DEF Reply, Panic, TInv, TypeOK
  <2>3. QED
    BY <2>1, <2>2, FlightAnswered
<1>8. QED
  BY <1>1, <1>2, <1>3, <1>4, <1>5, <1>6, <1>7, FlightEnqueue, FlightRecv, FlightUnwind
  DEF Next, CallerStep, WorkerStep

-----------------------------------------------------------------------------
(***************************************************************************)
(* Sessions and their owners.                                              *)
(***************************************************************************)
Accounted == (phase = "unwind" => sessions = {}) /\ SessionsAccountedFor

Awaits(t, c) ==
  /\ call[c].pc = "awaiting" /\ call[c].kind = "open"
  /\ reply[c] = "ok" /\ t = TokenOf(RequestOf(c))

Opened(t) ==
  phase = "reply" /\ job.req.kind = "open" /\ job.result = "ok" /\ TokenOf(job.req) = t

LEMMA Delivering ==
  /\ \A t : InDelivery(t) <=> Opened(t) \/ \E c \in Callers : Awaits(t, c)
  /\ \A t : InDelivery(t)' <=> Opened(t)' \/ \E c \in Callers : Awaits(t, c)'
  BY DEF InDelivery, Opened, Awaits

\* Steps of the worker before it answers that open no session.
LEMMA AccountedShrink ==
  ASSUME Accounted, UNCHANGED <<call, reply, held, lost>>, sessions' \subseteq sessions,
         phase # "reply", phase' # "unwind"
  PROVE  Accounted'
<1>1. ASSUME NEW t, InDelivery(t) PROVE InDelivery(t)'
  BY <1>1, Delivering DEF Opened, Awaits, RequestOf
<1>2. QED
  BY <1>1 DEF Accounted, SessionsAccountedFor

\* Steps that leave the answer of the worker as it is.
LEMMA AccountedSame ==
  ASSUME Accounted, UNCHANGED <<call, reply, held, lost, sessions>>,
         phase' = phase \/ (phase = "boot" /\ phase' # "unwind"),
         job'.req = job.req, job'.result = job.result
  PROVE  Accounted'
<1>1. ASSUME NEW t, InDelivery(t) PROVE InDelivery(t)'
  BY <1>1, Delivering DEF Opened, Awaits, RequestOf
<1>2. QED
  BY <1>1 DEF Accounted, SessionsAccountedFor

\* Steps of a caller: what another awaits is untouched, what it awaits itself
\* reaches it or is lost.
LEMMA AccountedCaller ==
  ASSUME Accounted, UNCHANGED <<phase, job, sessions>>, NEW c \in Callers,
         \A d \in Callers \ {c} : call'[d] = call[d] /\ reply'[d] = reply[d] /\ held[d] \subseteq held'[d],
         held[c] \subseteq held'[c], lost \subseteq lost',
         \A t : Awaits(t, c) => t \in lost' \/ t \in held'[c]
  PROVE  Accounted'
<1> SUFFICES ASSUME NEW t \in sessions
             PROVE  t \in lost' \/ InDelivery(t)' \/ \E d \in Callers : t \in held'[d]
  BY DEF Accounted, SessionsAccountedFor
<1>1. CASE t \in lost \/ \E d \in Callers : t \in held[d]
  BY <1>1
<1>2. CASE Opened(t)
  BY <1>2, Delivering DEF Opened
<1>3. ASSUME NEW d \in Callers, Awaits(t, d)
      PROVE  t \in lost' \/ InDelivery(t)' \/ \E e \in Callers : t \in held'[e]
  <2>1. CASE d = c
    BY <1>3, <2>1
  <2>2. CASE d # c
    <3>1. Awaits(t, d)'
      BY <1>3, <2>2 DEF Awaits, RequestOf
    <3>2. QED
      BY <3>1, Delivering
  <2>3. QED
    BY <2>1, <2>2
<1>4. QED
  BY <1>1, <1>2, <1>3, Delivering DEF Accounted, SessionsAccountedFor

LEMMA AccountedReply ==
  ASSUME TInv, FlightInv, Accounted, Reply
  PROVE  Accounted'
<1>1. /\ job.req \in Request /\ job.req.c \in Callers
      /\ UNCHANGED <<call, held, lost>> /\ phase' = "recv" /\ sessions' \subseteq sessions
  BY ChannelRequests, RequestFields DEF Reply, Serving, CloseSession
<1> SUFFICES ASSUME NEW t \in sessions', t \in sessions, InDelivery(t)
             PROVE  InDelivery(t)'
  BY <1>1 DEF Accounted, SessionsAccountedFor
<1>2. Known(job.req, call, reply)
  BY DEF Reply, FlightInv, Serving
<1>3. CASE Live(job.req)
  <2>1. /\ reply' = [reply EXCEPT ![job.req.c] = job.result]
        /\ reply'[job.req.c] = job.result
        /\ \A d \in Callers \ {job.req.c} : reply'[d] = reply[d]
    BY <1>1, <1>3 DEF Reply, TInv, TypeOK
  <2>2. CASE Opened(t)
    <3>1. /\ call[job.req.c].pc = "awaiting" /\ call[job.req.c].n = job.req.n
          /\ call[job.req.c].kind = "open"
      BY <1>2, <1>3, <2>2 DEF Opened, Live, Known
    <3>2. t = <<job.req.c, job.req.n>> /\ reply'[job.req.c] = "ok"
      BY <2>1, <2>2 DEF Opened, TokenOf
    <3>3. \E d \in Callers : Awaits(t, d)'
      BY <1>1, <3>1, <3>2 DEF Awaits, TokenOf, RequestOf
    <3>4. QED
      BY <3>3, Delivering
  <2>3. ASSUME NEW d \in Callers, Awaits(t, d) PROVE InDelivery(t)'
    <3>1. d # job.req.c
      BY <1>2, <1>3, <2>3, ConstantsAssumption DEF Known, Live, Awaits
    <3>2. Awaits(t, d)'
      BY <1>1, <2>1, <2>3, <3>1 DEF Awaits, RequestOf
    <3>3. QED
      BY <3>2, Delivering
  <2>4. QED
    BY <2>2, <2>3, Delivering
<1>4. CASE ~Live(job.req)
  <2>1. reply' = reply
    BY <1>4 DEF Reply
  <2>2. ~Opened(t)
    BY <1>4 DEF Reply, Opened, CloseSession
  <2>3. PICK d \in Callers : Awaits(t, d)
    BY <2>2, Delivering
  <2>4. Awaits(t, d)'
    BY <1>1, <2>1, <2>3 DEF Awaits, RequestOf
  <2>5. QED
    BY <2>4, Delivering
<1>5. QED
  BY <1>3, <1>4

LEMMA AccountedOpen ==
  ASSUME TInv, Accounted, Open
  PROVE  Accounted'
<1>1. UNCHANGED <<call, reply, held, lost>> /\ phase = "dispatch" /\ phase' = "reply"
  BY DEF Open, Done
<1>2. job'.req = job.req /\ job.req.kind = "open"
  BY DEF Open, Done, TInv, TypeOK, Job
<1>3. ASSUME NEW t \in sessions' \ sessions PROVE Opened(t)'
  <2>1. t = TokenOf(job.req) /\ Done("ok")
    BY <1>3 DEF Open
  <2>2. job'.result = "ok"
    BY <2>1 DEF Done, TInv, TypeOK, Job
  <2>3. QED
    BY <1>1, <1>2, <2>1, <2>2 DEF Opened
<1>4. ASSUME NEW t, InDelivery(t) PROVE InDelivery(t)'
  BY <1>1, <1>4, Delivering DEF Opened, Awaits, RequestOf
<1>5. QED
  BY <1>1, <1>3, <1>4, Delivering DEF Accounted, SessionsAccountedFor

LEMMA AccountedNext == TInv /\ FlightInv /\ Accounted /\ [Next]_vars => Accounted'
<1> SUFFICES ASSUME TInv, FlightInv, Accounted, [Next]_vars PROVE Accounted'
  OBVIOUS
<1>1. CASE UNCHANGED vars \/ Start \/ Closed \/ DropClient
  BY <1>1, AccountedSame DEF vars, Start, Closed, DropClient
<1>2. CASE Environment
  <2>1. /\ UNCHANGED <<call, reply, held, lost, sessions, phase>>
        /\ job'.req = job.req /\ job'.result = job.result
    BY <1>2 DEF Environment, Lapse, Crash, Restore, TInv, TypeOK, Job
  <2>2. QED
    BY <2>1, AccountedSame
<1>3. ASSUME NEW c \in Callers, NEW kind, NEW srv, NEW tok, Call(c, kind, srv, tok)
      PROVE  Accounted'
  <2>1. /\ \A d \in Callers \ {c} : call'[d] = call[d] /\ reply'[d] = reply[d]
        /\ UNCHANGED <<phase, job, sessions, held, lost>> /\ call[c].pc = "idle"
    BY <1>3 DEF Call, TInv, TypeOK
  <2>2. QED
    BY <2>1, AccountedCaller DEF Awaits
<1>4. ASSUME NEW c \in Callers, Enqueue(c) \/ SendFails(c) PROVE Accounted'
  <2>1. /\ \A d \in Callers \ {c} : call'[d] = call[d]
        /\ UNCHANGED <<phase, job, sessions, reply, held, lost>> /\ call[c].pc = "sending"
    BY <1>4 DEF Enqueue, SendFails, TInv, TypeOK
  <2>2. QED
    BY <2>1, AccountedCaller DEF Awaits
<1>5. ASSUME NEW c \in Callers, Receive(c) PROVE Accounted'
  <2>1. /\ \A d \in Callers \ {c} : call'[d] = call[d] /\ held'[d] = held[d]
        /\ held[c] \subseteq held'[c]
        /\ UNCHANGED <<phase, job, sessions, reply, lost>>
    BY <1>5 DEF Receive, TInv, TypeOK
  <2>2. \A t : Awaits(t, c) => t \in held'[c]
    BY <1>5 DEF Receive, Awaits, TInv, TypeOK
  <2>3. QED
    BY <2>1, <2>2, AccountedCaller
<1>6. ASSUME NEW c \in Callers, Cancel(c) PROVE Accounted'
  <2>1. /\ \A d \in Callers \ {c} : call'[d] = call[d]
        /\ lost \subseteq lost'
        /\ UNCHANGED <<phase, job, sessions, reply, held>>
    BY <1>6 DEF Cancel, TInv, TypeOK
  <2>2. \A t : Awaits(t, c) => t \in lost'
    BY <1>6 DEF Cancel, Awaits
  <2>3. QED
    BY <2>1, <2>2, AccountedCaller
<1>7. CASE Recv \/ Exit \/ ListServers \/ SkipAbandoned \/ Lookup \/ Operate \/ Reconnect
           \/ Retry \/ Page \/ Close
  <2>1. UNCHANGED <<call, reply, held, lost>> /\ sessions' \subseteq sessions
    BY <1>7 DEF Recv, Exit, ListServers, SkipAbandoned, Lookup, Operate, Reconnect, Retry,
      Page, Close, CloseSession
  <2>2. phase # "reply" /\ phase' # "unwind"
    BY <1>7 DEF Recv, Exit, ListServers, SkipAbandoned, Lookup, Operate, Reconnect, Retry,
      Page, Close, Done
  <2>3. QED
    BY <2>1, <2>2, AccountedShrink
<1>8. CASE Panic \/ Unwind
  <2>1. sessions' = {}
    BY <1>8 DEF Panic, Unwind, Accounted
  <2>2. QED
    BY <2>1 DEF Accounted, SessionsAccountedFor
<1>9. QED
  BY <1>1, <1>2, <1>3, <1>4, <1>5, <1>6, <1>7, <1>8, AccountedReply, AccountedOpen
  DEF Next, CallerStep, WorkerStep

\* No caller leaves a session behind, wherever it is cancelled, but in the one
\* window between the worker's send and the caller's next poll
\* (com_worker.rs, the is_closed checks and the close after a failed send).
THEOREM SessionsHaveOwners == Spec => []SessionsAccountedFor
<1>1. Init => FlightInv /\ Accounted
  BY DEF Init, FlightInv, Unsent, Accounted, SessionsAccountedFor, Serving
<1>2. Accounted => SessionsAccountedFor
  BY DEF Accounted
<1>3. QED
  BY <1>1, <1>2, TInvInit, TInvNext, FlightNext, AccountedNext, PTL DEF Spec

=============================================================================
