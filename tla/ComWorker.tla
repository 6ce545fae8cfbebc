------------------------------ MODULE ComWorker ------------------------------
(***************************************************************************)
(* The native worker of opc-da-client: asynchronous callers of OpcDaClient *)
(* build a request with a one-shot reply channel and push it into a        *)
(* bounded channel (ComWorker::send_request); one thread takes requests in *)
(* order, keeps a cache of connections by server and a table of browse     *)
(* sessions, and answers through the one-shot (ComWorker::start).          *)
(*                                                                         *)
(* What interleaves: callers, which may be cancelled (future dropped,      *)
(* timeout) at every await; the worker between native calls; OPC servers,  *)
(* which may stop and come back, leaving cached handles stale; and time,   *)
(* which lets sessions go idle.                                            *)
(***************************************************************************)
EXTENDS Naturals, Sequences, FiniteSets

CONSTANTS
  Callers,      \* tasks that use one OpcDaClient
  Servers,      \* ProgIDs
  Kinds,        \* the request kinds the callers issue
  Capacity,     \* mpsc::channel(32)
  MaxSessions,  \* MAX_BROWSE_SESSIONS
  MaxCalls,     \* bound: calls per caller
  MaxRestarts,  \* bound: times each server stops
  Nil           \* Option::None

AllKinds == {"list", "read", "write", "browse", "caps", "open", "page", "close"}
CachedKinds == {"read", "write", "browse", "caps"}

\* Operations with an effect outside the worker: a value written, tags pushed
\* into the caller's sink.
EffectKinds == {"write", "browse"}

ASSUME ConstantsAssumption ==
  /\ Kinds \subseteq AllKinds
  /\ Capacity \in Nat \ {0}
  /\ MaxSessions \in Nat \ {0}
  /\ MaxCalls \in Nat
  /\ MaxRestarts \in Nat
  /\ IsFiniteSet(Callers)
  /\ Nil \notin Servers
  /\ Nil \notin Nat
  /\ Nil \notin Callers \X Nat
  /\ Nil \notin {"ok", "rejected", "connErr", "err", "dropped"}

Token == Callers \X Nat

Request == [c : Callers, n : Nat, kind : AllKinds,
            srv : Servers \cup {Nil}, tok : Token \cup {Nil}]

\* Mutation: the token is a property of the client, not of the session.
TokenPerCaller(r) == <<r.c, 1>>

\* A session token is a fresh UUID: it is named by the request that opens the
\* session.
TokenOf(r) == <<r.c, r.n>>

\* What an operation returns: Ok, Ok(WriteResult { success: false }), an error
\* that is_connection_error classifies, any other error.
Outcome == {"ok", "rejected", "connErr", "err"}

VARIABLES
  call,      \* send_request frame of each caller: where it waits, call number
  reply,     \* the one-shot of the caller's current call
  held,      \* session tokens each caller has received
  client,    \* "open" or "dropped" (the OpcDaClient and its Sender)
  chan,      \* the mpsc channel
  phase,     \* program counter of the worker thread
  job,       \* the request being served and the progress of its dispatch
  cache,     \* HashMap<ProgID, Server>: the incarnation a handle belongs to
  sessions,  \* open browse sessions
  lapsed,    \* those whose idle time has reached the timeout
  up,        \* external: whether each OPC server runs
  gen,       \* external: incarnation of each OPC server
  lost       \* history: tokens sent by the worker, dropped unread by a cancel

callerVars == <<call, reply, held, client>>
workerVars == <<chan, phase, job, cache>>
sessionVars == <<sessions, lapsed>>
serverVars == <<up, gen>>
vars == <<callerVars, workerVars, sessionVars, serverVars, lost>>

\* A request taken from the channel; faulted: its server was down, or went
\* down, while it was served.
NewJob(r, faulted) == [req |-> r, conn |-> Nil, attempts |-> 0, effects |-> 0,
                       result |-> Nil, faulted |-> faulted]

NoJob == NewJob(Nil, FALSE)

Init ==
  /\ call = [c \in Callers |-> 
       [pc |-> "idle", n |-> 0, kind |-> Nil, srv |-> Nil, tok |-> Nil]]
  /\ reply = [c \in Callers |-> Nil]
  /\ held = [c \in Callers |-> {}]
  /\ client = "none"
  /\ chan = <<>>
  /\ phase = "boot"
  /\ job = NoJob
  /\ cache = [s \in Servers |-> Nil]
  /\ sessions = {}
  /\ lapsed = {}
  /\ up \in [Servers -> BOOLEAN]
  /\ gen = [s \in Servers |-> 0]
  /\ lost = {}

-----------------------------------------------------------------------------
(***************************************************************************)
(* Construction. OpcDaClient::new waits for the worker's COM               *)
(* initialisation; when it fails, OpcDaClient::default keeps a client      *)
(* around a ComWorker::closed handle whose receiver is already gone.       *)
(***************************************************************************)

\* The thread initialised COM, start returned Ok.
Start ==
  /\ phase = "boot"
  /\ phase' = "recv"
  /\ client' = "open"
  /\ UNCHANGED <<call, reply, held, chan, job, cache, sessionVars, serverVars, lost>>

\* COM initialisation failed and the client is the closed one.
Closed ==
  /\ phase = "boot"
  /\ phase' = "closed"
  /\ client' = "open"
  /\ UNCHANGED <<call, reply, held, chan, job, cache, sessionVars, serverVars, lost>>

\* The Receiver half of the channel still exists.
ReceiverAlive == phase \notin {"boot", "closed", "finished"}

-----------------------------------------------------------------------------
(***************************************************************************)
(* Callers.                                                                *)
(***************************************************************************)

\* What a caller may ask: a token it holds for page and close, a server for
\* the others. Tokens are plain values: a closed or expired one may be reused.
Params(c, kind) ==
  IF kind \in {"page", "close"}
  THEN {<<Nil, t>> : t \in held[c]}
  ELSE IF kind = "list" THEN {<<Nil, Nil>>} ELSE {<<s, Nil>> : s \in Servers}

\* send_request up to the await on sender.send. A finished worker thread is
\* noticed here and the call fails at once.
Call(c, kind, srv, tok) ==
  /\ client = "open"
  /\ call[c].pc = "idle"
  /\ call[c].n < MaxCalls
  /\ call' = [call EXCEPT ![c] =
       [pc |-> IF phase = "finished" THEN "idle" ELSE "sending",
        n |-> @.n + 1, kind |-> kind, srv |-> srv, tok |-> tok]]
  /\ reply' = [reply EXCEPT ![c] = Nil]
  /\ UNCHANGED <<held, client, workerVars, sessionVars, serverVars, lost>>

\* The request of caller c's current call.
RequestOf(c) == [c |-> c, n |-> call[c].n, kind |-> call[c].kind,
                 srv |-> call[c].srv, tok |-> call[c].tok]

\* Mutation: an unbounded channel.
EnqueueUnbounded(c) ==
  /\ call[c].pc = "sending"
  /\ ReceiverAlive
  /\ chan' = Append(chan, RequestOf(c))
  /\ call' = [call EXCEPT ![c].pc = "awaiting"]
  /\ UNCHANGED <<reply, held, client, phase, job, cache, sessionVars, serverVars, lost>>

\* A slot of the channel is free: the send completes and the caller awaits.
Enqueue(c) ==
  /\ call[c].pc = "sending"
  /\ ReceiverAlive
  /\ Len(chan) < Capacity
  /\ chan' = Append(chan, RequestOf(c))
  /\ call' = [call EXCEPT ![c].pc = "awaiting"]
  /\ UNCHANGED <<reply, held, client, phase, job, cache, sessionVars, serverVars, lost>>

\* The receiver is gone: "COM worker channel closed".
SendFails(c) ==
  /\ call[c].pc = "sending"
  /\ ~ReceiverAlive
  /\ call' = [call EXCEPT ![c].pc = "idle"]
  /\ UNCHANGED <<reply, held, client, workerVars, sessionVars, serverVars, lost>>

\* The caller's task is polled and finds the one-shot filled, or its sender
\* dropped ("COM worker shut down during request").
Receive(c) ==
  /\ call[c].pc = "awaiting"
  /\ reply[c] # Nil
  /\ call' = [call EXCEPT ![c].pc = "idle"]
  /\ held' = IF call[c].kind = "open" /\ reply[c] = "ok"
             THEN [held EXCEPT ![c] = @ \cup {TokenOf(RequestOf(c))}]
             ELSE held
  /\ UNCHANGED <<reply, client, workerVars, sessionVars, serverVars, lost>>

\* The caller's future is dropped. A request not yet in the channel vanishes;
\* one that is stays there with a closed one-shot; a reply that was already
\* delivered is dropped unread.
Cancel(c) ==
  /\ call[c].pc \in {"sending", "awaiting"}
  /\ call' = [call EXCEPT ![c].pc = "idle"]
  /\ lost' = IF call[c].pc = "awaiting" /\ call[c].kind = "open" /\ reply[c] = "ok"
             THEN lost \cup {TokenOf(RequestOf(c))}
             ELSE lost
  /\ UNCHANGED <<reply, held, client, workerVars, sessionVars, serverVars>>

\* Dropping the client drops the only Sender. Every call borrows the client,
\* so no call is in progress.
DropClient ==
  /\ client = "open"
  /\ \A c \in Callers : call[c].pc = "idle"
  /\ client' = "dropped"
  /\ UNCHANGED <<call, reply, held, workerVars, sessionVars, serverVars, lost>>

-----------------------------------------------------------------------------
(***************************************************************************)
(* The worker thread.                                                      *)
(***************************************************************************)

\* A request is out of the channel and not yet answered.
Serving == {"dispatch", "operate", "reconnect", "retry", "reply"}

\* The one-shot of request r still has its receiver (not reply.is_closed()).
Live(r) == call[r.c].pc = "awaiting" /\ call[r.c].n = r.n

\* while let Some(req) = rx.blocking_recv(): the expired sessions go first.
Recv ==
  /\ phase = "recv"
  /\ chan # <<>>
  /\ LET r == Head(chan) IN job' = NewJob(r, r.srv # Nil /\ ~up[r.srv])
  /\ chan' = Tail(chan)
  /\ phase' = "dispatch"
  /\ sessions' = sessions \ lapsed
  /\ lapsed' = {}
  /\ UNCHANGED <<callerVars, cache, serverVars, lost>>

\* Mutation: the thread waits for its sessions to be closed.
ExitWhenUnused ==
  /\ phase = "recv"
  /\ chan = <<>>
  /\ client = "dropped"
  /\ sessions = {}
  /\ phase' = "finished"
  /\ cache' = [s \in Servers |-> Nil]
  /\ UNCHANGED <<callerVars, chan, job, sessionVars, serverVars, lost>>

\* The channel is closed and drained: the loop ends, and the thread drops the
\* sessions and the cache before its COM guard.
Exit ==
  /\ phase = "recv"
  /\ chan = <<>>
  /\ client = "dropped"
  /\ phase' = "finished"
  /\ sessions' = {}
  /\ lapsed' = {}
  /\ cache' = [s \in Servers |-> Nil]
  /\ UNCHANGED <<callerVars, chan, job, serverVars, lost>>

\* The arm of the match ends with this result.
Done(result) ==
  /\ job' = [job EXCEPT !.result = result]
  /\ phase' = "reply"

\* ListServers: registry enumeration, no connection.
ListServers ==
  /\ phase = "dispatch"
  /\ job.req.kind = "list"
  /\ \E result \in {"ok", "err"} : Done(result)
  /\ UNCHANGED <<callerVars, chan, cache, sessionVars, serverVars, lost>>

\* BrowseCapabilities and OpenBrowseSession skip a request whose caller is gone.
SkipAbandoned ==
  /\ phase = "dispatch"
  /\ job.req.kind \in {"caps", "open"}
  /\ ~Live(job.req)
  /\ phase' = "recv"
  /\ job' = NoJob
  /\ UNCHANGED <<callerVars, chan, cache, sessionVars, serverVars, lost>>

-----------------------------------------------------------------------------
(***************************************************************************)
(* dispatch_with_retry.                                                    *)
(***************************************************************************)

\* Mutation: no error is retried (an HRESULT the classification misses).
NothingRetried(result) == FALSE

\* Mutation: every error is retried.
EveryErrorRetried(result) == result \in {"connErr", "err"}

\* is_connection_error: the four HRESULTs of a lost or unstartable server.
IsConnectionError(result) == result = "connErr"

\* A handle works while the incarnation of the server it was made for runs.
Works(s, conn) == up[s] /\ conn = gen[s]

\* Cache lookup. Read, write and recursive browse do not look at the reply.
Lookup ==
  /\ phase = "dispatch"
  /\ job.req.kind \in CachedKinds
  /\ job.req.kind = "caps" => Live(job.req)
  /\ LET s == job.req.srv IN
       \/ /\ cache[s] # Nil
          /\ phase' = "operate"
          /\ UNCHANGED <<job, cache>>
       \/ /\ cache[s] = Nil
          /\ up[s]
          /\ cache' = [cache EXCEPT ![s] = gen[s]]
          /\ phase' = "operate"
          /\ UNCHANGED job
       \/ /\ cache[s] = Nil
          /\ Done(IF up[s] THEN "err" ELSE "connErr")
          /\ UNCHANGED cache
  /\ UNCHANGED <<callerVars, chan, sessionVars, serverVars, lost>>

\* One run of `operation` on handle conn of server s, ending with `result`
\* after e effects.
\*   The server lives: an error may follow the effect (an empty error array
\* after the write, an enumeration that breaks off), and a browse may find no
\* tag.
\*   The server dies before the last of its native calls, before or after the
\* effect (a later death is Crash). A recursive browse only logs what happens
\* from then on: a branch enumeration that breaks off, a refused DOWN or UP, an
\* error below the root. It may answer Ok with the tags it has, and the handle
\* stays.
\*   A stale handle fails at the first native call, before any effect. Only
\* the capabilities may be answered without one, for a server without DA 2.
RunOperation(s, conn, result, e) ==
  /\ e = 1 => job.req.kind \in EffectKinds
  /\ \/ /\ Works(s, conn)
        /\ UNCHANGED serverVars
        /\ \/ result = "ok" /\ (job.req.kind = "write" => e = 1)
           \/ result = "rejected" /\ job.req.kind = "write" /\ e = 0
           \/ result = "err"
     \/ /\ Works(s, conn)
        /\ gen[s] < MaxRestarts
        /\ up' = [up EXCEPT ![s] = FALSE]
        /\ gen' = [gen EXCEPT ![s] = @ + 1]
        /\ \/ result = "connErr"
           \/ result = "ok" /\ job.req.kind = "browse"
     \/ /\ ~Works(s, conn)
        /\ UNCHANGED serverVars
        /\ result = "connErr" /\ e = 0
     \/ /\ job.req.kind = "caps"
        /\ UNCHANGED serverVars
        /\ result \in {"ok", "err"}

\* The first attempt, on the cached handle. A connection error evicts it.
Operate ==
  /\ phase = "operate"
  /\ LET s == job.req.srv IN
       \E result \in Outcome, e \in {0, 1} :
         /\ RunOperation(s, cache[s], result, e)
         /\ job' = [job EXCEPT
              !.attempts = 1,
              !.effects = e,
              !.faulted = @ \/ up'[s] # up[s],
              !.result = IF IsConnectionError(result) THEN Nil ELSE result]
         /\ IF IsConnectionError(result)
            THEN /\ cache' = [cache EXCEPT ![s] = Nil]
                 /\ phase' = "reconnect"
            ELSE /\ phase' = "reply"
                 /\ UNCHANGED cache
  /\ UNCHANGED <<callerVars, chan, sessionVars, lost>>

\* connector.connect(server_name) after the eviction.
Reconnect ==
  /\ phase = "reconnect"
  /\ LET s == job.req.srv IN
       \/ /\ up[s]
          /\ job' = [job EXCEPT !.conn = gen[s]]
          /\ phase' = "retry"
       \/ Done(IF up[s] THEN "err" ELSE "connErr")
  /\ UNCHANGED <<callerVars, chan, cache, sessionVars, serverVars, lost>>

\* The second and last attempt; the fresh handle enters the cache whatever
\* its result.
Retry ==
  /\ phase = "retry"
  /\ LET s == job.req.srv IN
       \E result \in Outcome, e \in {0, 1} :
         /\ RunOperation(s, job.conn, result, e)
         /\ job' = [job EXCEPT
              !.attempts = 2,
              !.effects = @ + e,
              !.faulted = @ \/ up'[s] # up[s],
              !.result = result]
         /\ cache' = [cache EXCEPT ![s] = job.conn]
  /\ phase' = "reply"
  /\ UNCHANGED <<callerVars, chan, sessionVars, lost>>

-----------------------------------------------------------------------------
(***************************************************************************)
(* Browse sessions (BrowseSessions::open, page, close). What a page holds  *)
(* is outside this module.                                                 *)
(***************************************************************************)

\* connect, then open: expired sessions are dropped, the table has a limit,
\* and capability detection may fail.
Open ==
  /\ phase = "dispatch"
  /\ job.req.kind = "open"
  /\ Live(job.req)
  /\ \/ Done("err") /\ UNCHANGED sessionVars
     \/ /\ up[job.req.srv]
        /\ lapsed' = {}
        /\ \/ /\ Cardinality(sessions \ lapsed) < MaxSessions
              /\ sessions' = (sessions \ lapsed) \cup {TokenOf(job.req)}
              /\ Done("ok")
           \/ /\ sessions' = sessions \ lapsed
              /\ Done("err")
  /\ UNCHANGED <<callerVars, chan, cache, serverVars, lost>>

\* sessions.close(token)
CloseSession(t) ==
  /\ sessions' = (sessions \ lapsed) \ {t}
  /\ lapsed' = {}

\* BrowsePage: a caller that is gone closes its session; otherwise the page is
\* browsed (page itself drops expired sessions first).
Page ==
  /\ phase = "dispatch"
  /\ job.req.kind = "page"
  /\ \/ /\ ~Live(job.req)
        /\ CloseSession(job.req.tok)
        /\ phase' = "recv"
        /\ job' = NoJob
     \/ /\ Live(job.req)
        /\ sessions' = sessions \ lapsed
        /\ lapsed' = {}
        /\ \/ job.req.tok \in sessions' /\ Done("ok")
           \/ Done("err")
  /\ UNCHANGED <<callerVars, chan, cache, serverVars, lost>>

\* CloseBrowseSession
Close ==
  /\ phase = "dispatch"
  /\ job.req.kind = "close"
  /\ CloseSession(job.req.tok)
  /\ Done(IF job.req.tok \in sessions \ lapsed THEN "ok" ELSE "err")
  /\ UNCHANGED <<callerVars, chan, cache, serverVars, lost>>

-----------------------------------------------------------------------------
\* Mutation: the result of reply.send is ignored, as in the other arms.
ReplyIgnored ==
  /\ phase = "reply"
  /\ reply' = IF Live(job.req) THEN [reply EXCEPT ![job.req.c] = job.result] ELSE reply
  /\ phase' = "recv"
  /\ job' = NoJob
  /\ UNCHANGED <<call, held, client, chan, cache, sessionVars, serverVars, lost>>

\* reply.send(result): into the one-shot, or, when the receiver is gone,
\* nowhere; a session opened or paged for a caller that left is then closed.
Reply ==
  /\ phase = "reply"
  /\ LET r == job.req IN
       \/ /\ Live(r)
          /\ reply' = [reply EXCEPT ![r.c] = job.result]
          /\ UNCHANGED sessionVars
       \/ /\ ~Live(r)
          /\ UNCHANGED reply
          /\ CASE r.kind = "open" /\ job.result = "ok" -> CloseSession(TokenOf(r))
               [] r.kind = "page" -> CloseSession(r.tok)
               [] OTHER -> UNCHANGED sessionVars
  /\ phase' = "recv"
  /\ job' = NoJob
  /\ UNCHANGED <<call, held, client, chan, cache, serverVars, lost>>

\* handle_read indexes the server's arrays without a length check: a short
\* answer of a running server panics the thread. Unwinding drops the request with its one-shot,
\* then the sessions and the cache.
Panic ==
  /\ phase \in {"operate", "retry"}
  /\ job.req.kind = "read"
  /\ LET s == job.req.srv IN Works(s, IF phase = "operate" THEN cache[s] ELSE job.conn)
  /\ phase' = "unwind"
  /\ reply' = IF Live(job.req) THEN [reply EXCEPT ![job.req.c] = "dropped"] ELSE reply
  /\ job' = NoJob
  /\ sessions' = {}
  /\ lapsed' = {}
  /\ cache' = [s \in Servers |-> Nil]
  /\ UNCHANGED <<call, held, client, chan, serverVars, lost>>

\* Mutation: the receiver outlives the thread.
UnwindKeepsQueue ==
  /\ phase = "unwind"
  /\ phase' = "finished"
  /\ UNCHANGED <<callerVars, chan, job, cache, sessionVars, serverVars, lost>>

\* The receiver goes with the closure: what is queued is dropped, and every
\* one-shot in it.
Unwind ==
  /\ phase = "unwind"
  /\ phase' = "finished"
  /\ chan' = <<>>
  /\ reply' = [c \in Callers |->
       IF \E i \in 1..Len(chan) : chan[i].c = c /\ Live(chan[i])
       THEN "dropped" ELSE reply[c]]
  /\ UNCHANGED <<call, held, client, job, cache, sessionVars, serverVars, lost>>

-----------------------------------------------------------------------------
(***************************************************************************)
(* Time and OPC servers.                                                   *)
(***************************************************************************)

\* A session's idle time reaches BROWSE_SESSION_IDLE_TIMEOUT.
Lapse(t) ==
  /\ t \in sessions \ lapsed
  /\ lapsed' = lapsed \cup {t}
  /\ UNCHANGED <<callerVars, workerVars, sessions, serverVars, lost>>

\* A server stops; handles to this incarnation are stale for ever.
Crash(s) ==
  /\ up[s]
  /\ gen[s] < MaxRestarts
  /\ up' = [up EXCEPT ![s] = FALSE]
  /\ gen' = [gen EXCEPT ![s] = @ + 1]
  /\ job' = IF phase \in Serving /\ job.req.srv = s
            THEN [job EXCEPT !.faulted = TRUE] ELSE job
  /\ UNCHANGED <<callerVars, chan, phase, cache, sessionVars, lost>>

\* COM can activate the server again.
Restore(s) ==
  /\ ~up[s]
  /\ up' = [up EXCEPT ![s] = TRUE]
  /\ UNCHANGED <<callerVars, workerVars, sessionVars, gen, lost>>

-----------------------------------------------------------------------------
CallerStep(c) ==
  \/ \E kind \in Kinds : \E p \in Params(c, kind) : Call(c, kind, p[1], p[2])
  \/ Enqueue(c)
  \/ SendFails(c)
  \/ Receive(c)
  \/ Cancel(c)

WorkerStep ==
  \/ Recv \/ Exit \/ ListServers \/ SkipAbandoned
  \/ Lookup \/ Operate \/ Reconnect \/ Retry
  \/ Open \/ Page \/ Close \/ Reply
  \/ Panic \/ Unwind

Environment ==
  \/ \E t \in sessions : Lapse(t)
  \/ \E s \in Servers : Crash(s) \/ Restore(s)

Next ==
  \/ Start \/ Closed
  \/ \E c \in Callers : CallerStep(c)
  \/ DropClient
  \/ WorkerStep
  \/ Environment

Spec == Init /\ [][Next]_vars

(***************************************************************************)
(* Fairness: the worker thread is scheduled and COM calls return; a task   *)
(* that can be polled is polled; a sender waiting for a slot gets one      *)
(* (Tokio's channel semaphore is FIFO). Nothing obliges a caller to call,  *)
(* to cancel or to drop the client, nor a server to come back.             *)
(***************************************************************************)
Fairness ==
  /\ WF_vars(WorkerStep)
  /\ \A c \in Callers :
       /\ SF_vars(Enqueue(c))
       /\ WF_vars(SendFails(c))
       /\ WF_vars(Receive(c))

FairSpec == Spec /\ Fairness

-----------------------------------------------------------------------------
(***************************************************************************)
(* Properties.                                                             *)
(***************************************************************************)

CallFrame == [pc : {"idle", "sending", "awaiting"}, n : Nat,
              kind : AllKinds \cup {Nil},
              srv : Servers \cup {Nil}, tok : Token \cup {Nil}]

Job == [req : Request \cup {Nil}, conn : Nat \cup {Nil}, attempts : 0..2,
        effects : 0..2, result : Outcome \cup {Nil}, faulted : BOOLEAN]

Phase == {"boot", "closed", "recv", "unwind", "finished"} \cup Serving

\* Types, and the channel's capacity (mpsc::channel(32)).
TypeOK ==
  /\ call \in [Callers -> CallFrame]
  /\ reply \in [Callers -> Outcome \cup {Nil, "dropped"}]
  /\ held \in [Callers -> SUBSET Token]
  /\ client \in {"none", "open", "dropped"}
  /\ chan \in Seq(Request)
  /\ Len(chan) <= Capacity
  /\ phase \in Phase
  /\ job \in Job
  /\ cache \in [Servers -> Nat \cup {Nil}]
  /\ sessions \in SUBSET Token
  /\ lapsed \in SUBSET Token
  /\ up \in [Servers -> BOOLEAN]
  /\ gen \in [Servers -> Nat]
  /\ lost \in SUBSET Token

\* The token of an open request that the worker has opened and not yet
\* answered, or answered and the caller not yet read.
InDelivery(t) ==
  \/ phase = "reply" /\ job.req.kind = "open" /\ job.result = "ok" /\ TokenOf(job.req) = t
  \/ \E c \in Callers : /\ call[c].pc = "awaiting" /\ call[c].kind = "open"
                        /\ reply[c] = "ok" /\ t = TokenOf(RequestOf(c))

\* Every open session belongs to a caller that received its token, is on its
\* way to one, or was lost in the only window the code leaves: the worker's
\* reply.send succeeded and the caller was cancelled before reading it. So a
\* caller cancelled at any other moment leaves no session behind
\* (com_worker.rs: the is_closed checks and the close after a failed send).
SessionsAccountedFor ==
  \A t \in sessions : t \in lost \/ InDelivery(t) \/ \E c \in Callers : t \in held[c]

\* At no moment are more than MAX_BROWSE_SESSIONS connections kept for
\* sessions, whatever expires, closes or opens in between.
SessionsBounded == Cardinality(sessions) <= MaxSessions

\* A token that was handed out and whose session is gone (closed, expired,
\* dropped with an abandoned page, lost with the worker) never names a
\* session again.
TokensNeverRevive ==
  [][\A t \in lost \cup UNION {held[c] : c \in Callers} :
       t \notin sessions => t \notin sessions']_vars

\* The cache is transparent: a caller sees a connection error only if its
\* server was down, or went down, while the worker served the request. A
\* stale handle left by an earlier incarnation is replaced behind its back.
StaleHandleTransparent ==
  phase = "reply" /\ job.result = "connErr" => job.faulted

\* A write or a recursive browse takes effect twice only when its server failed
\* during the request (connection.rs retries no other error), and a write the
\* server rejected left nothing behind unless the server failed before it was
\* asked again.
EffectsExplained ==
  phase = "reply" /\ job.req.kind \in EffectKinds =>
    /\ job.effects = 2 => job.faulted
    /\ job.result = "rejected" => job.effects = 0 \/ job.faulted

\* Every call that is not cancelled returns: with a result, or with an error
\* when the worker is closed, panics before or after the request is queued, or
\* has finished.
CallsReturn ==
  \A c \in Callers : call[c].pc # "idle" ~> call[c].pc = "idle"

\* Dropping the client ends the worker thread, after the requests still queued,
\* and releases its sessions and connections on it.
ShutdownReleases ==
  client = "dropped" ~>
    /\ phase \in {"finished", "closed"}
    /\ sessions = {}
    /\ \A s \in Servers : cache[s] = Nil

=============================================================================
