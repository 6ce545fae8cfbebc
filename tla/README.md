# Verification of opc-cli

TLA+ models of `opc-da-client` (the OPC DA client library) and of the terminal
program `opc-cli` built on it, the TLC configurations that check them on small
instances, and TLAPS proofs of their main invariants. `PROJECT.json` maps every
definition that models code to the lines it stands for.

Paths below are relative to `src/`; `D/` stands for `opc-da-client/src/`.

    tlc -workers 2 -config ComWorkerCache.cfg MCComWorker      # any run of the table below
    tlapm ComWorkerProofs.tla                                  # any proof module

## 1. The system

An application (here `opc-cli`) holds an `OpcDaClient`. Two kinds of native
threads do the COM work for it:

    caller tasks --bounded channel (32)--> COM worker thread --> OPC servers
        ^                                    cache, sessions
        +------------ one-shot replies ------+

    caller task --start_inventory--> inventory thread --> its own connection
        ^                              |
        +---- event channel (64) <-----+      control flags: cancel, pause

| Component | State | Operations | Hard behaviours | What makes it correct |
|---|---|---|---|---|
| COM worker: request channel, thread, cache (`D/com_worker.rs`, `com_worker/connection.rs`, `request.rs`, `backend/opc_da.rs`) | request channel, one-shots, `HashMap<ProgID, Server>`, browse session table | send a request, serve it, retry once on a connection error, reply, shut down | callers cancelled at every await; servers that stop and come back; a panic with requests queued | stale handles are invisible; effects are explained; every call returns; shutdown releases everything |
| Browse session table (`D/native_browse.rs`) | token to session, last use | open, page, close, expiry | abandoned callers; the limit | no session without an owner; tokens never revive; the limit holds |
| Native browse pages (`D/native_browse/*.rs`) | node tokens, continuations, DA 2 cursor and path | first page, continued page | cursor against path after a refused move; a continuation used twice; DA 3 falling back to DA 2 | each child once, under its own parent; the path is that of the cursor |
| Recursive browse (`D/com_worker/browse.rs`) | server cursor, collected tags | recursive descent with depth and tag limits | a refused UP; a failure deep down on a connection that stays cached | an `Ok` browse is complete; the next request finds the cursor at the root |
| Group reads and writes (`D/com_worker/read.rs`, `write.rs`) | groups on the cached connection | add a group and items, read or write, remove the group | early returns, rejected items, short arrays | a value is reported for its own tag; groups stay only after failures |
| Inventory traversal (`D/inventory.rs`, `D/inventory/*.rs`) | branch queue, seen item IDs, DA 2 cursor, terminal flags | DA 3 pages, DA 2 moves and enumeration, emission | servers that repeat tokens or names, refuse moves or turn out to be stubs; cancel anywhere | `complete` means nothing is missing; entries are where they say; the run ends |
| Inventory stream (`D/provider.rs`, `D/backend/opc_da.rs`) | the slot `inventory_active`, event channel, control flags, `terminal_event_seen` | start, receive, pause, resume, cancel, drop | start against end of another run; drop of a paused or blocked worker | one inventory at a time; one terminal event; drop returns |
| Inventory gate and telemetry (`D/inventory/boundary.rs`, `telemetry.rs`, `D/provider.rs`) | cancel and pause flags, two pacing atomics, start of the last operation, histograms | look before each native call, wait, record, report a slice | controls changed between two looks or two atomics; bucket borders | no operation after a cancel; no operation too early; the report counts each operation once |
| Enumerators (`D/opc_da/client/iterator.rs`, `D/backend/connector.rs`, `D/inventory/iterator.rs`) | cached refills, last name, read-ahead value | next, has_more, drop | nulls for ever, counts beyond the array, errors with entries filled in | no value lost between refills; every string freed once; it ends |
| Terminal interface (`opc-cli/src/app.rs`, `main.rs`) | screen, lists, selection, pending one-shots, refresh target | keys, polls, refresh, back | results that arrive after the user went elsewhere | the values shown are the last ones asked for; loading ends; a write reaches the tag named |
| Rendering (`opc-cli/src/ui.rs`) | none | draw | none | - |
| Conversions and hints (`D/helpers.rs`, `D/errors.rs`) | none | pure functions | classification of errors | the four connection HRESULTs are retried, no other |
| Native wrappers (`D/opc_da/client/traits`, `v1`, `v2`, `v3`, `D/opc_da/com_utils.rs`, `D/backend/connector.rs`) | interfaces of an object; arrays the server allocated | one FFI call each | slices of different lengths; null arrays; a failure with memory handed over; a conversion that stops half way | no read past an array; each block freed once |
| Apartment guard, typedefs, bindings | none | - | - | - |

Callers and the COM worker share nothing but the channel and the one-shots. The
inventory thread shares with its consumer the event channel, the control flags
and the slot. The session table, the cache, and each browse cursor belong to one
thread. The inventory has a connection of its own, so that only servers (which
are external to the models) connect the two halves.

## 2. What is modelled

### ComWorker (with MCComWorker, ComWorkerProofs)

| TLA+ | Code |
|---|---|
| `call`, `reply`, `held` | the `send_request` future of a caller, its one-shot, the tokens it was given |
| `chan`, `phase`, `job` | the `mpsc` channel, the point the thread is at, the request being served |
| `cache` | `HashMap<String, C::Server>`; a handle is the incarnation of the server it was made for |
| `sessions`, `lapsed` | the session table; `lapsed` are those idle past the timeout, which disappear at the next clean-up |
| `up`, `gen` | external: whether a server runs, and its incarnation |
| `lost` | history: tokens that were delivered and dropped unread |
| `Start`, `Closed` | `ComWorker::start`; `OpcDaClient::default` over `ComWorker::closed` after a failed COM initialisation |
| `Call`, `Enqueue`, `SendFails`, `Receive`, `Cancel`, `DropClient` | the awaits of `send_request` and dropping the future or the client |
| `Recv` ... `Reply`, `Exit` | the worker loop: clean-up, one arm per request kind, reply |
| `Lookup`, `Operate`, `Reconnect`, `Retry` | the four native steps of `dispatch_with_retry` |
| `Panic`, `Unwind` | the out-of-range index of `handle_read`, and what unwinding drops, in order |
| `Lapse`, `Crash`, `Restore` | time and OPC servers |

What an operation does inside a server is one nondeterministic outcome: `ok`, a
rejected write, a connection error, another error, each with or without the
effect where the code can return it after the effect took place. A server that
stops during an operation makes it a connection error, except for the recursive
browse, which swallows what happens below the root and may answer `ok`, with or
without tags; and the capabilities may be answered without a native call, so
that a stale handle goes unnoticed.

### InventoryTraversal (with MCInventoryTraversal, InventoryTraversalProofs)

One run of `run_inventory_at_root` against a server whose namespace is a tree of
named nodes with item IDs.

| TLA+ | Code |
|---|---|
| `queue`, `work` | the `VecDeque<BranchWork>` and the `BranchWork` being read |
| `nodes`, `batch` | the nodes of the current page and its batch size |
| `path`, `cursor` | `current_da2_path`; external: where the server's cursor really is |
| `seen`, `emitted`, `skips`, `terminal`, `outcome` | `seen_items`, the entries sent, the two skip counters, the flags of `InventoryCompleted`, the end of the run |
| `Start`, `Pop`, `StopAtBoundary`, `Finish` | capability detection, the loop, `InventoryBoundary` |
| `Da3LastPage`, `Da3Page`, `Da3PageFails`, `FallBack` | `next_da3_page` and its progress checks; the switch to DA 2 |
| `BrowseTo`, `BrowseToRefused`, `WalkUp`, `WalkDown`, `SkipBranch`, `Arrive`, `MoveFails` | `move_to_da2_path` and the `InvalidDa2Branch` path |
| `Begin`, `NextBranch`, ..., `HasMore` | `Da2PageState`: the two enumerators, merging, resolution, read-ahead |
| `Emit`, `EndSlice` | the emission loop: duplicates, limit, cancel, children, requeueing |
| `Cancel`, `CloseReceiver` | the consumer, at any moment |

A server misbehaves at most `MaxFaults` times: it refuses a call, repeats a name,
breaks an enumeration or fails to resolve a name. Repeated continuation tokens
and empty pages cost nothing, since the code must bound them itself. `EntriesInPlace` and
`NothingLostSilently` except `Misnamed`, the case of section 5 where a scope is looked
for under the name of another branch. Breadcrumb wording,
timings and progress counters are left out.

### InventoryStream (with InventoryStreamProofs)

The life of streams around that run, which here is a bounded number of native
calls that yield an event, fail or panic.

| TLA+ | Code |
|---|---|
| `active` | `inventory_active` |
| `stage` | `start_inventory_with_root` up to the returned stream; then the three steps of `Drop` |
| `worker`, `result` | the thread: boundary, sending (`blocking_send`), closure returned, guard dropped, sender dropped; the event it is about to send |
| `chan`, `open`, `control`, `seen` | the event channel, its receiver, `InventoryControl`, `terminal_event_seen` |
| `received` | history: terminal events and the end of the stream, as `message` returned them |
| `Claim`, `Spawn`, `SpawnFails` | `swap(true)`, the thread, giving the slot back |
| `NativeCall`, `Settle`, `Send`, `SendFails`, `ReleaseSlot`, `Exit` | the thread; `Settle` fixes the flags of `Completed` before the send that may still wait |
| `Message`, `Cancel`, `Pause`, `Resume`, `Close`, `CancelOnDrop`, `Join` | the consumer |

The thread's closure owns the guard as a local and the sender as a capture: locals
drop first, so the slot is free before the consumer can see the end of its
stream. `ReleaseSlot` and `Exit` are two steps for that reason.

### InventoryBoundary (with MCInventoryBoundary, InventoryBoundaryProofs)

What every native call of the inventory thread goes through, and what is
recorded of it. Time passes in ticks.

| TLA+ | Code |
|---|---|
| `cancelled`, `paused`, `cells`, `setter` | `InventoryControl`: two flags and the two atomics of the pacing; a thread between the two stores of `set_pacing` |
| `at`, `op`, `read`, `since` | the point of the gate the worker is at, the operation, the pacing it loaded, the age of `last_started` |
| `stage` | `run_inventory_at_root`: before the capabilities are known, the turn for the root, later turns |
| `ops`, `stats`, `report` | operations beyond `operations_before`, which each turn reads; `InventoryNativeOperationTelemetryCollector`; the observations taken |
| `samples`, `kept`, `held`, `gap`, `ran` | history: durations, operations of a turn that ended without a take, values of the two cells since the last look, the true distance of two starts; the running operation's age |
| `Control`, `Gate`, `Begin`, `Finish`, `EndSlice`, `Tick` | the consumer; the checks and waits in their order; an operation and its record; the report of the startup or of a slice; the clock |
| `FallBack` | the DA 3 page of the root failed and the loop goes on with DA 2: the count starts again, the record of the page stays |

The percentile of a histogram is checked in `ReportExact` against the nearest
rank of the durations themselves. A report holds one observation for every
operation of its turn, and at most one more: the page of a root that fell back.

### Namespace, Enumerator

What the three browsers share. `Namespace` is external: a tree of named nodes
with item IDs, and where a path of browse names leads. The recursions along the
tree (`TrailTo`, the names from the root to a node, and `Above`, the nodes on the way) are
recursive functions; `TreeAssumption` says that they are what their equations
say, which is so when every node hangs below the root. `NamesOf` is a listing in some
order: nothing may depend on the order a server has. `Enumerator` is
`GuardedBrowseIterator` (the same name too often in a row ends the enumeration)
behind `BufferedBrowseIterator` (one value read ahead, an error included), as
functions from an iterator to the outcomes of a fetch and their cost in faults.
After an error the code's iterator has lost a name or all the rest; only the recursive browse goes
on with it, so that this is said there (`AfterError` in Connection).
`MaxSame` is at least 2: with 1 every name would be given up at its first listing.

### BrowsePages (with MCBrowsePages, BrowsePagesProofs)

One browse session, one native call per step.

| TLA+ | Code |
|---|---|
| `backend`, `rootDone`, `path` | `BrowseBackend`, `da3_root_succeeded`, `current_path` |
| `nodes`, `conts` | node tokens and continuations of the session, bounded as in `native_browse/state.rs` |
| `req`, `page`, `ups`, `out` | the request, its `Da2PageState`, UPs made so far in this move, tokens of the reply so far |
| `cursor`, `profile`, `faults` | external: the server's cursor, what it exposes, how often it misbehaved |
| `chains`, `adrift` | history: what a first page and its continuations returned; an UP was refused |
| `Call` | `browse_page` up to the first native call: token and filter checks, a continuation taken out of the table |
| `Da3Page`, `Da3Fails`, `Incompatible` | `browse_da3`; the switch to DA 2 |
| `MoveUp` ... `MoveDownRefused`, `Begin`, `Arrive` | `move_to_da2_path`, creation of the enumerators |
| `NextBranch` ... `ProbeStrands` | names, merging, item IDs, and the DOWN and UP that probe for children |
| `EndPage` | `has_more` and the continuation |

### Connection (with MCConnection, ConnectionProofs)

One connection of the worker's cache and the requests that use it one after
another, so that what a request leaves behind is what the next one finds.

| TLA+ | Code |
|---|---|
| `open`, `job`, `answer` | the cache entry, the request with its attempt, its outcome |
| `stack`, `ret`, `tags` | the frames of `browse_recursive`, what the frame just left returned, the sink |
| `added`, `groups` | `valid_indices`; external: the groups on the connection |
| `cursor`, `flat`, `faults` | external |
| `Take`, `Connect`, `Fails` ... | `dispatch_with_retry` |
| `ListBranches`, `ListLeaves`, `Descend`, `Ascend`, their refusals | `browse_recursive` and the flat browse |
| `AddGroup`, `GroupUnusable`, `AddItems`, `AddItemsMismatch`, `Io`, `IoFails`, `RemoveGroup` | `handle_read` and `handle_write` |

### ValueStream, NativeIterator (with NativeProofs)

`ValueStream` is the abstract specification of an iterator: values are handed
over in batches and returned one by one, in order, each once; a value is lost
only together with an error; after the end nothing comes. `NativeIterator` is the four
iterators of `opc_da/client/iterator.rs`: the cache with its position, reported
count and `populated`, the guard counters, the strings owned by the cache.
`Stream == INSTANCE ValueStream WITH ...` maps what is left of the cache to the
values ahead and `done` to the end. `Refill` takes any batch a server can return:
an error with entries, nulls, no entry, one more than fit.

### NativeCalls (with NativeProofs)

A connected COM object and its calls. An object is the set of interfaces its
`TryFrom` requires and tries; a method is described by its interface, the slices
it reads, its length checks, and the arrays it returns (`Methods`, one record per
trait method). `AsyncIo2::write` is the one with two slices and no check: it passes
on any two lengths, and `WithinArrays` names it as the exception.

| TLA+ | Code |
|---|---|
| `object`, `offers`, `at`, `method`, `lens`, `outs` | the object, external: the interfaces of the server, the point of the call, the lengths of the caller's slices, the arrays that came back |
| `blocks`, `taken`, `stray` | external: blocks allocated and not freed; strings moved out of an array; history: something was freed twice |
| `Connect`, `Invoke`, `Answers`, `Fails`, `DropResults` | `TryFrom`; the checks and the FFI call; its two outcomes; the `RemoteArray`s going out of scope |
| `BadContinuation`, `Take`, `Convert` | `browse_da3` of the connector, which takes the strings of its elements over one by one |

### TuiApp (with MCTuiApp, TuiAppProofs)

The loop of `opc-cli`, its state, and the queue of calls it shares with the COM
worker.

| TLA+ | Code |
|---|---|
| `screen`, `servers`, `tags`, `marked`, `browsed`, `values`, `refresh`, `writing` | `current_screen`, `servers`, `tags`, `selected_tags`, `browsed_server`, `tag_values`, `refresh_server` with `refresh_tag_ids`, `write_tag_id` |
| `index`, `row`, `search` | `selected_index`, `table_state`, search mode with its matches; numbers count from 1, 0 is `None` |
| `rx` | the four `*_result_rx` |
| `calls` | external: the requests in the COM worker's channel, the first being served; `Unawaited` is one whose future or receiver is gone |
| `pc` | the point of the loop's iteration |
| `PollFetch`, `PollBrowse`, `PollRead`, `PollWrite`, `AutoRefresh` | the polls of `run_app`, in that order, and `maybe_auto_refresh` |
| `StartFetch` ... `ExitSearch` | `handle_key_event`, one action per effect of a key |
| `Served`, `TimesOut` | the worker's reply; `tokio::time::timeout` around the call, with the partial result of a browse |

A tag is a server and a number. A read result carries the server asked, the
server whose list the tag names came from, and the numbers, so that a mix-up is
visible. Which tags contain the query is any subset of the list. The worker serves
calls in order because all of them go through the client's one channel; ComWorker
has the details.

## 3. Runs

| Run | Configuration | Bounds | Shows |
|---|---|---|---|
| worker_cache | ComWorkerCache | 2 callers, 1 server that stops at most twice, 2 calls each, channel of 1 | `TypeOK` (capacity included); `StaleHandleTransparent`: a caller sees a connection error only if its server failed while it was served; `EffectsExplained`: an effect happens twice only across a server failure, and a rejected write left none unless its server failed |
| worker_live | ComWorkerLive | 2 callers, 2 calls each, channel of 2, a table of 1 | `SessionsAccountedFor`, `TokensNeverRevive`, `CallsReturn` (panic, closed worker and shutdown included), `ShutdownReleases` |
| inventory_traversal | InventoryTraversal | 8 nodes, 6 server profiles, 2 scopes, 3 limits, batch 1 or 2, 2 tokens, 2 faults | `NothingLostSilently`, `EntriesInPlace`, `EntriesOnceWithinLimit`, `SkipsExplained`, `FallBackBeforeEntries`, `Terminates` |
| inventory_stream | InventoryStream | 2 streams, channel of 1, 2 native calls | `SlotExact`, `OneTerminalLast`, `RejectionJustified`, `DropTerminates`, `TerminalArrives` |
| inventory_boundary | InventoryBoundary | 1 thread that sets one of 2 pacings, 3 operations of at most 2 ticks, 2 buckets, one kind of operation | `ReportExact`, `Paced`, `CancelStops`, `GateAnswers` |
| browse_pages | BrowsePages | 7 nodes, 6 server profiles, page sizes 0 to 2, 4 calls, 6 node tokens, 2 continuations, 1 fault | `ChildrenOnce`, `EntriesInPlace`, `CursorTracked`, `FallBackFirst` |
| connection | Connection | 9 nodes in 4 levels, depth limit 2, 7 requests of which 3 in a row, 3 faults | `BrowseComplete`, `CursorHome`, `GroupsExplained`, `ReadAligned` |
| native_iterator | NativeIterator | 4 iterators, 3 values of which 1 unreadable, a cache of 3 | `StringsReleased`, `Implements` (the refinement of ValueStream), `CallReturns` |
| native_calls | NativeCalls | slices and arrays up to 2 | `WithinArrays`, `BlocksReleased` |
| tui | TuiApp | 2 servers, 1 tag each, 2 calls in the worker's queue, a page of 2 | `TypeOK`, `RowStaysInTable` (no answer leaves a highlighted row the table lacks), `InputNamesShownRow`, `LatestReadShown`, `LoadingEnds` |
| tui_write_other_server | TuiAppWrite | the same | finding 1 |
| groups_leaked | ConnectionGroups | those of connection | finding 2 |

Each property of a passing run has a mutant in `PROJECT.json`: a plausible bug in
the mapped code under which TLC finds it violated.

Why the bounds are enough for what the runs claim:

* **Channels of one or two slots** make "full" and "waiting for a slot" ordinary
  states; nothing in the code depends on 32 or 64 otherwise. Two callers suffice
  for one queued behind another, and one cancelled while the other is served.
* **Two failures of a server** (`MaxRestarts`) allow a handle to go stale before a request and
  the retry's handle to break during it, the deepest case `dispatch_with_retry`
  distinguishes. A table of one session reaches its limit with two callers.
* **The namespaces** have equal names on both sides, so that a cursor one branch off
  resolves the same names to other items; enough levels that walks go up twice and
  down twice; a node that is branch and item. The inventory's has a leaf with the
  item ID of another, that of the pages a branch that cannot be entered, that of the
  connection a level below the depth limit and two items with one item ID. `MaxSame` of 2 or 3 keeps "equal
  names are fine, one more is not"; `MaxEmpty = 2` likewise. Limit 3 of the inventory is below the number of
  distinct item IDs from the root (4) and above that of the scope `b` (2).
* **Four page calls** are two parents browsed alternately, or one parent in pages
  of one with a continuation presented a second time. Six node tokens and two
  continuations are limits the four calls reach.
* **Three requests on a connection** are one that leaves something behind, one
  that is disturbed by it, one after that. Three faults are a refused UP, a
  failed request and its failed retry.
* **A cache of three** entries against batches of up to four: the batch that fills it, the
  one that does not, the one that claims more; three equal values may lie in one batch or across two.
* **Two pacings** that differ in both halves make a torn pair that paces less than
  either. `Longest` counts ticks up to one more than any pacing needs.
* **Two streams** are enough for one to be refused, or to start, in every window
  of the other.
* **One tag per server, two servers**: marks, matches and table rows are there or
  not, while the list of servers is longer than the table of values, so that
  clamping matters. Two calls in the queue let a write and a read, or two reads,
  overlap; `StartBesideEarlier` shows that this is enough to mix up two answers.
  Over a longer run the queue is refilled without a bound on the number of calls.

Deadlock checking is off in all runs: bounded numbers of calls, streams and runs
come to a legitimate end, and a system whose callers do nothing is at rest.
Blocking is covered by the liveness properties instead.

### Fairness

* `ComWorker`: weak fairness of the worker thread (it is scheduled, COM calls
  return), of a task's poll (`Receive`, `SendFails`); strong fairness of
  `Enqueue`, because Tokio's channel semaphore is FIFO, so that a waiting sender
  is not overtaken for ever. No caller is obliged to call, cancel or drop, and
  no server to come back.
* `InventoryTraversal`: weak fairness of the worker. A send may block on a
  full channel; here the consumer is taken to receive or to close.
* `InventoryStream` does not take that for granted: weak fairness of each thread,
  of the steps of a drop once it began, and of `Message` for a consumer that
  keeps its stream. The last one is an assumption on the application, needed by
  `TerminalArrives` only. `TerminalArrives` excludes a stream left paused.
* `InventoryBoundary`: weak fairness of the worker's steps through the gate and of
  the clock. Nothing is assumed of the threads that pause, resume or set pacings;
  `GateAnswers` speaks of runs in which the pausing comes to an end.
* `NativeIterator`: weak fairness of the thread inside a call of `next`. The
  server may answer with nulls for ever.
* `TuiApp`: weak fairness of the loop, which polls at least every 100 ms, and of
  the timeouts the program itself puts on its calls. The worker need not answer.

Native calls that never return are outside the models of the two threads: the code has no timeout
below COM, so neither a drop nor a shutdown could end then. `BrowsePages`,
`Connection` and `NativeCalls` state no liveness and need no fairness.

## 4. Proofs

| Theorem | States, for all constants that meet the module's assumptions |
|---|---|
| ComWorkerProofs!TypeCorrect | `Spec => []TypeOK` |
| ComWorkerProofs!StaleHandlesHidden | `Spec => []StaleHandleTransparent` |
| ComWorkerProofs!EffectsAreExplained | `Spec => []EffectsExplained` |
| ComWorkerProofs!SessionTableBounded | the session table never exceeds its limit |
| ComWorkerProofs!TokensStayClosed | `Spec => TokensNeverRevive`, an action property |
| ComWorkerProofs!SessionsHaveOwners | `Spec => []SessionsAccountedFor` |
| InventoryTraversalProofs!DeliveryIsExact | `Spec => []EntriesOnceWithinLimit` |
| InventoryTraversalProofs!FallBackIsFirst | `Spec => FallBackBeforeEntries`, an action property |
| InventoryTraversalProofs!EntriesAreInPlace | `Spec => []EntriesInPlace` |
| InventoryTraversalProofs!SkipsAreExplained | `Spec => []SkipsExplained` |
| InventoryTraversalProofs!CompleteMeansComplete | `Spec => []NothingLostSilently` |
| BrowsePagesProofs!ListsChildrenOnce | `Spec => []ChildrenOnce` |
| BrowsePagesProofs!ShownInPlace | `Spec => []EntriesInPlace` |
| BrowsePagesProofs!CursorIsTracked | `Spec => []CursorTracked` |
| BrowsePagesProofs!FallsBackFirst | `Spec => FallBackFirst`, an action property |
| InventoryStreamProofs!TypeCorrect | `Spec => []TypeOK` |
| InventoryStreamProofs!SlotIsExact | `Spec => []SlotExact` |
| InventoryStreamProofs!RejectionIsJustified | `Spec => RejectionJustified`, an action property |
| InventoryStreamProofs!TerminalIsLast | `Spec => []OneTerminalLast` |
| InventoryBoundaryProofs!CancelHolds | `Spec => CancelStops` |
| InventoryBoundaryProofs!PacingHolds | `Spec => Paced`, an action property |
| InventoryBoundaryProofs!ReportsAreExact | `Spec => []ReportExact` |
| ConnectionProofs!GroupsAreExplained | `Spec => []GroupsExplained` |
| ConnectionProofs!CursorComesHome | `Spec => []CursorHome` |
| ConnectionProofs!ReadIsAligned | `Spec => []ReadAligned` |
| ConnectionProofs!BrowseIsComplete | `Spec => []BrowseComplete` |
| NativeProofs!ImplementsStream | `Spec => Stream!Spec`, the refinement |
| NativeProofs!ReleasesStrings | `Spec => []StringsReleased` |
| NativeProofs!ReleasedHolds | `ObjectSpec => []BlocksReleased` |
| NativeProofs!WithinHolds | `ObjectSpec => []WithinArrays` |
| TuiAppProofs!Typed | `Spec => []TypeOK` |
| TuiAppProofs!RowInTable | `Spec => RowStaysInTable`, an action property |
| TuiAppProofs!InputIsShown | `Spec => []InputNamesShownRow` |
| TuiAppProofs!LatestReadIsShown | `Spec => LatestReadShown`, an action property |

Assumptions are the named ones of the modules (finite callers, positive
capacities, `Nil` distinct from what it stands beside (servers, numbers, results, outcomes, names, iterators, pages), a namespace that is a
tree with distinct names under a parent, no requested item ID that is the failure
marker `Bad`, a pacing that fits into `Longest`, ascending bounds of the histograms). TLC evaluates them on every run.

*ComWorker.* `TInv` is the type invariant strengthened by what makes it
inductive: requests are well formed, naming a server where their kind needs one,
in a busy caller's frame, in the channel and in `job` while it is served; the phases
of the dispatch serve only kinds that use the cache. `FaultInv` is the
strengthening for the two properties about the retry: while the request is not
marked faulted, its server has been up since the worker took it, so only a stale
handle can fail, and the handle of the retry belongs to the running incarnation;
nothing has taken effect before the first attempt; and a first attempt that broke after its effect has
marked the request.
`BoundInv` adds the finiteness of the table, which cardinality facts need.
For the tokens, `HandedInv` says that one handed out, or lost, was opened by a
call that is over, while `Open` serves a request whose caller still waits for
that call: what it opens is new. For the owners, `FlightInv` keeps track
of the requests: each is in the channel or with the worker, not both and only
once, and while its caller waits its one-shot is empty; so an answer overwrites
none that nobody has read, and a session that was opened is on its way (`Delivering`) until its
caller takes it or goes. `Accounted` adds that the table is empty while the
thread unwinds, where the queued one-shots are dropped.

*InventoryTraversal.* `OnceInv`: until the run is told to stop, the entries
delivered and the item IDs found correspond one to one, and their number is below the limit;
the step that reaches the limit is the one that sets `truncated`, and a
stopped run emits nothing more. `FreshInv`: the initial DA 3 browse of the root waits alone
in the queue or is being made, before anything is delivered, and no other work
looks like it, since a continued page carries a token and a branch has breadcrumbs.

`PlaceInv` is for `EntriesInPlace` and `SkipsExplained`. `Places`: the cursor is where `path` says
(`At`, one node at most, because names are distinct under a parent), and whatever waits
in the queue, in the page or among the nodes lists children of the branch its
breadcrumbs name, under their own item IDs. Each kind of move has a lemma (`PlaceDown`,
`PlaceUp`, `PlaceAhead`), and a refused move leaves both sides alone. `Smooth`: as long as
the server has not misbehaved, no enumerator stands still and the cursor is at the scope
before names are walked, so nothing is skipped. `Sound` is the condition under which
a name can be trusted to denote the scope.

`CoverInv` is for `NothingLostSilently`. Its heart is `Covered`: as long as the run is neither cancelled
nor truncated, every item below the scope is found, or below a pruned
branch, or still ahead (`AheadOf`). Ahead means that queued work, the page being read or a node not
yet emitted covers it (`Covers`, `NodeCovers`): it is a branch above the item, and what is left of its
enumerators or of its DA 3 continuation contains the next node on the way. A step that reads a name
hands the item from the page to a node, a step that emits the node hands it to the
queue or to `seen`, and popping hands it back to the page. `Settled` is for the merging of branch and leaf
names: a leaf may be suppressed as merged only if its item is among those found. When the queue
is empty nothing is ahead, so every item is found or pruned.

Both rest on facts about the tree: a trail determines its node (`TrailInjective`), a
node above another is reached through one of its children (`WayDown`). These are
inductions on the length of a trail, carried out with the least counterexample
(`LeastNat`), since well-foundedness of the naturals is a fact without an
operator parameter.

*BrowsePages.* `TypeInv` says what a token, a chain, a request and a continuation can be, and
with `WorkOK` that a page in the making belongs to its chain and to the session's interface; a step only adds nodes
(`Grown`), so that what was said of a token stays true. It needs `FreshInv`: until
the first root page came out, no continuation is stored and no chain has tokens, which
is what lets a session become a DA 2 one. `HomeInv` is for `CursorTracked`: during a move up the
cursor is `ups` levels above `path`, which is truncated only at the last (`Tracked`); everywhere else
it is where the path says, so giving up leaves both in step. `PlaceInv` is for `EntriesInPlace`: what is
listed, on the page being made too, belongs to the node the chain was asked for. A DA 2 page reads there
because it moved first (`ReadsThere`), and a name that could be entered or has an item ID
is a child there (`NameFound`).
`OnceInv` is for `ChildrenOnce`, and speaks of the chains no fault fell into (`Quiet`). Wherever such
a chain can go on, in a stored continuation or in the page being made, it has a `Tally`: the tokens
shown so far are, each once, exactly the children that have come. For a DA 3 page these
are all but the elements left; for a DA 2 page those whose name is no longer `Open` in
the enumerator it is read from (`Source`: the branch enumerator first, where the filter has one),
and `merged` holds the branch names that have an item ID and came already, so that a leaf name is skipped exactly when its
child was shown with the branches (`TreeOK`). In a flat namespace it is the item IDs that are no longer open (`FlatOK`).
A value that `has_more` read ahead is still open, so a page border changes nothing. `CarrierInv`
is why one tally is enough: a token is consumed before its page is made, so a chain goes on in one place only.
When the enumerators are empty or no element is left, what came is what was wanted (`GotWanted`).

*InventoryStream.* `SlotExact` is not inductive: `ReleaseSlot` frees the slot
whoever holds it, and the property alone does not say that a claimed stream has
no thread yet. `Owners` adds which stage a thread can be in; `SlotStep` is the
one counting argument, used for claiming, failing to spawn and releasing. For the
rejection, `EndMeansExited` says that a consumer sees the end of its stream only
after the thread's last local is gone; since the slot's guard is dropped before,
whoever holds the slot at a refused start has not ended for its consumer.
`DeliveryInv` is for the order of events: only plain ones go out while the thread
is in its loop, and from then on the terminal one is the last in the channel or
the last received.

*TuiApp.* `TypeInv` has three parts. `ListsOK`: every list is empty or one a server gave,
and marks do not outlive their list. `CursorOK`: `index` and `row` stay within the
longest list there can be. `CallsOK`: of the calls not yet answered at most one of each kind is
awaited, its receiver is empty, so that an answer overwrites none, and a result has the shape its
poll expects. `RowInTable` then goes through the steps that change the row or the table: a read result
clamps, a draw only lowers the row, and a step down stays within the table. `ReadInv`: while there is a refresh context, every read whose result is
still awaited, and a result not yet polled, is of that context; a start makes all
earlier ones of its kind unawaited.

*InventoryBoundary.* A cancel is final, and from it on the worker can only be
where the gate still looks at the flag; this is the invariant of `CancelHolds`.
For the pacing, the worker's view is tied to the truth: both halves of what
it read were in their cells since its last look, and `since`, once it counts, is
the distance `gap` of two starts up to `Longest`.

For `ReportExact`, `SliceInv` ties each histogram to the durations recorded in it (`Recorded`): the
first `i` buckets hold as many as there are durations up to bound `i`, the maximum is one of
them and none is longer, and the operations of the turn and the page that a fallback left (`kept`)
are those recorded and the one that runs. It is kept because a duration goes to the first bucket whose bound it does not exceed
(`BucketFacts`, where the bounds ascend), so that it adds one to the same sums on both sides. Of
sums only two facts are needed, what one more at one place adds (`SumMore`) and that a sum of zeros is none
(`SumZero`); both are shown for every subset of the index set by least counterexample over its
cardinality. `PercentileFacts` then compares the bucket where the cumulated counts reach
the rank with the bounds at or above the nearest-rank duration: they are the same buckets.

*Connection.* `GroupsInv` says what the group of a request is worth at each
point: one more than the failures while it is in use, none before or after. It
needs only that a failure is paid for. `CursorInv` says that while no UP was
refused, a path of edges of the tree leads from the root to the cursor (`Path`), as long as
the stack is deep (`Level`); so the last frame is left at the root.
The argument is over any tree and any depth, because one step moves by one edge.
`ReadInv` follows a value to its place: `added` is an increasing list of the positions
the server accepted (`InOrder`), the values read belong to its entries one by one, and `ScatterAt` says that
putting them back touches these positions only, each with its own tag's value. While no fault
occurred in the job, the accepted positions are the known items, all of them.

`BrowseInv` is for `BrowseComplete`. While a browse is undisturbed, `Sweep` holds: the tags
stand for distinct items (`Gathered`), and every item that is neither among them nor
beyond the limit is still ahead of some frame (`Ahead`). The frames belong to the nodes on
the way from the root to the cursor, one per level (`Way`, `TreeSweep`); all but the last have gone down
and no longer list the branch they went down (`AllDown`), which is why nothing is
listed twice (`NotBehind`). A frame has an item ahead while its enumerators still hold the name of the
child that is the item or lies above it (`AheadIn`). Listing a branch name moves it from the
enumerator to `todo`, going down moves everything below it to the new frame (`Deeper`; what lies
beyond `MaxDepth` is in no item's way), and coming back up changes nothing (`Higher`), since the cursor is
the caller's node again. So the last frame, when it is left, has nothing ahead. `NoneRefused`: without a
fault no call is refused, for the branch exists and so does the way up; in particular a
`BROWSE_UP` at the root never happens. As nothing is assumed of earlier requests but `CursorInv`, the theorem
covers a browse after any others, failed ones included. The flat browse is the same with the
rest of one list in place of the frames.

*NativeIterator.* `Inv` bounds position, count and cache against each other: a
count larger than the cache comes only with `done`. `Rest` is the lemma about the
rest of the cache after one entry is taken; with it every step of the
iterator is a step of `ValueStream`, or a stutter.
`StringInv` counts: the strings of the cache that still have an owner are the filled entries at the
positions not yet taken, so that taking one moves a unit from owned to freed (`FilledTail`, by
cardinalities), and an error that ends the stream frees the rest at once.

*NativeCalls.* `Ownership` says, for each point of a call, which blocks exist and
whose they are; `Bounds` that a call in progress has passed its checks
and that an array is as long as it says or null. `MethodsOK` is the case analysis
over the methods: every one with two slices compares their lengths, except
`AsyncIo2::write`, for which nothing is claimed.

Every safety invariant and every `[][A]_vars` property that a run checks is a theorem. Only model-checked
is liveness (`CallsReturn`, `ShutdownReleases`, `DropTerminates`, `TerminalArrives`, `Terminates`,
`GateAnswers`, `LoadingEnds`, `CallReturns`): fairness and ENABLED are beyond the prover.
Induction over data is beyond it as a rule, since the library's induction theorems take an operator;
what can be measured by a number, such as the depth of a node or the size of a set, is proved by
least counterexample.

## 5. Findings

1. *A write to another server* (`tui_write_other_server`, `app.rs:621`). A write is
   pending, the refresh before it fails and leads back to the tag list; the user
   opens another server and reads a tag. Before the answer, the write's result
   switches to the values screen, still with the first server's values, while
   `refresh_server` is the second. `w` and a value then write the first server's
   tag name to the second server.
2. *Groups stay on the connection* (`groups_leaked`, `D/com_worker/read.rs:124`).
   When `add_items`, `read` or `write` fails, the handler leaves through `?` before
   `remove_group`. `opc-da-client/CHANGELOG.md:271` says that groups are always removed, "even
   on error paths". A group is also left when `AddGroup` succeeds and the returned
   object lacks an interface (`GroupUnusable`). `GroupsExplained` bounds the
   loss: one group per failing request, and none for an item the server rejects.

Behaviours met while modelling that have no run of their own:

* *A browse that lost its server answers Ok* (`D/com_worker/browse.rs:163`). Below the root an
  error of a branch, of the enumeration of branch names, of a move is logged and skipped, a
  connection error like any other. The caller gets `Ok` with the tags found so far; there is no
  retry, and the broken handle stays cached. The documentation of `browse_tags` says "Returns `Err`
  if the server connection fails" (`D/provider.rs:970`). `RunOperation` has this outcome, and
  `StaleHandleTransparent` shows that the next request's own retry hides the handle.
* *The observations of the first DA 2 slice include a DA 3 page* (`D/inventory.rs:207`). The
  fallback of the root continues without taking what the collector holds, while
  `operations_before` is read again. The slice's observations then count one operation more than its
  `native_operations`, though the documentation has both say what was done "for this slice"
  (`D/provider.rs:475`, `:477`). `ReportExact` shows that this is the only difference.
* *Sessions and cache.* The worker closes a session whose reply it could not send, but a caller
  cancelled after the send and before its next poll drops the token unread
  (`D/com_worker.rs:170`); the session stays until it expires.
  `SessionsAccountedFor` shows that this is the only window. The retry's handle is
  cached whatever its result (`connection.rs:57`), so the next request may spend its one
  retry on a handle known to be broken. A retried browse pushes into the same sink and counter
  as the first attempt (`connection.rs:55`).
* *Inventory.* After an `Err` terminal event `terminal_event_seen` stays false, and the drop
  cancels a control nobody reads any more; harmless. `max_entries = 0` reports `truncated` even when the run was cancelled before;
  a limit equal to the number of items reports `truncated` too.
  A rooted inventory does not fall back from a DA 3 stub to DA 2: the scope makes
  the first work item not the initial root, so the run fails.
  A scoped run on a DA 2 server without BROWSE_TO tries the item ID as a browse
  name; when that is refused, the run ends `complete`, with a warning and
  without entries. `SkipsExplained` names this exception. If another branch at the root has that item ID for
its browse name, the walk enters it, and its items are delivered as those of the scope
(`Misnamed`; `D/inventory/da2.rs`, the fallback of `move_to_da2_path`). The `InvalidDa2Branch` arm
  for a page result (`D/inventory.rs:221`) is not reached, since the page function absorbs that error.
  `set_pacing` stores two atomics (`D/provider.rs:607`): an operation may be paced by a pair nobody set; `Paced` is stated for that.
  A cancel does not wake a worker that waits for a slot of the full event channel.
* *Browsing.* A refused UP is absorbed by one level of the recursion; its callers go on with the
  cursor one branch off (`D/com_worker/browse.rs:169`, `opc-da-client/docs/spec.md:111` can be read
  either way). The same refusal leaves `current_path` untouched in a browse session, though earlier UPs of
  the same move succeeded.
* *Native layer.* The contents of VARIANTs and blobs in result arrays are never cleared; the arrays are.
  When the continuation point of a DA 3 page does not convert, the strings of its elements are not freed
  (`D/opc_da/client/traits/browse.rs:199`). `AsyncIo2::write` takes the length from its first slice and does
  not compare the second (`async_io2.rs:80`, "not checked here"), though the function is safe to call: with
  fewer values than handles the server reads past them. Nothing in the repository calls it. Some checks return `InvalidState` where their docs say E_INVALIDARG.
  `create_server2` builds its `COSERVERINFO` from temporaries; nothing calls it.
* *Conversions.* A currency value between -1 and 0 loses its sign in `helpers.rs`.
* *Terminal.* A refresh begun before `w` answers while a value is typed; the screen changes and the next
  characters are commands, `q` among them (`app.rs:514`).
  The refresh after a write (`app.rs:678`) never starts: `start_read_values` returns
  on the values screen. The automatic refresh reads within a second.
  A refresh that fails after a write was sent leads to the tag list with the table kept; the
  result of the write leads back to the table with a selection of the tag list. The draw corrects the
  highlighted row (`Drawn`, ratatui) but not `selected_index`, so that a step up from there can highlight a row the
  table lacks until the next read; `RowStaysInTable` says that this is the only way.
  Esc on the loading screen reaches `go_back`, which ignores it.
  The matches of a search outlive the list they were found in; Tab can then put
  `selected_index` beyond the list. Lookups use `get`, so nothing is indexed.

## 6. Not modelled, and why

* Rendering (`opc-cli/src/ui.rs`): a function of the state, without state.
* Conversions between native and text forms (`D/helpers.rs`, `D/opc_da/typedefs.rs`)
  and error texts: pure, value by value, without order or control. The one
  distinction the control depends on, which HRESULTs are connection errors, is
  in ComWorker.
* The generated bindings: declarations of the native interfaces.
* Creating a server by class ID and enumerating the registered ones
  (`D/opc_da/client/traits/client.rs`, `D/backend/connector.rs:470`): single calls; the
  iterator of class IDs is one of NativeIterator's. `guid_iter.flatten()` drops its
  errors, so that a registry enumeration that breaks off gives a shorter list and no error.
* `LocalPointer`: a string borrowed for the length of a call, by its Rust type.
* The thread-local scope through which connector code finds the telemetry
  collector: there is one traversal per thread, which enters it once.

## 7. Plan

Done, in this order: ComWorker, InventoryTraversal, InventoryStream, TuiApp,
BrowsePages, Connection, NativeIterator against ValueStream, InventoryBoundary,
NativeCalls, and the theorems above. What is left:

1. **Abstract specifications**: a request/reply service that answers every call
   once, implemented by ComWorker; an inventory as "a set of entries, then one
   terminal event", implemented by InventoryStream and by InventoryTraversal.
2. **Composition** of InventoryTraversal with InventoryBoundary, whose gate is an
   unconstrained cancel there.
