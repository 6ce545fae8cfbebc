-------------------------- MODULE InventoryTraversal --------------------------
(***************************************************************************)
(* The traversal an inventory worker runs over one server's namespace      *)
(* (run_inventory_at_root): a queue of branches, each read page by page    *)
(* through OPC DA 3 Browse with continuation points, or through OPC DA 2   *)
(* by moving the server's browse cursor and enumerating names there.       *)
(* Entries go out once per item ID; a server whose DA 3 root browse is a   *)
(* stub is read through DA 2 instead; branches that cannot be entered and  *)
(* branch enumerators that stop advancing are skipped with a warning.      *)
(*                                                                         *)
(* The server, its namespace and its failures are external: a fault budget *)
(* bounds how often it misbehaves. Concurrently the consumer may cancel,   *)
(* change the batch size, or drop the stream.                              *)
(***************************************************************************)
EXTENDS FiniteSets, Namespace, Enumerator

CONSTANTS
  Profiles,      \* external: what a server supports, see Profile
  Scopes,        \* nodes an inventory starts at; Root is root_item_id = None
  Limits,        \* values of max_entries
  Batches,       \* values of batch_size
  Tokens,        \* external: DA 3 continuation points
  MaxEmpty,      \* MAX_CONSECUTIVE_EMPTY_DA3_PAGES
  MaxFaults      \* bound: times the server misbehaves

\* da3, da2: interfaces exposed; stub: its DA 3 Browse answers E_NOTIMPL;
\* to: OPC_BROWSE_TO works; flat: DA 2 organization.
Profile == [da3 : BOOLEAN, da2 : BOOLEAN, stub : BOOLEAN,
            to : BOOLEAN, flat : BOOLEAN]

Words == {Name[n] : n \in Nodes} \cup {Id[n] : n \in Nodes}

\* DA 2 pages: see Page.
Pages == [branches : {Nil} \cup Iterators(Words), items : {Nil} \cup Iterators(Words),
          merged : SUBSET Words]

ASSUME BoundsAssumption ==
  /\ Profiles \subseteq {p \in Profile : p.da3 \/ p.da2}
  /\ Scopes \subseteq Branches
  /\ Limits \subseteq Nat \cup {Nil}
  /\ Batches \subseteq Nat \ {0}
  /\ MaxEmpty \in Nat \ {0} /\ MaxFaults \in Nat
  /\ Nil \notin {"completed", "failed", "silent"} \cup Words
  /\ Nil \notin Iterators(Words) /\ Nil \notin Pages

VARIABLES
  conf,      \* the call: [profile, scope, limit]
  da3,       \* terminal.capabilities.supports_da3
  pc,        \* where the worker is
  queue,     \* branches left to read
  work,      \* the branch being read
  nodes,     \* nodes of the current page not yet emitted
  batch,     \* batch size of the current page
  path,      \* current_da2_path: where the worker believes the cursor is
  seen,      \* item IDs already found
  emitted,   \* entries delivered
  skips,     \* skipped_invalid_branches + skipped_non_progressing_branches
  terminal,  \* the flags of InventoryCompleted
  outcome,   \* Nil while running, then how the run ended
  cancelled, \* InventoryControl.cancelled
  open,      \* the event receiver exists
  cursor,    \* external: node the server's browse cursor is at
  rest,      \* external: what the DA 3 continuation point stands for
  faults,    \* external: faults so far
  pruned     \* history: nodes whose descendants were skipped

confVars == <<conf, da3>>
pageVars == <<work, nodes, batch>>
resultVars == <<seen, emitted, skips, terminal, pruned>>
userVars == <<cancelled, open>>
serverVars == <<cursor, rest, faults>>
vars == <<confVars, pc, queue, pageVars, path, resultVars, outcome, userVars, serverVars>>

-----------------------------------------------------------------------------
(* The server's namespace. *)

\* The node a path or a list of breadcrumbs leads to (none or one).
NodesAt(trail) ==
  IF conf.scope = Root \/ trail = <<>> THEN Walk(Root, trail)
                                       ELSE Walk(conf.scope, Tail(trail))

\* What one misbehaviour costs.
Spend(n) == faults + n <= MaxFaults /\ faults' = faults + n

-----------------------------------------------------------------------------
(* Work and pages. *)

\* A branch to read: its API, its exact item ID if one is known, its
\* breadcrumbs (which for DA 2 are also the path to walk), the state of the
\* DA 3 continuation and the DA 2 page state.
NewWork(api, id, trail) ==
  [api |-> api, id |-> id, trail |-> trail,
   cont |-> Nil, tokens |-> {}, empties |-> 0, page |-> Nil]

\* initial_work: the scope is addressed by its item ID in both APIs.
InitialWork(viaDa3) ==
  LET api == IF viaDa3 THEN "da3" ELSE "da2"
  IN IF conf.scope = Root THEN NewWork(api, Nil, <<>>)
                          ELSE NewWork(api, Id[conf.scope], <<Id[conf.scope]>>)

\* Mutation: a continued root page still counts as the initial one.
AnyDa3Root(w) == w.api = "da3" /\ w.id = Nil /\ w.trail = <<>>

IsInitialDa3Root(w) ==
  w.api = "da3" /\ w.id = Nil /\ w.cont = Nil /\ w.trail = <<>>

Node(name, id, item, child) == [name |-> name, id |-> id, item |-> item, child |-> child]

\* map_da3_node, for a server that gives every element its item ID.
Da3Nodes(s) ==
  [i \in DOMAIN s |-> Node(Name[s[i]], Id[s[i]], s[i] \in Items, s[i] \in Branches)]

-----------------------------------------------------------------------------
(* Start and end of a run. *)

Init ==
  /\ conf \in [profile : Profiles, scope : Scopes, limit : Limits]
  /\ da3 = conf.profile.da3
  /\ pc = "start"
  /\ queue = <<>> /\ work = Nil /\ nodes = <<>> /\ batch = 0 /\ path = <<>>
  /\ seen = {} /\ emitted = <<>> /\ skips = 0
  /\ terminal = [cancelled |-> FALSE, truncated |-> FALSE]
  /\ outcome = Nil
  /\ cancelled = FALSE /\ open = TRUE
  /\ cursor = Root /\ rest = <<>> /\ faults = 0
  /\ pruned = {}

Ends(how) == pc' = "done" /\ outcome' = how

\* Connecting and detecting the capabilities; a cancel meanwhile leaves no
\* capability at all, which selects DA 2. Then the first Progress event, and
\* the limit of zero entries.
Start ==
  /\ pc = "start"
  /\ da3' = (da3 /\ ~cancelled)
  /\ \/ open /\ conf.limit # 0 /\ pc' = "pop" /\ outcome' = Nil
        /\ queue' = <<InitialWork(da3')>> /\ terminal' = terminal
     \/ open /\ conf.limit = 0 /\ Ends("completed") /\ queue' = queue
        /\ terminal' = [terminal EXCEPT !.truncated = TRUE]
     \/ ~open /\ Ends("silent") /\ UNCHANGED <<queue, terminal>>
  /\ UNCHANGED <<conf, pageVars, path, seen, emitted, skips, pruned, userVars, serverVars>>

\* An error that ends the run: connection, capability query or browse call.
Fails(cost) ==
  /\ Spend(cost)
  /\ Ends("failed")
  /\ UNCHANGED <<confVars, queue, pageVars, path, resultVars, userVars, cursor, rest>>

StartFails == pc = "start" /\ Fails(1)

\* The queue is empty or the loop was left; a late cancel still counts.
Finish ==
  /\ pc = "finish" \/ (pc = "pop" /\ queue = <<>>)
  /\ terminal' = [terminal EXCEPT !.cancelled = @ \/ cancelled]
  /\ Ends("completed")
  /\ UNCHANGED <<confVars, queue, pageVars, path, seen, emitted, skips, pruned,
                 userVars, serverVars>>

\* Take the next branch, with the batch size of the moment.
Pop ==
  /\ pc = "pop" /\ queue # <<>>
  /\ work' = Head(queue) /\ queue' = Tail(queue)
  /\ batch' \in Batches
  /\ nodes' = <<>>
  /\ pc' = IF work'.api = "da3" THEN "da3" ELSE "move"
  /\ UNCHANGED <<confVars, path, resultVars, outcome, userVars, serverVars>>

\* InventoryBoundary: a cancelled control stops the run before the next native
\* call; the page being read is lost.
StopAtBoundary ==
  /\ cancelled
  /\ \/ pc \in {"da3", "move", "walk", "begin"}
     \/ pc = "names" /\ Len(nodes) < batch
     \/ pc = "more" /\ <<work.page.branches, work.page.items>> # <<Nil, Nil>>
  /\ terminal' = [terminal EXCEPT !.cancelled = TRUE]
  /\ pc' = "finish"
  /\ UNCHANGED <<confVars, queue, pageVars, path, seen, emitted, skips, pruned,
                 outcome, userVars, serverVars>>

-----------------------------------------------------------------------------
(* OPC DA 3 pages. *)

\* The elements a browse call goes on with.
Remaining ==
  IF work.cont # Nil THEN rest
  ELSE Kids[IF work.id = Nil THEN Root ELSE BranchWithId(work.id)]

\* What the worker accepts with more_elements: a new, non-empty token, and not
\* the MaxEmpty-th empty page in a row.
Acceptable(token, empty) ==
  /\ token # Nil
  /\ token \notin work.tokens
  /\ empty => work.empties + 1 < MaxEmpty

IsStub == conf.profile.stub

\* The last page of the branch.
Da3LastPage ==
  /\ pc = "da3" /\ ~cancelled /\ ~IsStub
  /\ Len(Remaining) <= batch
  /\ nodes' = Da3Nodes(Remaining)
  /\ work' = [work EXCEPT !.cont = Nil, !.empties = 0]
  /\ rest' = <<>>
  /\ pc' = "emit"
  /\ UNCHANGED <<confVars, queue, batch, path, resultVars, outcome, userVars, cursor, faults>>

\* A page with more elements announced. Without a token, or with one that was
\* already used, or when empty too often, it is a non-progress error.
Da3Page ==
  /\ pc = "da3" /\ ~cancelled /\ ~IsStub
  /\ \E n \in 0 .. batch, token \in Tokens \cup {Nil} :
       /\ n <= Len(Remaining)
       /\ IF Acceptable(token, n = 0)
          THEN /\ nodes' = Da3Nodes(SubSeq(Remaining, 1, n))
               /\ rest' = SubSeq(Remaining, n + 1, Len(Remaining))
               /\ work' = [work EXCEPT !.cont = token, !.tokens = @ \cup {token},
                                       !.empties = IF n = 0 THEN @ + 1 ELSE 0]
               /\ pc' = "emit"
               /\ UNCHANGED <<confVars, queue, batch, path, resultVars, outcome,
                              userVars, cursor, faults>>
          ELSE Fails(0)

Da3PageFails == pc = "da3" /\ ~cancelled /\ Fails(1)

\* Mutation: supports_da3 stays set.
KeptDa3 == da3

\* terminal.capabilities.supports_da3 after a fallback.
Da3After == FALSE

\* The root browse answers a compatibility HRESULT (E_NOTIMPL, null reference):
\* start over through DA 2, if the server has it.
FallBack ==
  /\ pc = "da3" /\ ~cancelled
  /\ Spend(IF IsStub THEN 0 ELSE 1)
  /\ IF IsInitialDa3Root(work) /\ conf.profile.da2
     THEN /\ da3' = Da3After
          /\ queue' = <<InitialWork(Da3After)>>
          /\ path' = <<>>
          /\ pc' = "pop"
          /\ UNCHANGED outcome
     ELSE /\ Ends("failed")
          /\ UNCHANGED <<da3, queue, path>>
  /\ UNCHANGED <<conf, pageVars, resultVars, userVars, cursor, rest>>


-----------------------------------------------------------------------------
(***************************************************************************)
(* OPC DA 2: the cursor (move_to_da2_path). A branch with a known item ID  *)
(* is reached in one BROWSE_TO; otherwise, or when that is refused, the    *)
(* worker walks up to the shared prefix and down from there.               *)
(***************************************************************************)

Target == work.trail

Jumps == pc = "move" /\ work.id # Nil /\ path # Target

Walks == pc = "walk" \/ (pc = "move" /\ ~Jumps)

\* Number of leading components the current path shares with the target.
Shared == Len(LongestCommonPrefix({path, Target}))

BrowseTo ==
  /\ Jumps /\ ~cancelled
  /\ conf.profile.to
  /\ cursor' = BranchWithId(work.id)
  /\ path' = Target
  /\ pc' = "arrived"
  /\ UNCHANGED <<confVars, queue, pageVars, resultVars, outcome, userVars, rest, faults>>

\* Mutation: a refusal is taken for success.
RefusalIgnored ==
  /\ Jumps /\ ~cancelled
  /\ Spend(IF conf.profile.to THEN 1 ELSE 0)
  /\ path' = Target
  /\ pc' = "arrived"
  /\ UNCHANGED <<confVars, queue, pageVars, resultVars, outcome, userVars, cursor, rest>>

\* Not supported, or refused with one of the fallback HRESULTs.
BrowseToRefused ==
  /\ Jumps /\ ~cancelled
  /\ Spend(IF conf.profile.to THEN 1 ELSE 0)
  /\ pc' = "walk"
  /\ UNCHANGED <<confVars, queue, pageVars, path, resultVars, outcome, userVars, cursor, rest>>

\* Mutation: the path is truncated without moving the cursor.
CursorStays == cursor

CursorUp == Parent(cursor)

\* One BROWSE_UP. The code truncates its path after the last one; a failure or
\* a cancel in between ends the run, so nobody reads the path in between.
WalkUp ==
  /\ Walks /\ ~cancelled
  /\ Len(path) > Shared
  /\ cursor' = CursorUp
  /\ path' = Front(path)
  /\ pc' = "walk"
  /\ UNCHANGED <<confVars, queue, pageVars, resultVars, outcome, userVars, rest, faults>>

DownName == Target[Len(path) + 1]

AtShared == Walks /\ ~cancelled /\ Len(path) = Shared /\ path # Target

WalkDown ==
  /\ AtShared
  /\ \E n \in ChildNamed(cursor, DownName) \cap Branches : cursor' = n
  /\ path' = Append(path, DownName)
  /\ pc' = "walk"
  /\ UNCHANGED <<confVars, queue, pageVars, resultVars, outcome, userVars, rest, faults>>

\* E_INVALIDARG on the way down: the branch is skipped with a warning and its
\* page is empty.
SkipBranch ==
  /\ AtShared
  /\ Spend(IF ChildNamed(cursor, DownName) \cap Branches = {} THEN 0 ELSE 1)
  /\ skips' = skips + 1
  /\ pruned' = pruned \cup NodesAt(Target)
  /\ work' = [work EXCEPT !.page = Nil]
  /\ pc' = "emit"
  /\ UNCHANGED <<confVars, queue, nodes, batch, path, seen, emitted, terminal,
                 outcome, userVars, cursor, rest>>

Arrive ==
  /\ pc = "arrived" \/ (Walks /\ path = Target)
  /\ pc' = IF work.page = Nil THEN "begin" ELSE "names"
  /\ UNCHANGED <<confVars, queue, pageVars, path, resultVars, outcome, userVars, serverVars>>

MoveFails ==
  /\ Jumps \/ (Walks /\ path # Target)
  /\ ~cancelled
  /\ Fails(1)

-----------------------------------------------------------------------------
(***************************************************************************)
(* OPC DA 2: the names at the cursor. A page lists branches, then items; a *)
(* branch that resolves to an item ID is both and its leaf name is merged. *)
(***************************************************************************)

Page(branches, items) == [branches |-> branches, items |-> items, merged |-> {}]

\* start_da2_page: both enumerators are created where the cursor is.
Begin ==
  /\ pc = "begin" /\ ~cancelled
  /\ work' = [work EXCEPT !.page =
       IF conf.profile.flat
       THEN Page(Nil, Iterator(SetToSeq({Id[i] : i \in ItemsBelow(cursor)})))
       ELSE Page(Iterator(NamesOf(cursor, Branches)), Iterator(NamesOf(cursor, Items)))]
  /\ pc' = "move"
  /\ UNCHANGED <<confVars, queue, nodes, batch, path, resultVars, outcome, userVars, serverVars>>

Listing == pc = "names" /\ ~cancelled /\ Len(nodes) < batch

\* The branch enumerator stopped advancing: it is dropped with a warning and
\* the branches it had not named yet are lost.
SkipIterator ==
  /\ skips' = skips + 1
  /\ pruned' = pruned \cup {k \in KidsOf(cursor) : Name[k] \in ToSet(work.page.branches.rest)}

\* Mutation: the leaf name is merged away even without an item ID.
AlwaysMerged(names, name, id) == names \cup {name}

Merged(names, name, id) == IF id = Nil THEN names ELSE names \cup {name}

\* A branch name, resolved at the cursor. E_INVALIDARG from the resolution
\* leaves a pure branch, which the leaf enumerator may name again.
NextBranch ==
  /\ Listing /\ work.page.branches # Nil
  /\ \E x \in NextOf(work.page.branches), refused \in 0 .. 1 :
       /\ x.f.res.kind = "name"
       /\ Spend(x.cost + refused)
       /\ LET name == x.f.res.name
              ids == {Id[k] : k \in ChildNamed(cursor, name) \cap Items}
          IN \E id \in IF refused = 1 \/ ids = {} THEN {Nil} ELSE ids :
               /\ nodes' = Append(nodes, Node(name, id, id # Nil, TRUE))
               /\ work' = [work EXCEPT !.page.branches = x.f.it,
                             !.page.merged = Merged(@, name, id)]
  /\ UNCHANGED <<confVars, pc, queue, batch, path, resultVars, outcome, userVars, cursor, rest>>

\* The branch enumerator ends, or stops advancing: on to the items.
EndBranches ==
  /\ Listing /\ work.page.branches # Nil
  /\ \E x \in NextOf(work.page.branches) :
       /\ Spend(x.cost)
       /\ \/ x.f.res.kind = "end" /\ UNCHANGED <<skips, pruned>>
          \/ x.f.res.kind = "stuck" /\ SkipIterator
  /\ work' = [work EXCEPT !.page.branches = Nil]
  /\ UNCHANGED <<confVars, pc, queue, nodes, batch, path, seen, emitted, terminal,
                 outcome, userVars, cursor, rest>>

\* A leaf name: merged with a branch, an item ID already (flat), or resolved.
NextItem ==
  /\ Listing /\ work.page.branches = Nil /\ work.page.items # Nil
  /\ \E x \in NextOf(work.page.items) :
       /\ x.f.res.kind = "name"
       /\ Spend(x.cost)
       /\ LET name == x.f.res.name
          IN IF name \in work.page.merged THEN nodes' = nodes
             ELSE \E id \in IF conf.profile.flat THEN {name}
                            ELSE {Id[k] : k \in ChildNamed(cursor, name)} :
                    nodes' = Append(nodes, Node(name, id, TRUE, FALSE))
       /\ work' = [work EXCEPT !.page.items = x.f.it]
  /\ UNCHANGED <<confVars, pc, queue, batch, path, resultVars, outcome, userVars, cursor, rest>>

EndItems ==
  /\ Listing /\ work.page.branches = Nil /\ work.page.items # Nil
  /\ \E x \in NextOf(work.page.items) : x.f.res.kind = "end" /\ Spend(x.cost)
  /\ work' = [work EXCEPT !.page.items = Nil]
  /\ UNCHANGED <<confVars, pc, queue, nodes, batch, path, resultVars, outcome,
                 userVars, cursor, rest>>

\* An enumerator fails; for the items, standing still is a failure too.
IteratorFails ==
  /\ Listing
  /\ LET it == IF work.page.branches # Nil THEN work.page.branches ELSE work.page.items
     IN it # Nil /\ \E x \in NextOf(it) :
          /\ x.f.res.kind \in {"broken"} \cup (IF work.page.branches = Nil THEN {"stuck"} ELSE {})
          /\ Fails(x.cost)

\* Creating an enumerator or resolving an item ID fails.
CallFails == (pc = "begin" \/ Listing) /\ ~cancelled /\ Fails(1)

PageRead ==
  /\ pc = "names"
  /\ Len(nodes) = batch \/ <<work.page.branches, work.page.items>> = <<Nil, Nil>>
  /\ pc' = "more"
  /\ UNCHANGED <<confVars, queue, pageVars, path, resultVars, outcome, userVars, serverVars>>

\* Da2PageState::has_more: a value read ahead, a failure included, is left to
\* the next page; a branch enumerator that stands still is skipped here.
HasMore ==
  /\ pc = "more"
  /\ cancelled => <<work.page.branches, work.page.items>> = <<Nil, Nil>>
  /\ \E b \in Peeks(work.page.branches) :
       IF b.f.res.kind \in {"name", "broken"}
       THEN /\ Spend(b.cost)
            /\ work' = [work EXCEPT !.page.branches = b.f.it]
            /\ UNCHANGED <<skips, pruned>>
       ELSE \E i \in Peeks(work.page.items) :
            /\ Spend(b.cost + i.cost)
            /\ work' = [work EXCEPT !.page =
                 IF i.f.res.kind = "end" THEN Nil
                 ELSE [@ EXCEPT !.branches = IF b.f.res.kind = "stuck" THEN Nil ELSE b.f.it,
                                !.items = i.f.it]]
            /\ IF b.f.res.kind = "stuck" THEN SkipIterator ELSE UNCHANGED <<skips, pruned>>
  /\ pc' = "emit"
  /\ UNCHANGED <<confVars, queue, nodes, batch, path, seen, emitted, terminal,
                 outcome, userVars, cursor, rest>>

-----------------------------------------------------------------------------
(* Emission: entries, child branches, then the Slice and Progress events. *)

\* Mutation: item IDs already found are delivered again.
AnyItem(node) == node.item

IsNew(node) == node.item /\ node.id \notin seen

Leaves(flags) ==
  /\ terminal' = flags
  /\ nodes' = <<>>

\* One node of the page. A cancel or a dropped receiver leaves the loop; so
\* does the limit, before the node's own child branch is queued.
Emit ==
  /\ pc = "emit" /\ nodes # <<>>
  /\ LET node == Head(nodes)
         new == IsNew(node)
         full == new /\ conf.limit # Nil /\ Cardinality(seen) + 1 >= conf.limit
         stop == cancelled \/ (new /\ ~open)
     IN /\ seen' = IF new /\ ~cancelled THEN seen \cup {node.id} ELSE seen
        /\ emitted' = IF new /\ ~stop
                      THEN Append(emitted, [id |-> node.id, name |-> node.name,
                                            crumbs |-> work.trail])
                      ELSE emitted
        /\ IF stop THEN Leaves([terminal EXCEPT !.cancelled = TRUE])
           ELSE IF full THEN Leaves([terminal EXCEPT !.truncated = TRUE])
           ELSE nodes' = Tail(nodes) /\ UNCHANGED terminal
        /\ queue' = IF node.child /\ ~stop /\ ~full
                    THEN Append(queue, NewWork(work.api, node.id, Append(work.trail, node.name)))
                    ELSE queue
  /\ UNCHANGED <<confVars, pc, work, batch, path, skips, pruned, outcome, userVars, serverVars>>

Continues == work.cont # Nil \/ work.page # Nil

\* The page is out. A branch with more to read goes back to the front.
EndSlice ==
  /\ pc = "emit" /\ nodes = <<>>
  /\ terminal' = [terminal EXCEPT !.cancelled = @ \/ ~open]
  /\ IF terminal'.cancelled \/ terminal'.truncated
     THEN pc' = "finish" /\ queue' = queue
     ELSE pc' = "pop" /\ queue' = (IF Continues THEN <<work>> ELSE <<>>) \o queue
  /\ UNCHANGED <<confVars, pageVars, path, seen, emitted, skips, pruned, outcome,
                 userVars, serverVars>>

-----------------------------------------------------------------------------
(* The consumer, and the specification. *)

\* InventoryControl::cancel, from any thread.
Cancel ==
  /\ ~cancelled /\ outcome = Nil
  /\ cancelled' = TRUE
  /\ UNCHANGED <<confVars, pc, queue, pageVars, path, resultVars, outcome, open, serverVars>>

\* The stream is dropped: its receiver closes (and the control is cancelled,
\* which is the action above).
CloseReceiver ==
  /\ open /\ outcome = Nil
  /\ open' = FALSE
  /\ UNCHANGED <<confVars, pc, queue, pageVars, path, resultVars, outcome, cancelled, serverVars>>

Da3 == Da3LastPage \/ Da3Page \/ Da3PageFails \/ FallBack

Move == BrowseTo \/ BrowseToRefused \/ WalkUp \/ WalkDown \/ SkipBranch \/ Arrive \/ MoveFails

Read == \/ Begin \/ NextBranch \/ EndBranches \/ NextItem \/ EndItems
        \/ IteratorFails \/ CallFails \/ PageRead \/ HasMore

Worker == \/ Start \/ StartFails \/ Finish \/ Pop \/ StopAtBoundary
          \/ Da3 \/ Move \/ Read \/ Emit \/ EndSlice

Next == Worker \/ Cancel \/ CloseReceiver

\* The worker is a thread of its own and every native call returns; event
\* sends do not block forever because the consumer takes events or closes.
Spec == Init /\ [][Next]_vars /\ WF_vars(Worker)

-----------------------------------------------------------------------------
(* Properties. *)

Delivered == {emitted[i].id : i \in DOMAIN emitted}

\* Another branch at the root has the scope's item ID for its browse name. When
\* BROWSE_TO is refused, move_to_da2_path walks down that ID as if it were a
\* name and takes the other branch for the scope.
Misnamed ==
  conf.scope # Root /\ ChildNamed(Root, Id[conf.scope]) \cap Branches \notin SUBSET {conf.scope}

\* InventoryCompleted { complete: true } means what it says: every item of the
\* namespace below the scope was delivered, whatever the paging, the API, the
\* fallbacks and the walks of the cursor were; what is missing lies strictly
\* below a branch the warning counts.
NothingLostSilently ==
  ~Misnamed /\ outcome = "completed" /\ terminal = [cancelled |-> FALSE, truncated |-> FALSE] =>
    \A i \in ItemsBelow(conf.scope) :
      Id[i] \in Delivered \/ (skips > 0 /\ pruned \cap Above[i] # {})

\* Names are resolved at the server's cursor, not at the worker's path: every
\* entry names an item that really is where its breadcrumbs say, under the item
\* ID delivered with it.
EntriesInPlace ==
  ~Misnamed => \A k \in DOMAIN emitted :
    LET e == emitted[k]
    IN IF conf.profile.flat /\ ~da3
       THEN e.name = e.id /\ \E i \in ItemsBelow(conf.scope) : Id[i] = e.id
       ELSE \E i \in NodesAt(Append(e.crumbs, e.name)) \cap Items : Id[i] = e.id

\* An item ID goes out once, though the namespace aliases it and enumerators
\* and pages repeat names (seen_items); and max_entries is exact: the run is
\* reported truncated if and only if it delivered that many.
EntriesOnceWithinLimit ==
  /\ \A j, k \in DOMAIN emitted : emitted[j].id = emitted[k].id => j = k
  /\ conf.limit # Nil =>
       /\ Len(emitted) <= conf.limit
       /\ outcome = "completed" => (terminal.truncated <=> Len(emitted) = conf.limit)

\* On a server that answers correctly no branch is skipped: the walks up and
\* down never leave the cursor where a name the server listed is refused. The
\* exception is a scoped start without BROWSE_TO, whose item ID is tried as a
\* browse name.
SkipsExplained ==
  skips > 0 => faults > 0 \/ (conf.scope # Root /\ ~conf.profile.to)

\* Switching from DA 3 to DA 2 restarts the traversal, so it happens only
\* before anything was delivered (is_initial_da3_root).
FallBackBeforeEntries == [][da3' # da3 => emitted = <<>>]_vars

\* A run ends: pages that do not advance are refused, fallbacks happen once,
\* enumerators that stand still are given up.
Terminates == <>(outcome # Nil)

=============================================================================
