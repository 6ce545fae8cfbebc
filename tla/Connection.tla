------------------------------ MODULE Connection ------------------------------
(***************************************************************************)
(* One cached connection of the worker, used by one request after another: *)
(* the recursive compatibility browse (handle_browse, browse_recursive),   *)
(* which walks the namespace by moving the connection's browse cursor, and *)
(* reads and writes (handle_read, handle_write), each through an OPC group *)
(* made for the request. What a request leaves behind, cursor or group, is *)
(* what the next one finds. dispatch_with_retry runs a request once more   *)
(* on a new connection when it fails with a connection error.              *)
(***************************************************************************)
EXTENDS FiniteSets, Namespace, Enumerator

CONSTANTS
  Requests,      \* requests the callers make, see Request
  MaxDepth,      \* MAX_DEPTH
  MaxRequests,   \* bound: requests in a row
  MaxFaults      \* bound: times the server misbehaves

\* A browse has a limit, max_tags; a read or write the item IDs it wants.
Request == [kind : {"browse", "read", "write"}, limit : Nat, want : Seq(STRING)]

\* The sentinel of an item that was rejected; a tag's own value is its item ID.
Bad == "bad"

ASSUME RequestsAssumption ==
  /\ \A r \in Requests :
       /\ r \in Request
       /\ r.kind = "write" => Len(r.want) = 1
       /\ \A i \in DOMAIN r.want : r.want[i] # Bad
  /\ Nil \notin {"ok", "stuck", "other", "connection"}
  /\ MaxDepth \in Nat /\ MaxRequests \in Nat /\ MaxFaults \in Nat

VARIABLES
  flat,      \* external: the server's organization is OPC_NS_FLAT
  open,      \* the connection is in the cache
  pc,        \* where the worker is
  job,       \* the request, its attempt, and since when
  stack,     \* frames of browse_recursive, innermost last
  ret,       \* what the frame just left returned
  tags,      \* tags of the browse, or the values of the read or write
  added,     \* positions of the wanted items the group has (valid_indices)
  cursor,    \* external: node the connection's browse cursor is at
  groups,    \* external: groups on the connection
  faults,    \* external: faults so far
  answer,    \* history: the last request's outcome
  asked,     \* bound: requests so far
  adrift     \* history: a BROWSE_UP of this connection was refused

frameVars == <<stack, ret>>
resultVars == <<tags, added>>
historyVars == <<answer, asked, adrift>>
vars == <<flat, open, pc, job, frameVars, resultVars, cursor, groups, faults, historyVars>>

Spend(n) == faults' = faults + n /\ faults' \in faults .. MaxFaults

NoAnswer == [req |-> Nil, ok |-> FALSE, value |-> <<>>, clean |-> FALSE]

Init ==
  /\ flat \in BOOLEAN
  /\ open = FALSE
  /\ pc = "idle" /\ job = Nil
  /\ stack = <<>> /\ ret = Nil /\ tags = <<>> /\ added = <<>>
  /\ cursor = Root /\ groups = 0 /\ faults = 0
  /\ answer = NoAnswer /\ asked = 0 /\ adrift = FALSE

Fresh == stack' = <<>> /\ ret' = Nil /\ tags' = <<>> /\ added' = <<>>

-----------------------------------------------------------------------------
(* A request: connection, retry, answer (dispatch_with_retry). *)

\* homed: history, the request started with the cursor at the root.
Take ==
  /\ pc = "idle" /\ asked < MaxRequests
  /\ \E r \in Requests :
       job' = [req |-> r, attempt |-> 1, since |-> faults,
               homed |-> ~open \/ ~adrift]
  /\ asked' = asked + 1
  /\ pc' = IF open THEN "begin" ELSE "connect"
  /\ Fresh
  /\ UNCHANGED <<open, cursor, groups, faults, answer, adrift>>

\* A new connection: its cursor is at the root and it has no group.
Connect ==
  /\ pc = "connect"
  /\ open' = TRUE /\ cursor' = Root /\ groups' = 0 /\ adrift' = FALSE
  /\ pc' = "begin"
  /\ UNCHANGED <<job, frameVars, resultVars, faults, answer, asked>>

Ends(ok, value) ==
  /\ pc' = "idle"
  /\ answer' = [req |-> job.req, ok |-> ok, value |-> value,
                clean |-> job.homed /\ faults' = job.since]

ConnectFails ==
  /\ pc = "connect"
  /\ Spend(1)
  /\ Ends(FALSE, <<>>)
  /\ UNCHANGED <<open, job, frameVars, resultVars, cursor, groups, asked, adrift>>

\* The operation returned an error. The first connection error evicts the
\* handle and starts over; nothing else removes a handle from the cache.
Fails(class) ==
  IF class = "connection" /\ job.attempt = 1
  THEN /\ open' = FALSE
       /\ job' = [job EXCEPT !.attempt = 2, !.homed = TRUE]
       /\ pc' = "connect"
       /\ Fresh
       /\ UNCHANGED answer
  ELSE /\ Ends(FALSE, <<>>)
       /\ UNCHANGED <<open, job, frameVars, resultVars>>

Class == {"connection", "other"}

\* The first call of the operation fails: the organization query, the flat
\* enumerator, add_group.
BeginFails ==
  /\ pc = "begin"
  /\ Spend(1)
  /\ \E class \in Class : Fails(class)
  /\ UNCHANGED <<cursor, groups, asked, adrift>>

-----------------------------------------------------------------------------
(***************************************************************************)
(* The compatibility browse. A frame lists all branch names, then resolves *)
(* and reports the leaf names, then goes down each branch in turn.         *)
(***************************************************************************)

Full == Len(tags) >= job.req.limit

Frame(at) == [phase |-> "branches", todo |-> <<>>, it |-> Iterator(NamesOf(at, Branches))]

\* browse_recursive is called with the cursor at a node; too deep or full, it
\* returns at once.
Enter(frames, at) ==
  IF Len(frames) > MaxDepth \/ Full
  THEN stack' = frames /\ ret' = "ok"
  ELSE stack' = Append(frames, Frame(at)) /\ ret' = Nil

BeginBrowse ==
  /\ pc = "begin" /\ job.req.kind = "browse"
  /\ pc' = "browse"
  /\ IF flat
     THEN /\ ret' = Nil
          /\ stack' = <<[phase |-> "flat", todo |-> <<>>,
                         it |-> Iterator(SetToSeq({Id[i] : i \in ItemsBelow(Root)}))]>>
     ELSE Enter(<<>>, cursor)
  /\ UNCHANGED <<open, job, resultVars, cursor, groups, faults, historyVars>>

Top == Last(stack)

InFrame(phase) == pc = "browse" /\ ret = Nil /\ Top.phase = phase

Return(result) == stack' = Front(stack) /\ ret' = result

Stay(frame) == stack' = Append(Front(stack), frame) /\ ret' = Nil

\* Names left of an enumeration after an error: none when a refill failed, all
\* but one when a name could not be read.
AfterError(names) == {<<>>} \cup {Tail(s) : s \in {names} \ {<<>>}}

\* All branch names first. An error of the enumerator is logged and skipped;
\* standing still ends the whole browse.
ListBranches ==
  /\ InFrame("branches")
  /\ \E x \in Fetches(Top.it) :
       /\ Spend(x.cost)
       /\ CASE x.f.res.kind = "name" ->
                 Stay([Top EXCEPT !.it = x.f.it, !.todo = Append(@, x.f.res.name)])
            [] x.f.res.kind = "broken" ->
                 \E left \in AfterError(x.f.it.rest) : Stay([Top EXCEPT !.it = [x.f.it EXCEPT !.rest = left]])
            [] x.f.res.kind = "stuck" -> Return("stuck")
            [] OTHER -> Stay([Top EXCEPT !.phase = "leaves",
                                         !.it = Iterator(NamesOf(cursor, Items))])
  /\ UNCHANGED <<open, pc, job, resultVars, cursor, groups, historyVars>>

\* get_item_id at the cursor, or the browse name when that fails.
Resolved(name) ==
  {[tag |-> Id[k], cost |-> 0] : k \in ChildNamed(cursor, name)}
  \cup {[tag |-> name, cost |-> 1]}

\* The leaves of this level, resolved at the cursor. Any error ends the frame.
ListLeaves ==
  /\ InFrame("leaves") /\ ~Full
  /\ \E x \in Fetches(Top.it) :
       \/ /\ x.f.res.kind = "name"
          /\ \E r \in Resolved(x.f.res.name) :
               Spend(x.cost + r.cost) /\ tags' = Append(tags, r.tag)
          /\ Stay([Top EXCEPT !.it = x.f.it])
       \/ /\ x.f.res.kind = "end"
          /\ Spend(x.cost) /\ Stay([Top EXCEPT !.phase = "down"]) /\ tags' = tags
       \/ /\ x.f.res.kind \in {"broken", "stuck"}
          /\ Spend(x.cost) /\ tags' = tags
          /\ Return(IF x.f.res.kind = "stuck" THEN "stuck" ELSE "other")
  /\ UNCHANGED <<open, pc, job, added, cursor, groups, historyVars>>

\* An enumerator cannot be created, or that of the leaves fails with a
\* connection error.
FrameFails ==
  /\ \/ InFrame("branches") /\ Top.it = Iterator(NamesOf(cursor, Branches))
     \/ InFrame("leaves") /\ (~Full \/ Top.it = Iterator(NamesOf(cursor, Items)))
  /\ Spend(1)
  /\ \E class \in Class : Return(class)
  /\ UNCHANGED <<open, pc, job, resultVars, cursor, groups, historyVars>>

\* max_tags was reached, or every branch was visited.
LeaveFrame ==
  /\ \/ InFrame("leaves") /\ Full
     \/ InFrame("down") /\ (Full \/ Top.todo = <<>>)
  /\ Return("ok")
  /\ UNCHANGED <<open, pc, job, resultVars, cursor, groups, faults, historyVars>>

\* The next branch: BROWSE_DOWN and the recursive call.
Descend ==
  /\ InFrame("down") /\ ~Full /\ Top.todo # <<>>
  /\ cursor' \in ChildNamed(cursor, Head(Top.todo)) \cap Branches
  /\ Enter(Append(Front(stack), [Top EXCEPT !.todo = Tail(@)]), cursor')
  /\ UNCHANGED <<open, pc, job, resultVars, groups, faults, historyVars>>

\* A refused BROWSE_DOWN is logged and the branch skipped.
DescendRefused ==
  /\ InFrame("down") /\ ~Full /\ Top.todo # <<>>
  /\ Spend(IF ChildNamed(cursor, Head(Top.todo)) \cap Branches = {} THEN 0 ELSE 1)
  /\ Stay([Top EXCEPT !.todo = Tail(@)])
  /\ UNCHANGED <<open, pc, job, resultVars, cursor, groups, historyVars>>

Returned == pc = "browse" /\ ret # Nil /\ stack # <<>>

\* Mutation: the caller of a failed frame does not move back up.
UpIfOk == IF ret = "ok" THEN Parent(cursor) ELSE cursor

UpTarget == Parent(cursor)

\* Back in the caller: BROWSE_UP whatever the call returned. Only standing
\* still goes on as an error; any other is logged.
Ascend ==
  /\ Returned /\ cursor # Root
  /\ cursor' = UpTarget
  /\ IF ret = "stuck" THEN Return("stuck") ELSE stack' = stack /\ ret' = Nil
  /\ UNCHANGED <<open, pc, job, resultVars, groups, faults, historyVars>>

\* A refused BROWSE_UP: the loop of this level ends, as if it was done.
AscendRefused ==
  /\ Returned
  /\ Spend(IF cursor = Root THEN 0 ELSE 1)
  /\ Return(IF ret = "stuck" THEN "stuck" ELSE "ok")
  /\ adrift' = TRUE
  /\ UNCHANGED <<open, pc, job, resultVars, cursor, groups, answer, asked>>

\* The flat list: item IDs as they come, until max_tags; errors end it.
ListFlat ==
  /\ InFrame("flat")
  /\ \E x \in Fetches(Top.it) :
       /\ Spend(x.cost)
       /\ \/ x.f.res.kind = "end" /\ Return("ok") /\ tags' = tags
          \/ x.f.res.kind # "end" /\ Full /\ Return("ok") /\ tags' = tags
          \/ /\ x.f.res.kind = "name" /\ ~Full
             /\ tags' = Append(tags, x.f.res.name) /\ Stay([Top EXCEPT !.it = x.f.it])
          \/ /\ x.f.res.kind = "broken" /\ ~Full /\ tags' = tags
             /\ \E class \in Class : Return(class)
          \/ x.f.res.kind = "stuck" /\ ~Full /\ Return("other") /\ tags' = tags
  /\ UNCHANGED <<open, pc, job, added, cursor, groups, historyVars>>

\* The outermost frame returned.
EndBrowse ==
  /\ pc = "browse" /\ ret # Nil /\ stack = <<>>
  /\ faults' = faults
  /\ IF ret = "ok" THEN Ends(TRUE, tags) /\ UNCHANGED <<open, job, frameVars, resultVars>>
                   ELSE Fails(ret)
  /\ UNCHANGED <<cursor, groups, asked, adrift>>

-----------------------------------------------------------------------------
(***************************************************************************)
(* Reads and writes. The handler adds a group, adds its items, reads or    *)
(* writes, and removes the group; an error of a call in between returns    *)
(* at once.                                                                *)
(***************************************************************************)

IsIo == job.req.kind \in {"read", "write"}

Want == job.req.want

AddGroup ==
  /\ pc = "begin" /\ IsIo
  /\ groups' = groups + 1
  /\ pc' = "items"
  /\ UNCHANGED <<open, job, frameVars, resultVars, cursor, faults, historyVars>>

\* AddGroup succeeded, but returned no group object, or one without an
\* interface that ComGroup requires: nobody removes that group.
GroupUnusable ==
  /\ pc = "begin" /\ IsIo
  /\ groups' = groups + 1
  /\ Spend(1)
  /\ \E class \in Class : Fails(class)
  /\ UNCHANGED <<cursor, asked, adrift>>

Known(i) == \E n \in Items : Id[n] = Want[i]

\* The positions in S from the first to the last, as the loop over the result
\* array of add_items comes by them.
InOrder(S) ==
  {p \in [1 .. Cardinality(S) -> S] :
     ToSet(p) = S /\ \A i, j \in DOMAIN p : i < j => p[i] < p[j]}

\* Items are added one by one by the server: those it does not know are
\* rejected, and the result keeps their sentinel. With none left the group
\* goes at once.
AddItems ==
  /\ pc = "items"
  /\ \E S \in SUBSET {i \in DOMAIN Want : Known(i)} :
       /\ Spend(Cardinality({i \in DOMAIN Want : Known(i)} \ S))
       /\ tags' = [i \in DOMAIN Want |-> Bad]
       /\ added' \in InOrder(S)
       /\ pc' = IF S = {} THEN "remove" ELSE "io"
  /\ ret' = "ok"
  /\ UNCHANGED <<open, job, stack, cursor, groups, historyVars>>

\* Result arrays of the wrong length: the read removes the group and fails;
\* the write, which looks at the first element only, fails when it is missing.
AddItemsMismatch ==
  /\ pc = "items"
  /\ Spend(1)
  /\ IF job.req.kind = "read"
     THEN /\ ret' = "other" /\ pc' = "remove"
          /\ UNCHANGED <<open, job, stack, resultVars, answer>>
     ELSE Fails("other")
  /\ UNCHANGED <<cursor, groups, asked, adrift>>

\* Mutation: the i-th state goes to the i-th tag.
ScatterInOrder(values, positions, states) ==
  [i \in DOMAIN values |-> IF i \in DOMAIN states THEN states[i] ELSE values[i]]

\* tag_values[valid_indices[i]] = states[i].
Scatter(values, positions, states) ==
  [i \in DOMAIN values |->
     IF \E k \in DOMAIN positions : positions[k] = i
     THEN states[CHOOSE k \in DOMAIN positions : positions[k] = i]
     ELSE values[i]]

\* The device read or the write, with a result for every item handle; an error
\* of one item leaves the sentinel.
Io ==
  /\ pc = "io"
  /\ \E failed \in SUBSET DOMAIN added :
       /\ Spend(Cardinality(failed))
       /\ tags' = Scatter(tags, added,
            [k \in DOMAIN added |-> IF k \in failed THEN Bad ELSE Want[added[k]]])
  /\ pc' = "remove"
  /\ UNCHANGED <<open, job, frameVars, added, cursor, groups, historyVars>>

\* add_items, read or write itself fails, or a write has no result: the
\* handler returns with the group in place.
IoFails ==
  /\ pc \in {"items", "io"}
  /\ Spend(1)
  /\ \E class \in Class : Fails(class)
  /\ UNCHANGED <<cursor, groups, asked, adrift>>

\* Mutation: a read without a valid item returns before the cleanup.
RemovedAfterIo == IF tags # <<>> /\ \A i \in DOMAIN tags : tags[i] = Bad THEN groups ELSE groups - 1

GroupsLeft == groups - 1

\* remove_group; a failure of it is logged only.
RemoveGroup ==
  /\ pc = "remove"
  /\ \/ groups' = GroupsLeft /\ faults' = faults
     \/ groups' = groups /\ Spend(1)
  /\ IF ret = "ok" THEN Ends(TRUE, tags) /\ UNCHANGED <<open, job, frameVars, resultVars>>
                   ELSE Fails(ret)
  /\ UNCHANGED <<cursor, asked, adrift>>

-----------------------------------------------------------------------------
(* Specification. *)

Browse == \/ BeginBrowse \/ ListBranches \/ ListLeaves \/ FrameFails \/ LeaveFrame
          \/ Descend \/ DescendRefused \/ Ascend \/ AscendRefused \/ ListFlat \/ EndBrowse

Group == AddGroup \/ GroupUnusable \/ AddItems \/ AddItemsMismatch \/ Io \/ IoFails \/ RemoveGroup

Worker == Connect \/ ConnectFails \/ BeginFails \/ Browse \/ Group

Next == (Take \/ Worker) /\ UNCHANGED flat

Spec == Init /\ [][Next]_vars

-----------------------------------------------------------------------------
(* Properties. *)

Depth(n) == Len(TrailTo[n])

Answered(kind) == pc = "idle" /\ answer.req # Nil /\ answer.req.kind = kind /\ answer.ok

\* What a browse has to list: on a flat server every item ID, on another the
\* items down to the maximum depth, each under its item ID.
Sources == IF flat THEN {Id[n] : n \in Items} ELSE {n \in Items : Depth(n) <= MaxDepth + 1}

TagOf(s) == IF flat THEN s ELSE Id[s]

\* An Ok browse is the whole list: every item down to the maximum depth exactly
\* once, or exactly max_tags of them; whatever requests ran on the connection
\* before, failed ones included. Nothing is claimed when the server
\* misbehaved during the request, or refused a BROWSE_UP before it.
BrowseComplete ==
  Answered("browse") =>
    /\ Len(answer.value) <= answer.req.limit
    /\ answer.clean =>
         \E from \in [DOMAIN answer.value -> Sources] :
           /\ IsInjective(from)
           /\ \A k \in DOMAIN from : answer.value[k] = TagOf(from[k])
           /\ Len(answer.value) < answer.req.limit => Range(from) = Sources

\* Between requests the connection's cursor is where browse_recursive assumes
\* it, at the root, also after a browse that failed deep down: only a refused
\* BROWSE_UP leaves it elsewhere, and then no request brings it back.
CursorHome == open /\ pc \in {"idle", "begin"} /\ ~adrift => cursor = Root

\* A group outlives its request only because the server failed a call: there
\* are never more leftovers than failures, whatever was rejected item by item.
GroupsExplained == pc \in {"idle", "begin"} => groups <= faults

\* A read answers for every tag in the order asked: the tag's own value or the
\* sentinel, and the value whenever the server knew the item and did not fail.
ReadAligned ==
  Answered("read") =>
    /\ DOMAIN answer.value = DOMAIN answer.req.want
    /\ \A i \in DOMAIN answer.value :
         /\ answer.value[i] \in {Bad, answer.req.want[i]}
         /\ answer.clean => (answer.value[i] = Bad <=> \A n \in Items : Id[n] # answer.req.want[i])

\* "OPC groups are always removed via remove_group, even on error paths"
\* (CHANGELOG.md): a request that ends after its group was added has removed it.
GroupsRemoved ==
  [][(pc \in {"items", "io"} /\ pc' = "idle") => groups' < groups]_vars

=============================================================================
