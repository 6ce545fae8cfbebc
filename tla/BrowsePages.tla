----------------------------- MODULE BrowsePages -----------------------------
(***************************************************************************)
(* One native browse session on the worker (BrowseSessions): the client    *)
(* asks for one page of a node's children at a time and goes on with       *)
(* opaque continuation tokens, for several parents alternately. A DA 3     *)
(* session hands out the server's own pages; a DA 2 session moves the      *)
(* server's browse cursor to the parent, keeps the enumerators of the page *)
(* in the continuation and probes every name for children by moving down   *)
(* and up again. A DA 3 session whose first root page is not compatible    *)
(* turns into a DA 2 session.                                              *)
(*                                                                         *)
(* The worker serves one page at a time; a step here is one call to the    *)
(* server, so that a page may fail between any two of them.                *)
(***************************************************************************)
EXTENDS FiniteSets, Namespace, Enumerator

CONSTANTS
  Sealed,        \* external: branches whose BROWSE_DOWN answers E_INVALIDARG
  Profiles,      \* external: what server and client are like, see Profile
  Sizes,         \* values of max_elements
  MaxNodeTokens, \* MAX_NODE_TOKENS_PER_SESSION
  MaxPageTokens, \* MAX_PAGE_TOKENS_PER_SESSION
  MaxCalls,      \* bound: pages the client asks for
  MaxFaults      \* bound: times the server misbehaves

\* da3, da2: interfaces exposed; stub: its DA 3 Browse answers a compatibility
\* HRESULT; flat: DA 2 organization; filters: bound, the filters the client uses.
Profile == [da3 : BOOLEAN, da2 : BOOLEAN, stub : BOOLEAN, flat : BOOLEAN,
            filters : SUBSET {"all", "branches", "items"}]

ASSUME SessionAssumption ==
  /\ Profiles \subseteq Profile
  /\ Sealed \subseteq Branches \ {Root}
  /\ \A n \in Sealed : KidsOf(n) = {}
  /\ Sizes \subseteq Nat
  /\ MaxNodeTokens \in Nat /\ MaxPageTokens \in Nat
  /\ MaxCalls \in Nat /\ MaxFaults \in Nat

Words == {Name[n] : n \in Nodes} \cup {Id[n] : n \in Nodes}

\* Da2PageState: the parent's path, the enumerators not used up, the branch
\* names listed.
Pages == [trail : Seq(Words), begun : BOOLEAN,
          branches : {Nil} \cup Iterators(Words), items : {Nil} \cup Iterators(Words),
          merged : SUBSET Words]

\* Option::None is none of the values it stands beside.
ASSUME NoneAssumption ==
  /\ Nil \notin Words /\ Nil \notin Seq(Nodes)
  /\ Nil \notin Iterators(Words) /\ Nil \notin Pages

VARIABLES
  profile,   \* external: the server
  pc,        \* where the worker is in the page; "idle" between pages
  backend,   \* session.backend
  rootDone,  \* session.da3_root_succeeded
  path,      \* current_path of a DA 2 backend
  nodes,     \* session.nodes, a token is an index; with the reply's name and ID
  conts,     \* session.continuations
  req,       \* the page being made: [parent, filter, size, chain, from]
  page,      \* its Da2PageState
  ups,       \* BROWSE_UP calls made in this move
  out,       \* its node tokens so far
  cursor,    \* external: node the server's browse cursor is at
  faults,    \* external: faults so far
  calls,     \* bound: pages asked for
  chains,    \* history: per first page, what it and its continuations returned
  adrift     \* history: a BROWSE_UP was refused

sessionVars == <<backend, rootDone, path>>
tokenVars == <<nodes, conts>>
workVars == <<req, page, ups, out>>
serverVars == <<cursor, faults>>
historyVars == <<calls, chains, adrift>>
vars == <<profile, pc, sessionVars, tokenVars, workVars, serverVars, historyVars>>

-----------------------------------------------------------------------------
(* The server. *)

Spend(n) == faults + n <= MaxFaults /\ faults' = faults + n

Enterable == Branches \ Sealed

KindOf(n) ==
  CASE n \in Enterable \cap Items -> "both"
    [] n \in Enterable \ Items -> "branch"
    [] n \in Items \ Enterable -> "item"
    [] OTHER -> "none"

HasChildren(kind) == kind \in {"branch", "both"}
IsItem(kind) == kind \in {"item", "both"}

Passes(kind, filter) ==
  CASE filter = "branches" -> HasChildren(kind)
    [] filter = "items" -> IsItem(kind)
    [] OTHER -> kind # "none"

\* What a DA 3 Browse of n lists, in some order.
Elements(n, filter) == SetToSeq({k \in KidsOf(n) : Passes(KindOf(k), filter)})

\* Every child of n as a listing may show it.
Location(api, trail) == [api |-> api, trail |-> trail]
NowhereBelow == Location("item", <<>>)

Entry(kind, name, id, loc) == [kind |-> kind, name |-> name, id |-> id, loc |-> loc]

-----------------------------------------------------------------------------
(* Pages: refusal, start, end. *)

\* capabilities_for_server found an interface and a known organization; the
\* session starts with DA 3 if the server has it.
Init ==
  /\ profile \in {p \in Profiles : p.da3 \/ p.da2}
  /\ pc = "idle"
  /\ backend = IF profile.da3 THEN "da3" ELSE "da2"
  /\ rootDone = FALSE /\ path = <<>>
  /\ nodes = <<>> /\ conts = <<>>
  /\ req = Nil /\ page = Nil /\ ups = 0 /\ out = <<>>
  /\ cursor = Root /\ faults = 0
  /\ calls = 0 /\ chains = <<>> /\ adrift = FALSE

Given == UNION {ToSet(chains[c].told) : c \in DOMAIN chains}

\* browse_da3 and start_da2_page accept a parent whose node they can reach.
ParentFits(parent) ==
  parent # Nil => /\ HasChildren(nodes[parent].kind)
                  /\ nodes[parent].loc.api = backend

ParentTrail(parent) == IF parent = Nil THEN <<>> ELSE nodes[parent].loc.trail

\* Namespace queries go to DA 2; without it the organization is unknown.
Flat == profile.da2 /\ profile.flat

\* The checks every page starts with.
Admitted(parent, size) == size >= 1 /\ (Flat => parent = Nil)

Da2Page(trail) == [trail |-> trail, begun |-> FALSE, branches |-> Nil, items |-> Nil, merged |-> {}]

Chain(parent, filter) ==
  [parent |-> parent, filter |-> filter, told |-> <<>>, whole |-> FALSE, since |-> faults]

\* Mutation: a continued page takes the cursor to be where it left it.
ServeInPlace(parent, filter, size, chain, from, state) ==
  /\ calls' = calls + 1
  /\ req' = [parent |-> parent, filter |-> filter, size |-> size, chain |-> chain, from |-> from]
  /\ page' = state
  /\ ups' = 0 /\ out' = <<>>
  /\ pc' = IF state = Nil THEN "da3" ELSE IF state.begun THEN "names" ELSE "move"

\* The page is on its way; a DA 2 page, continued or not, moves first.
Serve(parent, filter, size, chain, from, state) ==
  /\ calls' = calls + 1
  /\ req' = [parent |-> parent, filter |-> filter, size |-> size, chain |-> chain, from |-> from]
  /\ page' = state
  /\ ups' = 0 /\ out' = <<>>
  /\ pc' = IF state = Nil THEN "da3" ELSE IF Flat /\ state.begun THEN "names" ELSE "move"

\* A first page; an unknown parent, one without children, and any parent in a
\* flat namespace are refused with no effect.
FirstPage(parent, filter, size) ==
  /\ pc = "idle" /\ calls < MaxCalls
  /\ IF Admitted(parent, size) /\ ParentFits(parent)
     THEN /\ chains' = Append(chains, Chain(parent, filter))
          /\ Serve(parent, filter, size, Len(chains) + 1, Nil,
                   IF backend = "da3" THEN Nil ELSE Da2Page(ParentTrail(parent)))
     ELSE UNCHANGED <<pc, workVars, calls, chains>>
  /\ UNCHANGED <<profile, sessionVars, tokenVars, serverVars, adrift>>

\* Mutation: the token stays valid after it was used.
Keeping(tokens, token) == tokens

Without(tokens, token) == [t \in DOMAIN tokens \ {token} |-> tokens[t]]

With(tokens, token, entry) ==
  [t \in DOMAIN tokens \cup {token} |-> IF t = token THEN entry ELSE tokens[t]]

\* A continuation: its token is consumed before the page is made. A token that
\* is gone, or was given for another parent or filter, is refused.
NextPage(token, parent, filter, size) ==
  /\ pc = "idle" /\ calls < MaxCalls
  /\ IF /\ Admitted(parent, size)
        /\ token \in DOMAIN conts
        /\ conts[token].parent = parent /\ conts[token].filter = filter
     THEN /\ conts' = Without(conts, token)
          /\ Serve(parent, filter, size, conts[token].chain, conts[token].from, conts[token].page)
     ELSE UNCHANGED <<pc, workVars, conts, calls>>
  /\ UNCHANGED <<profile, sessionVars, nodes, serverVars, chains, adrift>>

\* The client's next call: any parent it was given, any token it was given,
\* used up or not.
Call ==
  \E parent \in {Nil} \cup Given, filter \in profile.filters, size \in Sizes :
    \/ FirstPage(parent, filter, size)
    \/ \E token \in 1 .. calls : NextPage(token, parent, filter, size)

\* An error: what the page had collected is lost, its node tokens stay.
GiveUp ==
  /\ pc' = "idle"
  /\ req' = Nil /\ page' = Nil /\ ups' = 0 /\ out' = <<>>

\* The reply. A continuation is stored first; no room for it is an error.
Reply(tokens, more, from, state) ==
  /\ GiveUp
  /\ IF more /\ Cardinality(DOMAIN conts) >= MaxPageTokens
     THEN UNCHANGED <<conts, chains>>
     ELSE /\ chains' = [chains EXCEPT ![req.chain].told = @ \o tokens,
                                      ![req.chain].whole = ~more]
          /\ conts' = IF more
                      THEN With(conts, calls, [parent |-> req.parent, filter |-> req.filter,
                                               chain |-> req.chain, from |-> from, page |-> state])
                      ELSE conts

\* insert_node for as many entries as there is room for.
Insert(entries) ==
  LET room == MaxNodeTokens - Len(nodes)
  IN nodes' = nodes \o SubSeq(entries, 1, IF Len(entries) < room THEN Len(entries) ELSE room)

Fits(entries) == Len(nodes) + Len(entries) <= MaxNodeTokens

-----------------------------------------------------------------------------
(* OPC DA 3. *)

ParentNode ==
  IF req.parent = Nil THEN Root ELSE BranchWithId(nodes[req.parent].loc.trail[1])

\* The elements a browse call goes on with (external: the continuation point).
Remaining == IF req.from # Nil THEN req.from ELSE Elements(ParentNode, req.filter)

Da3Entry(n) ==
  Entry(KindOf(n), Name[n], IF IsItem(KindOf(n)) THEN Id[n] ELSE Nil,
        IF HasChildren(KindOf(n)) THEN Location("da3", <<Id[n]>>) ELSE NowhereBelow)

\* browse_da3 with a well-formed page of at most size elements. A page that
\* comes out sets the root lock, unless it is a continuation.
Da3Page ==
  /\ pc = "da3" /\ ~profile.stub
  /\ \E n \in 0 .. req.size :
       /\ n <= Len(Remaining)
       /\ LET entries == [i \in 1 .. n |-> Da3Entry(Remaining[i])]
              more == n < Len(Remaining)
              left == SubSeq(Remaining, n + 1, Len(Remaining))
              room == more => Cardinality(DOMAIN conts) < MaxPageTokens
          IN /\ Insert(entries)
             /\ IF Fits(entries)
                THEN Reply([i \in 1 .. n |-> Len(nodes) + i], more, left, Nil)
                ELSE GiveUp /\ UNCHANGED <<conts, chains>>
             /\ rootDone' = (rootDone \/ (/\ Fits(entries) /\ room
                                          /\ req.parent = Nil /\ req.from = Nil))
  /\ UNCHANGED <<profile, backend, path, serverVars, calls, adrift>>

\* The call fails, or answers a page that is not well formed: an element that
\* is neither, one without an item ID, more elements without a continuation
\* point. The nodes before the bad one were inserted.
Da3Fails ==
  /\ pc = "da3"
  /\ Spend(1)
  /\ \E n \in 0 .. req.size :
       n <= Len(Remaining) /\ Insert([i \in 1 .. n |-> Da3Entry(Remaining[i])])
  /\ GiveUp
  /\ UNCHANGED <<profile, sessionVars, conts, cursor, historyVars>>

\* Mutation: the root lock is not consulted.
AnyRootPage == req.parent = Nil /\ req.from = Nil

CanFallBack == req.parent = Nil /\ req.from = Nil /\ ~rootDone

\* A compatibility HRESULT. Before the first root page came out, the session
\* becomes a DA 2 session and the page starts over.
Incompatible ==
  /\ pc = "da3"
  /\ Spend(IF profile.stub THEN 0 ELSE 1)
  /\ IF CanFallBack /\ profile.da2
     THEN /\ backend' = "da2" /\ path' = <<>>
          /\ page' = Da2Page(<<>>)
          /\ pc' = "move"
          /\ UNCHANGED <<req, ups, out>>
     ELSE GiveUp /\ UNCHANGED <<backend, path>>
  /\ UNCHANGED <<profile, rootDone, tokenVars, cursor, historyVars>>

-----------------------------------------------------------------------------
(* OPC DA 2: the cursor (move_to_da2_path). *)

Shared == Len(LongestCommonPrefix({path, page.trail}))

\* BROWSE_UP from the root is refused.
UpWorks == cursor # Root

\* Mutation: the path is truncated with the first BROWSE_UP already.
EarlyTruncated == SubSeq(path, 1, Shared)

\* current_path is truncated after the last BROWSE_UP.
AfterUp == IF ups + 1 = Len(path) - Shared THEN SubSeq(path, 1, Shared) ELSE path

MoveUp ==
  /\ pc = "move" /\ ~Flat /\ Len(path) > Shared
  /\ UpWorks /\ cursor' = Parent(cursor)
  /\ path' = AfterUp
  /\ ups' = IF path' = path THEN ups + 1 ELSE 0
  /\ UNCHANGED <<profile, pc, backend, rootDone, tokenVars, req, page, out, faults, historyVars>>

\* A refused BROWSE_UP ends the page with the path as it was before the move,
\* though the cursor may have moved up already.
MoveUpRefused ==
  /\ pc = "move" /\ ~Flat /\ Len(path) > Shared
  /\ Spend(IF UpWorks THEN 1 ELSE 0)
  /\ adrift' = TRUE
  /\ GiveUp
  /\ UNCHANGED <<profile, sessionVars, tokenVars, cursor, calls, chains>>

Below(name) == ChildNamed(cursor, name) \cap Enterable

AtShared == pc = "move" /\ ~Flat /\ Len(path) = Shared /\ path # page.trail

DownName == page.trail[Len(path) + 1]

MoveDown ==
  /\ AtShared
  /\ cursor' \in Below(DownName)
  /\ path' = Append(path, DownName)
  /\ UNCHANGED <<profile, pc, backend, rootDone, tokenVars, workVars, faults, historyVars>>

MoveDownRefused ==
  /\ AtShared
  /\ Spend(IF Below(DownName) = {} THEN 0 ELSE 1)
  /\ GiveUp
  /\ UNCHANGED <<profile, sessionVars, tokenVars, cursor, historyVars>>

Arrived == pc = "move" /\ ~page.begun /\ (Flat \/ path = page.trail)

\* The enumerators are created where the cursor is, as the filter says.
Begin ==
  /\ Arrived
  /\ page' = [page EXCEPT
       !.begun = TRUE,
       !.branches = IF Flat \/ req.filter = "items" THEN Nil
                    ELSE Iterator(NamesOf(cursor, Branches)),
       !.items = IF req.filter = "branches" THEN Nil
                 ELSE Iterator(IF Flat THEN SetToSeq({Id[i] : i \in ItemsBelow(Root)})
                                       ELSE NamesOf(cursor, Items))]
  /\ pc' = "names"
  /\ UNCHANGED <<profile, sessionVars, tokenVars, req, ups, out, serverVars, historyVars>>

Arrive ==
  /\ pc = "move" /\ page.begun /\ path = page.trail
  /\ pc' = "names"
  /\ UNCHANGED <<profile, sessionVars, tokenVars, workVars, serverVars, historyVars>>

-----------------------------------------------------------------------------
(* OPC DA 2: the names of a page. *)

Listing == pc = "names" /\ Len(out) < req.size

InBranches == Listing /\ page.branches # Nil
InItems == Listing /\ page.branches = Nil /\ page.items # Nil

\* The answers of a probe (DOWN, then UP) and of an item ID lookup.
Navigable(name) ==
  {[in |-> Below(name) # {}, cost |-> 0]}
  \cup (IF Below(name) = {} THEN {} ELSE {[in |-> FALSE, cost |-> 1]})

Resolved(name) ==
  LET ids == {Id[k] : k \in ChildNamed(cursor, name) \cap Items}
  IN {[id |-> id, cost |-> 0] : id \in IF ids = {} THEN {Nil} ELSE ids}
     \cup (IF ids = {} THEN {} ELSE {[id |-> Nil, cost |-> 1]})

\* A name becomes a node of the page, or the session has no room for it.
List(name, id, in, state) ==
  LET kind == CASE in /\ id # Nil -> "both" [] in /\ id = Nil -> "branch" [] OTHER -> "item"
      entry == Entry(kind, name, id,
                     IF in THEN Location("da2", Append(page.trail, name)) ELSE NowhereBelow)
  IN /\ Insert(<<entry>>)
     /\ IF Fits(<<entry>>)
        THEN /\ out' = Append(out, Len(nodes) + 1)
             /\ page' = state
             /\ UNCHANGED <<pc, req, ups>>
        ELSE GiveUp

Skip(state) == page' = state /\ UNCHANGED <<pc, nodes, req, ups, out>>

Merged(names, name, id, in) == IF id = Nil THEN names ELSE names \cup {name}

\* map_browse_da2_branch. A branch name that cannot be entered is an item if
\* it has an item ID, unless only branches were asked for.
NextBranch ==
  /\ InBranches
  /\ \E x \in NextOf(page.branches) :
       /\ x.f.res.kind = "name"
       /\ LET name == x.f.res.name
          IN \E r \in Resolved(name), v \in Navigable(name) :
               /\ Spend(x.cost + r.cost + v.cost)
               /\ LET state == [page EXCEPT !.branches = x.f.it,
                                            !.merged = Merged(@, name, r.id, v.in)]
                  IN IF v.in \/ (r.id # Nil /\ req.filter # "branches")
                     THEN List(name, r.id, v.in, state)
                     ELSE Skip(state)
  /\ UNCHANGED <<profile, sessionVars, conts, cursor, historyVars>>

\* The branch enumerator ends, or stands still: on to the items.
EndBranches ==
  /\ InBranches
  /\ \E x \in NextOf(page.branches) : x.f.res.kind \in {"end", "stuck"} /\ Spend(x.cost)
  /\ page' = [page EXCEPT !.branches = Nil]
  /\ UNCHANGED <<profile, pc, sessionVars, tokenVars, req, ups, out, cursor, historyVars>>

\* A leaf name, unless it was listed with the branches; in a flat namespace it
\* is the item ID.
NextItem ==
  /\ InItems
  /\ \E x \in NextOf(page.items) :
       /\ x.f.res.kind = "name"
       /\ LET name == x.f.res.name
              state == [page EXCEPT !.items = x.f.it]
          IN \/ /\ name \in page.merged
                /\ Spend(x.cost) /\ Skip(state)
             \/ /\ name \notin page.merged /\ Flat
                /\ Spend(x.cost)
                /\ List(name, name, FALSE, state)
             \/ /\ name \notin page.merged /\ ~Flat
                /\ \E r \in Resolved(name), v \in Navigable(name) :
                     /\ r.id # Nil
                     /\ Spend(x.cost + v.cost)
                     /\ List(name, r.id, v.in, state)
  /\ UNCHANGED <<profile, sessionVars, conts, cursor, historyVars>>

EndItems ==
  /\ InItems
  /\ \E x \in NextOf(page.items) : x.f.res.kind = "end" /\ Spend(x.cost)
  /\ page' = [page EXCEPT !.items = Nil]
  /\ UNCHANGED <<profile, pc, sessionVars, tokenVars, req, ups, out, cursor, historyVars>>

\* An enumerator fails, standing still included for the items; or the name it
\* gave has no item ID there, which the cursor of another branch makes likely.
NamesFail ==
  /\ InBranches \/ InItems
  /\ \E x \in NextOf(IF InBranches THEN page.branches ELSE page.items) :
       \/ x.f.res.kind = "broken" /\ Spend(x.cost)
       \/ InItems /\ x.f.res.kind = "stuck" /\ Spend(x.cost)
       \/ /\ InItems /\ ~Flat /\ x.f.res.kind = "name" /\ x.f.res.name \notin page.merged
          /\ \A r \in Resolved(x.f.res.name) : r.id = Nil
          /\ Spend(x.cost)
  /\ GiveUp
  /\ UNCHANGED <<profile, sessionVars, tokenVars, cursor, historyVars>>

\* Any other call fails: creating an enumerator, an item ID, a BROWSE_DOWN.
CallFails ==
  /\ Arrived \/ InBranches \/ InItems
  /\ Spend(1)
  /\ GiveUp
  /\ UNCHANGED <<profile, sessionVars, tokenVars, cursor, historyVars>>

\* A probe moved down and is not let up again: the page fails with the cursor
\* one level below the path.
ProbeStrands ==
  /\ (InBranches \/ InItems) /\ ~Flat
  /\ \E x \in NextOf(IF InBranches THEN page.branches ELSE page.items) :
       /\ x.f.res.kind = "name"
       /\ InItems => x.f.res.name \notin page.merged
       /\ Spend(x.cost + 1)
       /\ cursor' \in Below(x.f.res.name)
  /\ adrift' = TRUE
  /\ GiveUp
  /\ UNCHANGED <<profile, sessionVars, tokenVars, calls, chains>>

PageFull == pc = "names" /\ ~InBranches /\ ~InItems

\* Da2PageState::has_more, then the continuation. A value read ahead, a
\* failure included, waits for the next page; a branch enumerator that stands
\* still is dropped here too.
EndPage ==
  /\ PageFull
  /\ \E b \in Peeks(page.branches) :
       IF b.f.res.kind \in {"name", "broken"}
       THEN /\ Spend(b.cost)
            /\ Reply(out, TRUE, Nil, [page EXCEPT !.branches = b.f.it])
       ELSE \E i \in Peeks(page.items) :
            /\ Spend(b.cost + i.cost)
            /\ Reply(out, i.f.res.kind # "end", Nil,
                     [page EXCEPT !.branches = IF b.f.res.kind = "stuck" THEN Nil ELSE b.f.it,
                                  !.items = i.f.it])
  /\ UNCHANGED <<profile, sessionVars, nodes, cursor, calls, adrift>>

-----------------------------------------------------------------------------
(* Specification. *)

Da3 == Da3Page \/ Da3Fails \/ Incompatible

Move == MoveUp \/ MoveUpRefused \/ MoveDown \/ MoveDownRefused \/ Begin \/ Arrive

Read == \/ NextBranch \/ EndBranches \/ NextItem \/ EndItems
        \/ NamesFail \/ CallFails \/ ProbeStrands \/ EndPage

Next == Call \/ Da3 \/ Move \/ Read

Spec == Init /\ [][Next]_vars

-----------------------------------------------------------------------------
(* Properties. *)

\* The node a chain lists the children of, by the token it was asked with.
Listed(c) ==
  IF chains[c].parent = Nil THEN {Root}
  ELSE LET loc == nodes[chains[c].parent].loc
       IN IF loc.api = "da3" THEN {BranchWithId(loc.trail[1])} ELSE Walk(Root, loc.trail)

Reference(kind, name, id) == [kind |-> kind, name |-> name, id |-> id]

\* What a client that walks the namespace itself would list.
Expected(c) ==
  LET filter == chains[c].filter
  IN IF Flat /\ backend = "da2"
     THEN IF filter = "branches" THEN {}
          ELSE {Reference("item", Id[i], Id[i]) : i \in ItemsBelow(Root)}
     ELSE {Reference(KindOf(k), Name[k], IF IsItem(KindOf(k)) THEN Id[k] ELSE Nil) :
             k \in {k \in UNION {KidsOf(n) : n \in Listed(c)} : Passes(KindOf(k), filter)}}

Shown(t) == Reference(nodes[t].kind, nodes[t].name, nodes[t].id)

\* The pages a client gets by following continuations, whatever their sizes,
\* whatever it browses in between and however often it presents a token, list
\* every child of the parent that the filter lets through exactly once, as
\* branch, item or both (branch and leaf names merged across page borders).
\* Nothing is claimed of a chain during which the server misbehaved.
ChildrenOnce ==
  \A c \in DOMAIN chains :
    LET told == chains[c].told
    IN ~adrift /\ faults = chains[c].since =>
         /\ \A i, j \in DOMAIN told : nodes[told[i]].name = nodes[told[j]].name => i = j
         /\ {Shown(told[i]) : i \in DOMAIN told} \subseteq Expected(c)
         /\ chains[c].whole => {Shown(told[i]) : i \in DOMAIN told} = Expected(c)

\* Whatever else fails, no page shows a name or an item ID of another branch
\* than the one asked for, unless the server refused a BROWSE_UP: the paths of
\* node tokens stay valid while other pages move the cursor.
EntriesInPlace ==
  ~adrift /\ ~(Flat /\ backend = "da2") =>
    \A c \in DOMAIN chains : \A i \in DOMAIN chains[c].told :
      LET e == nodes[chains[c].told[i]]
      IN \E n \in Listed(c) : \E k \in ChildNamed(n, e.name) : e.id \in {Nil, Id[k]}

\* A page that fails half way, moves and probes included, leaves current_path
\* naming the node the server's cursor is at. The exception is a BROWSE_UP that
\* is refused: the path then keeps components the cursor has left, or lacks the
\* one a probe went down.
CursorTracked ==
  backend = "da2" /\ ~adrift /\ pc = "idle" => Walk(Root, path) = {cursor}

\* A session changes from DA 3 to DA 2 only before the client holds any node
\* token or continuation of it, because none would survive the change.
FallBackFirst == [][backend' # backend => Given = {} /\ DOMAIN conts = {}]_vars

=============================================================================
