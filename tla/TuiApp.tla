-------------------------------- MODULE TuiApp --------------------------------
(***************************************************************************)
(* The state of the terminal program opc-cli: one loop polls the results   *)
(* of the background calls, starts the automatic refresh, and handles one  *)
(* key (run_app, App). Every call goes to the one COM worker of the        *)
(* client, which serves calls in order; a call whose result nobody awaits  *)
(* any more is still served.                                               *)
(*                                                                         *)
(* A tag is its server and its number in that server's list. Left out:     *)
(* messages, the host and value being typed, list_state (the selection as  *)
(* drawn), and state nothing reads before it is written again              *)
(* (write_tag_id off the input screen, search matches out of search mode,  *)
(* selected_tags of a cleared list).                                       *)
(***************************************************************************)
EXTENDS Naturals, Sequences, FiniteSets, SequencesExt

CONSTANTS
  Servers,         \* ProgIDs, as a sequence: the list a fetch returns
  MaxTags,         \* bound: tags of a server
  MaxOutstanding,  \* bound: calls the worker has not served
  Page,            \* page_size
  Nil              \* Option::None

ASSUME TuiAssumption ==
  /\ Servers \in Seq(Range(Servers)) /\ Nil \notin Range(Servers)
  /\ MaxTags \in Nat \ {0} /\ MaxOutstanding \in Nat /\ Page \in Nat \ {0, 1}

Kinds == {"fetch", "browse", "read", "write"}

VARIABLES
  screen,    \* current_screen
  servers,   \* servers
  tags,      \* tags: their server and how many
  marked,    \* selected_tags, as the set of indices
  browsed,   \* browsed_server
  values,    \* tag_values: server and tag numbers, or Nil when empty;
             \* last_read_time is set and cleared with it
  refresh,   \* refresh_server and refresh_tag_ids, set and cleared together
  writing,   \* write_tag_id: [srv, tag]
  index,     \* selected_index, counted from 1; 0 is None
  row,       \* table_state, the same
  search,    \* Nil, or search mode: search_matches and search_match_index
  rx,        \* the four *_result_rx: Nil, Waiting or a result
  calls,     \* external: the worker's queue of calls, the first one running
  pc         \* the next step of the loop's iteration, a number in Steps

listVars == <<servers, tags, marked, browsed>>
valueVars == <<values, refresh>>
cursorVars == <<index, row, search>>
vars == <<screen, listVars, valueVars, writing, cursorVars, rx, calls, pc>>

Steps == 1 .. 6
Refreshing == 5  \* after the four polls
Pressing == 6    \* waiting for a key

NoTags == [srv |-> Nil, len |-> 0]

Init ==
  /\ screen = "Home"
  /\ servers = <<>> /\ tags = NoTags /\ marked = {} /\ browsed = Nil
  /\ values = Nil /\ refresh = Nil
  /\ writing = Nil
  /\ index = 0 /\ row = 0 /\ search = Nil
  /\ rx = [k \in Kinds |-> Nil]
  /\ calls = <<>>
  /\ pc = 1

-----------------------------------------------------------------------------
(* Calls. *)

\* What a read asks for: a server and tag numbers, which may carry the numbers
\* of another server's tags.
Target(srv, of, ns) == [srv |-> srv, of |-> of, ns |-> ns]

\* In the queue, a call whose result nobody awaits: what it asks for is not kept.
Unawaited == [kind |-> "any", about |-> Nil]

Waiting == [ok |-> FALSE, what |-> "nothing yet"]

\* Mutant: the earlier receiver goes on being read.
StartBesideEarlier(kind, about) ==
  /\ Len(calls) < MaxOutstanding
  /\ calls' = Append(calls, [kind |-> kind, about |-> about])
  /\ rx' = [rx EXCEPT ![kind] = Waiting]

\* tokio::spawn and a new one-shot: the receiver of an earlier call of this
\* kind is dropped, the earlier call is not.
Start(kind, about) ==
  /\ Len(calls) < MaxOutstanding
  /\ calls' = Append([i \in DOMAIN calls |-> IF calls[i].kind = kind THEN Unawaited ELSE calls[i]],
                     [kind |-> kind, about |-> about])
  /\ rx' = [rx EXCEPT ![kind] = Waiting]

Failed == [ok |-> FALSE, what |-> "error"]
Found(what) == [ok |-> TRUE, what |-> what]

\* Results of a call that succeeds.
Successes(c) ==
  CASE c.kind = "fetch" -> {Found(<<>>), Found(Servers)}
    [] c.kind = "browse" -> {Found(NoTags)} \cup {Found([srv |-> c.about, len |-> n]) : n \in 1 .. MaxTags}
    [] c.kind = "read" -> {Found(c.about)}
    [] c.kind = "write" -> {Found(Nil)}

Deliver(kind, result) == rx' = [rx EXCEPT ![kind] = result]

\* A result that comes between two polls has the effect of one that comes before
\* all of them or after.
Unseen == screen = "Exiting" \/ pc \notin {1, Pressing}

\* The worker finishes the call it is at.
Served ==
  /\ calls # <<>> /\ ~Unseen
  /\ LET c == Head(calls)
     IN IF c # Unawaited THEN \E result \in Successes(c) \cup {Failed} : Deliver(c.kind, result)
                  ELSE UNCHANGED rx
  /\ calls' = Tail(calls)
  /\ UNCHANGED <<screen, listVars, valueVars, writing, cursorVars, pc>>

\* A timeout ends the wait, not the call. A browse returns what its sink holds,
\* which is nothing before the worker has begun with it.
TimesOut ==
  /\ ~Unseen
  /\ \E i \in DOMAIN calls :
       /\ calls[i] # Unawaited
       /\ \/ Deliver(calls[i].kind, Failed)
          \/ /\ calls[i].kind = "browse" /\ i = 1
             /\ \E n \in 1 .. MaxTags :
                  Deliver("browse", Found([srv |-> calls[i].about, len |-> n]))
       /\ calls' = [calls EXCEPT ![i] = Unawaited]
  /\ UNCHANGED <<screen, listVars, valueVars, writing, cursorVars, pc>>

-----------------------------------------------------------------------------
(***************************************************************************)
(* One iteration of the loop: four polls, the automatic refresh, a key.    *)
(***************************************************************************)
Order == <<"fetch", "browse", "read", "write">>

Arrived(kind) == rx[kind] # Nil /\ rx[kind] # Waiting

\* The loop is at its n-th step, the polls it skipped having nothing to take.
At(n) ==
  /\ pc <= n /\ screen # "Exiting"
  /\ \A i \in pc .. n - 1 : i \in DOMAIN Order => ~Arrived(Order[i])

\* The n-th poll takes its result.
Taken(n) ==
  /\ At(n) /\ Arrived(Order[n])
  /\ rx' = [rx EXCEPT ![Order[n]] = Nil]
  /\ pc' = n + 1

\* The input screen left, the write's tag is not looked at again.
Show(s) == screen' = s /\ writing' = Nil

\* Mutant: the screen is not changed.
ErrorResultStays(n, back) ==
  /\ Taken(n) /\ ~rx[Order[n]].ok
  /\ UNCHANGED <<screen, writing, listVars, valueVars, cursorVars, calls>>

\* An error, or a dropped sender.
ErrorResult(n, back) ==
  /\ Taken(n) /\ ~rx[Order[n]].ok
  /\ Show(back)
  /\ UNCHANGED <<listVars, valueVars, cursorVars, calls>>

First(n) == IF n = 0 THEN 0 ELSE 1

PollFetch ==
  \/ ErrorResult(1, "Home")
  \/ /\ Taken(1) /\ rx["fetch"].ok
     /\ servers' = rx["fetch"].what
     /\ index' = First(Len(servers'))
     /\ Show("ServerList")
     /\ UNCHANGED <<tags, marked, browsed, valueVars, row, search, calls>>

\* Mutant: selected_tags is not made anew.
PollBrowseKeepsMarks ==
  \/ ErrorResult(2, "ServerList")
  \/ /\ Taken(2) /\ rx["browse"].ok
     /\ tags' = rx["browse"].what
     /\ index' = First(tags'.len)
     /\ Show("TagList")
     /\ UNCHANGED <<servers, marked, browsed, valueVars, row, search, calls>>

PollBrowse ==
  \/ ErrorResult(2, "ServerList")
  \/ /\ Taken(2) /\ rx["browse"].ok
     /\ tags' = rx["browse"].what
     /\ marked' = {}
     /\ index' = First(tags'.len)
     /\ Show("TagList")
     /\ UNCHANGED <<servers, browsed, valueVars, row, search, calls>>

\* The number of rows of the values table.
Rows(v) == IF v = Nil THEN 0 ELSE Cardinality(v.ns)

Clamped(i, n) == IF i = 0 THEN 1 ELSE IF i > n THEN n ELSE i

\* Mutant: the row is kept as it is.
PollReadUnclamped ==
  \/ ErrorResult(3, "TagList")
  \/ /\ Taken(3) /\ rx["read"].ok
     /\ values' = rx["read"].what
     /\ index' = IF index = 0 THEN 1 ELSE index
     /\ row' = index'
     /\ Show("TagValues")
     /\ UNCHANGED <<listVars, refresh, search, calls>>

\* Mutant: the input screen is not left when values come.
PollReadUnderInput ==
  \/ ErrorResult(3, "TagList")
  \/ /\ Taken(3) /\ rx["read"].ok
     /\ values' = rx["read"].what
     /\ index' = Clamped(index, Rows(values'))
     /\ row' = index'
     /\ IF screen = "WriteInput" THEN UNCHANGED <<screen, writing>> ELSE Show("TagValues")
     /\ UNCHANGED <<listVars, refresh, search, calls>>

\* The row is kept, clamped to the new table.
PollRead ==
  \/ ErrorResult(3, "TagList")
  \/ /\ Taken(3) /\ rx["read"].ok
     /\ values' = rx["read"].what
     /\ index' = Clamped(index, Rows(values'))
     /\ row' = index'
     /\ Show("TagValues")
     /\ UNCHANGED <<listVars, refresh, search, calls>>

\* Success and failure both lead back to the values. The refresh asked for
\* after a success, start_read_values, returns at once on that screen.
PollWrite ==
  \/ ErrorResult(4, "TagValues")
  \/ /\ Taken(4) /\ rx["write"].ok
     /\ Show("TagValues")
     /\ UNCHANGED <<listVars, valueVars, cursorVars, calls>>

\* external: the draw before the key hands table_state to the table widget, which
\* may move a selection past the last row back to that row.
Drawn ==
  row' \in {row} \cup IF screen \in {"TagValues", "WriteInput"} /\ row > Rows(values)
                     THEN {Rows(values)} ELSE {}

\* maybe_auto_refresh starts a read, on the values screen, with a context, an
\* earlier result at least a second old, and no read in flight.
AutoRefresh ==
  /\ At(Refreshing) /\ pc' = Pressing
  /\ screen = "TagValues" /\ rx["read"] = Nil /\ values # Nil /\ refresh # Nil
  /\ Start("read", refresh)
  /\ Drawn
  /\ UNCHANGED <<screen, listVars, valueVars, writing, index, search>>

\* Or it starts none: its guards fail, or the last result is too young.
NoRefresh ==
  /\ At(Refreshing) /\ pc' = Pressing
  /\ Drawn
  /\ UNCHANGED <<screen, listVars, valueVars, writing, index, search, rx, calls>>

-----------------------------------------------------------------------------
(* Keys: the body of handle_key_event, by screen. *)

Key == pc = Pressing /\ screen # "Exiting" /\ pc' = 1

\* Search mode matters on the tag list only; it survives a change of screen.
Searching == screen = "TagList" /\ search # Nil

NoKey ==
  /\ Key
  /\ UNCHANGED <<screen, listVars, valueVars, writing, cursorVars, rx, calls>>

\* q, and Esc on the first screen.
Quit ==
  /\ Key /\ ~Searching
  /\ screen \in {"Home", "ServerList", "TagList", "TagValues"}
  /\ Show("Exiting")
  /\ UNCHANGED <<listVars, valueVars, cursorVars, rx, calls>>

StartFetch ==
  /\ Key /\ screen = "Home"
  /\ Start("fetch", Nil)
  /\ Show("Loading")
  /\ UNCHANGED <<listVars, valueVars, cursorVars>>

StartBrowse ==
  /\ Key /\ screen = "ServerList"
  /\ index \in DOMAIN servers
  /\ browsed' = servers[index]
  /\ Start("browse", servers[index])
  /\ Show("Loading")
  /\ UNCHANGED <<servers, tags, marked, valueVars, cursorVars>>

\* start_read_values, from the list or from the search box, which it closes.
StartRead ==
  /\ Key /\ screen = "TagList"
  /\ marked # {} /\ browsed # Nil
  /\ refresh' = Target(browsed, tags.srv, marked)
  /\ Start("read", refresh')
  /\ Show("Loading")
  /\ search' = Nil
  /\ UNCHANGED <<listVars, values, index, row>>

\* The tags in row i of a table, or at the i-th match of a search: one, or none.
InRow(S, i) == {n \in S : Cardinality({m \in S : m <= n}) = i}

\* enter_write_mode: the only row, or the highlighted one.
EnterWrite ==
  /\ Key /\ screen = "TagValues" /\ values # Nil
  /\ \E n \in InRow(values.ns, IF Rows(values) = 1 THEN 1 ELSE row) :
       writing' = [srv |-> values.of, tag |-> n]
  /\ screen' = "WriteInput"
  /\ UNCHANGED <<listVars, valueVars, cursorVars, rx, calls>>

\* start_write_value with a value typed; without a server it stays.
StartWrite ==
  /\ Key /\ screen = "WriteInput"
  /\ refresh # Nil
  /\ Start("write", [srv |-> refresh.srv, of |-> writing.srv])
  /\ Show("Loading")
  /\ UNCHANGED <<listVars, valueVars, cursorVars>>

\* Esc: go_back, which does nothing while loading.
GoBack ==
  /\ Key /\ ~Searching
  /\ \/ /\ screen = "ServerList"
        /\ Show("Home") /\ servers' = <<>> /\ index' = 0
        /\ UNCHANGED <<tags, marked, browsed, valueVars, row, search>>
     \/ /\ screen = "TagList"
        /\ Show("ServerList") /\ tags' = NoTags /\ marked' = {}
        /\ index' = IF servers # <<>> THEN 1 ELSE index
        /\ UNCHANGED <<servers, browsed, valueVars, row, search>>
     \/ /\ screen = "TagValues"
        /\ Show("TagList")
        /\ values' = Nil /\ refresh' = Nil
        /\ index' = First(tags.len)
        /\ UNCHANGED <<listVars, row, search>>
     \/ /\ screen = "WriteInput"
        /\ Show("TagValues")
        /\ UNCHANGED <<listVars, valueVars, cursorVars>>
  /\ UNCHANGED <<rx, calls>>

-----------------------------------------------------------------------------
(* Keys that move the selection. *)

Count == CASE screen = "ServerList" -> Len(servers)
           [] screen = "TagList" -> tags.len
           [] screen = "TagValues" -> Rows(values)
           [] OTHER -> 0

Lists == {"ServerList", "TagList", "TagValues"}

\* Moving by d rows down or up; a page up on an empty list selects its first
\* row, and a step down from nothing leaves the table's row alone.
Moved(d) ==
  \/ /\ Count > 0
     /\ index' = IF index = 0 THEN 1
                 ELSE IF d = 1 THEN (IF index < Count THEN index + 1 ELSE index)
                 ELSE IF index + d > Count THEN Count ELSE index + d
     /\ row' = IF screen = "TagValues" /\ (d > 1 \/ (index # 0 /\ index' # index)) THEN index' ELSE row
  \/ /\ d = 1 => index > 1
     /\ index' = IF index > d THEN index - d ELSE 1
     /\ row' = IF screen = "TagValues" THEN index' ELSE row

Move ==
  /\ Key /\ screen \in Lists /\ ~Searching
  /\ \E d \in {1, Page} : Moved(d)
  /\ UNCHANGED <<screen, listVars, valueVars, writing, search, rx, calls>>

Toggle ==
  /\ Key /\ screen = "TagList"
  /\ index \in 1 .. tags.len
  /\ marked' = IF index \in marked THEN marked \ {index} ELSE marked \cup {index}
  /\ UNCHANGED <<screen, servers, tags, browsed, valueVars, writing, cursorVars, rx, calls>>

EnterSearch ==
  /\ Key /\ screen = "TagList" /\ search = Nil
  /\ search' = [matches |-> {}, at |-> 1]
  /\ UNCHANGED <<screen, listVars, valueVars, writing, index, row, rx, calls>>

\* A character typed or deleted: which tags contain the query is not modelled.
Query ==
  /\ Key /\ Searching
  /\ \E found \in SUBSET (1 .. tags.len) :
       /\ search' = [matches |-> found, at |-> 1]
       /\ index' \in IF found = {} THEN {index} ELSE InRow(found, 1)
  /\ UNCHANGED <<screen, listVars, valueVars, writing, row, rx, calls>>

\* Tab and Shift+Tab.
NextMatch ==
  /\ Key /\ Searching /\ search.matches # {}
  /\ LET n == Cardinality(search.matches)
     IN \E at \in {(search.at % n) + 1, IF search.at = 1 THEN n ELSE search.at - 1} :
          /\ search' = [search EXCEPT !.at = at]
          /\ index' \in InRow(search.matches, at)
  /\ UNCHANGED <<screen, listVars, valueVars, writing, row, rx, calls>>

ExitSearch ==
  /\ Key /\ Searching
  /\ search' = Nil
  /\ UNCHANGED <<screen, listVars, valueVars, writing, index, row, rx, calls>>

-----------------------------------------------------------------------------

Loop == PollFetch \/ PollBrowse \/ PollRead \/ PollWrite
        \/ AutoRefresh \/ NoRefresh \/ NoKey

Press == \/ Quit \/ StartFetch \/ StartBrowse \/ StartRead \/ EnterWrite \/ StartWrite \/ GoBack
         \/ Move \/ Toggle \/ EnterSearch \/ Query \/ NextMatch \/ ExitSearch

Next == Loop \/ Press \/ Served \/ TimesOut

\* The program goes round its loop, and the timeouts it sets on its calls fire:
\* nothing is asked of the worker.
Spec == Init /\ [][Next]_vars /\ WF_vars(Loop) /\ WF_vars(TimesOut)

-----------------------------------------------------------------------------

\* Selections are rows of some list, marks are on tags of the list at hand, and
\* every pending result is one of its kind.
TypeOK ==
  /\ screen \in {"Home", "Loading", "ServerList", "TagList", "TagValues", "WriteInput", "Exiting"}
  /\ servers \in {<<>>, Servers} /\ browsed \in Range(Servers) \cup {Nil}
  /\ tags = NoTags \/ (tags.srv \in Range(Servers) /\ tags.len \in 1 .. MaxTags)
  /\ marked \subseteq 1 .. tags.len
  /\ \A v \in {values, refresh} :
       v = Nil \/ ({v.srv, v.of} \subseteq Range(Servers) /\ v.ns \in (SUBSET (1 .. MaxTags)) \ {{}})
  /\ writing # Nil => writing.srv \in Range(Servers) /\ writing.tag \in 1 .. MaxTags
  /\ {index, row} \subseteq 0 .. Max({MaxTags, Len(Servers)})
  /\ search # Nil => /\ search.matches \subseteq 1 .. MaxTags
                     /\ search.at \in {1} \cup 1 .. Cardinality(search.matches)
  /\ DOMAIN rx = Kinds
  /\ Len(calls) <= MaxOutstanding
  /\ \A i \in DOMAIN calls : calls[i] # Unawaited => rx[calls[i].kind] = Waiting
  /\ pc \in Steps

\* An answer never leaves the values table with a highlighted row it does not
\* have, whatever list the selection came from and however late the read was
\* (poll_read_result clamps it). After that the row is lost only by a step up from
\* a selection of another list: a failed refresh leads to the tag list with the
\* table kept, the result of a write back to the table, and nothing clamps then.
HighlightedRowLost ==
  values' # Nil /\ row' \notin 1 .. Rows(values')
    => values' = values /\ (row \notin 1 .. Rows(values) \/ index > Rows(values))

RowStaysInTable == [][HighlightedRowLost]_vars

\* While a value is typed the tag it is for is a row of the values last read,
\* although reads go on arriving (enter_write_mode copies the tag's name).
InputNamesShownRow ==
  screen = "WriteInput" => values # Nil /\ writing.srv = values.of /\ writing.tag \in values.ns

\* The values shown are those of the read asked for last: no answer of an
\* earlier one, still under way when the user went back and chose other tags or
\* another server, replaces them (a new one-shot drops the earlier receiver).
LatestReadShown ==
  [][values' # values /\ values' # Nil /\ refresh # Nil => values' = refresh]_vars

\* The loading screen, which no key leaves, is left: each start_* sets up the
\* call whose result or timeout ends it, and each poll_* leaves it on success,
\* error and a dropped sender alike.
LoadingEnds == screen = "Loading" ~> screen # "Loading"

\* A value is written to the server whose tag the input screen names ("Start
\* writing a value to the selected tag", app.rs:604). start_write_value takes
\* the server from the context of the last read started, which is another one
\* when that read failed and the values of an earlier read came back on screen.
WriteToItsServer ==
  \A i \in DOMAIN calls : calls[i].kind = "write" => calls[i].about.srv = calls[i].about.of

=============================================================================
