----------------------------- MODULE NativeCalls -----------------------------
(***************************************************************************)
(* One native call after another on a connected COM object: the interfaces *)
(* an object must and may have (v1, v2, v3, ComServer, ComGroup), the      *)
(* wrapper of every method (opc_da/client/traits) and the ownership of     *)
(* what the server allocates (opc_da/com_utils.rs).                        *)
(*                                                                         *)
(* A method is described by what can go wrong in it: how many slices of    *)
(* the caller the server reads, which of their lengths are checked, and    *)
(* which arrays and strings come back. Scalars are left out.               *)
(***************************************************************************)
EXTENDS Naturals, Sequences, FiniteSets

CONSTANTS
  MaxLen,  \* longest slice or array
  Nil      \* a null pointer

ASSUME LengthAssumption == MaxLen \in Nat /\ Nil \notin Nat

-----------------------------------------------------------------------------
(***************************************************************************)
(* The objects. TryFrom asks for each interface: without a required one    *)
(* there is no object, an optional one is kept if it is there.             *)
(***************************************************************************)

Object(required, optional) == [required |-> required, optional |-> optional]

ServerV1 == Object({"IOPCServer"}, {"IOPCServerPublicGroups", "IOPCBrowseServerAddressSpace"})

GroupV1 ==
  Object({"IOPCItemMgt", "IOPCGroupStateMgt", "IOPCSyncIO", "IOPCAsyncIO", "IDataObject"},
         {"IOPCPublicGroupStateMgt"})

ServerV2 ==
  Object({"IOPCServer", "IOPCCommon", "IConnectionPointContainer", "IOPCItemProperties"},
         {"IOPCServerPublicGroups", "IOPCBrowseServerAddressSpace"})

GroupV2 ==
  Object({"IOPCItemMgt", "IOPCGroupStateMgt", "IOPCSyncIO", "IOPCAsyncIO2", "IConnectionPointContainer"},
         {"IOPCPublicGroupStateMgt", "IOPCAsyncIO", "IDataObject"})

ServerV3 ==
  Object({"IOPCServer", "IOPCCommon", "IConnectionPointContainer", "IOPCBrowse", "IOPCItemIO"}, {})

GroupV3 ==
  Object({"IOPCItemMgt", "IOPCGroupStateMgt", "IOPCGroupStateMgt2", "IOPCSyncIO", "IOPCSyncIO2",
          "IOPCAsyncIO2", "IOPCAsyncIO3", "IOPCItemDeadbandMgt", "IConnectionPointContainer"},
         {"IOPCItemSamplingMgt"})

\* The two the worker uses: a DA 2 server that may also browse by DA 3.
ComServer == Object(ServerV2.required, ServerV2.optional \cup {"IOPCBrowse"})

ComGroup ==
  Object({"IOPCItemMgt", "IOPCGroupStateMgt", "IOPCSyncIO", "IOPCAsyncIO2", "IConnectionPointContainer"},
         {"IOPCPublicGroupStateMgt", "IOPCAsyncIO", "IDataObject"})

Objects == {ServerV1, GroupV1, ServerV2, GroupV2, ServerV3, GroupV3, ComServer, ComGroup}

-----------------------------------------------------------------------------
(***************************************************************************)
(* The methods. slices: how many slices of the caller the server reads,    *)
(* as many elements of each as the first one has. checks: "filled" refuses *)
(* an empty first slice, "equal" different lengths. outs: one kind for     *)
(* each array or string that comes back. The elements of an owning kind    *)
(* each own a block, those of "plain" arrays nothing. Refusals of a scalar *)
(* (an empty item ID, a deadband above 100) change nothing and are left    *)
(* out.                                                                    *)
(***************************************************************************)

Owning == {"text", "value", "blob", "status"}

Method(interface, slices, checks, size, outs) ==
  [of |-> interface, slices |-> slices, checks |-> checks, size |-> size, outs |-> outs]

\* The arrays that come back have the length of the slices given.
Batch(interface, slices, checks, outs) == Method(interface, slices, checks, "request", outs)

\* The server says how long the arrays are.
Listing(interface, outs) == Method(interface, 0, {}, "answer", outs)

Scalar(interface) == Batch(interface, 0, {}, <<>>)

Text(interface) == Batch(interface, 0, {}, <<"string">>)

Both == {"filled", "equal"}

\* IOPCItemMgt.
AddItems == Batch("IOPCItemMgt", 1, {"filled"}, <<"blob", "plain">>)
ValidateItems == Batch("IOPCItemMgt", 1, {"filled"}, <<"blob", "plain">>)
RemoveItems == Batch("IOPCItemMgt", 1, {"filled"}, <<"plain">>)
SetActiveState == Batch("IOPCItemMgt", 1, {"filled"}, <<"plain">>)
SetClientHandles == Batch("IOPCItemMgt", 2, Both, <<"plain">>)
SetDatatypes == Batch("IOPCItemMgt", 2, Both, <<"plain">>)
CreateEnumerator == Scalar("IOPCItemMgt")

\* IOPCSyncIO, IOPCSyncIO2, IOPCItemIO.
SyncRead == Batch("IOPCSyncIO", 1, {"filled"}, <<"value", "plain">>)
SyncWrite == Batch("IOPCSyncIO", 2, Both, <<"plain">>)
SyncReadMaxAge == Batch("IOPCSyncIO2", 2, Both, <<"value", "plain", "plain", "plain">>)
SyncWriteVqt == Batch("IOPCSyncIO2", 2, Both, <<"plain">>)
ItemRead == Batch("IOPCItemIO", 2, Both, <<"value", "plain", "plain", "plain">>)
ItemWriteVqt == Batch("IOPCItemIO", 2, Both, <<"plain">>)

\* IOPCAsyncIO, IOPCAsyncIO2, IOPCAsyncIO3.
AsyncRead == Batch("IOPCAsyncIO", 1, {"filled"}, <<"plain">>)
AsyncWrite == Batch("IOPCAsyncIO", 2, Both, <<"plain">>)
AsyncControl == Scalar("IOPCAsyncIO")
AsyncRead2 == Batch("IOPCAsyncIO2", 1, {}, <<"plain">>)
AsyncWrite2 == Batch("IOPCAsyncIO2", 2, {}, <<"plain">>)
AsyncControl2 == Scalar("IOPCAsyncIO2")
AsyncReadMaxAge == Batch("IOPCAsyncIO3", 2, {"equal"}, <<"plain">>)
AsyncWriteVqt == Batch("IOPCAsyncIO3", 2, {"equal"}, <<"plain">>)
AsyncRefreshMaxAge == Scalar("IOPCAsyncIO3")

\* IOPCItemSamplingMgt, IOPCItemDeadbandMgt.
SetItemSamplingRate == Batch("IOPCItemSamplingMgt", 2, {"equal"}, <<"plain", "plain">>)
GetItemSamplingRate == Batch("IOPCItemSamplingMgt", 1, {}, <<"plain", "plain">>)
ClearItemSamplingRate == Batch("IOPCItemSamplingMgt", 1, {}, <<"plain">>)
SetItemBufferEnable == Batch("IOPCItemSamplingMgt", 2, {"equal"}, <<"plain">>)
GetItemBufferEnable == Batch("IOPCItemSamplingMgt", 1, {}, <<"plain", "plain">>)
SetItemDeadband == Batch("IOPCItemDeadbandMgt", 2, {"equal"}, <<"plain">>)
GetItemDeadband == Batch("IOPCItemDeadbandMgt", 1, {}, <<"plain", "plain">>)
ClearItemDeadband == Batch("IOPCItemDeadbandMgt", 1, {}, <<"plain">>)

\* IOPCServer, IOPCCommon, IConnectionPointContainer, IOPCServerPublicGroups.
AddGroup == Scalar("IOPCServer")
GetStatus == Batch("IOPCServer", 0, {}, <<"status">>)
GroupCalls == Scalar("IOPCServer")
Locale == Scalar("IOPCCommon")
QueryAvailableLocaleIds == Listing("IOPCCommon", <<"plain">>)
GetErrorString == Text("IOPCCommon")
ClientName == Scalar("IOPCCommon")
ConnectionPoints == Scalar("IConnectionPointContainer")
PublicGroups == Scalar("IOPCServerPublicGroups")

\* IOPCGroupStateMgt, IOPCGroupStateMgt2, IOPCPublicGroupStateMgt.
GetState == Text("IOPCGroupStateMgt")
GroupSettings == Scalar("IOPCGroupStateMgt")
KeepAlive == Scalar("IOPCGroupStateMgt2")
PublicState == Scalar("IOPCPublicGroupStateMgt")
DataTransfer == Scalar("IDataObject")

\* IOPCItemProperties, IOPCBrowseServerAddressSpace, IOPCBrowse.
QueryAvailableProperties == Listing("IOPCItemProperties", <<"plain", "text", "plain">>)
GetItemProperties == Batch("IOPCItemProperties", 1, {"filled"}, <<"value", "plain">>)
LookupItemIds == Batch("IOPCItemProperties", 1, {"filled"}, <<"text", "plain">>)
Navigation == Scalar("IOPCBrowseServerAddressSpace")
GetItemId == Text("IOPCBrowseServerAddressSpace")
BrowseAccessPaths == Scalar("IOPCBrowseServerAddressSpace")
GetProperties == Batch("IOPCBrowse", 1, {"filled"}, <<"value">>)

\* The continuation point goes in and comes back in the same string.
BrowseDa3 == Listing("IOPCBrowse", <<"string", "text">>)

Methods ==
  {AddItems, ValidateItems, RemoveItems, SetActiveState, SetClientHandles, SetDatatypes, CreateEnumerator,
   SyncRead, SyncWrite, SyncReadMaxAge, SyncWriteVqt, ItemRead, ItemWriteVqt,
   AsyncRead, AsyncWrite, AsyncControl, AsyncRead2, AsyncWrite2, AsyncControl2,
   AsyncReadMaxAge, AsyncWriteVqt, AsyncRefreshMaxAge,
   SetItemSamplingRate, GetItemSamplingRate, ClearItemSamplingRate, SetItemBufferEnable,
   GetItemBufferEnable, SetItemDeadband, GetItemDeadband, ClearItemDeadband,
   AddGroup, GetStatus, GroupCalls, Locale, QueryAvailableLocaleIds, GetErrorString, ClientName,
   ConnectionPoints, PublicGroups, GetState, GroupSettings, KeepAlive, PublicState, DataTransfer,
   QueryAvailableProperties, GetItemProperties, LookupItemIds, Navigation, GetItemId,
   BrowseAccessPaths, GetProperties, BrowseDa3}

-----------------------------------------------------------------------------
VARIABLES
  object,  \* the kind of object asked for
  offers,  \* the interfaces the COM object has
  at,      \* "new", "refused", "idle", "native", "answered", "failed" or "taken"
  method,  \* of the call under way
  lens,    \* the lengths of its slices
  outs,    \* what came back: size allocated (or Nil), len the client believes
  blocks,  \* the COM blocks not freed: <<i>> a result, <<i, j>> what its element j owns
  taken,   \* the elements' blocks browse_da3 has made itself the owner of
  stray    \* a block was freed that was not live

objectVars == <<object, offers, at, method, lens, outs, blocks, taken, stray>>

Count == IF lens = <<>> THEN 1 ELSE lens[1]

\* as_slice, len: a null array is empty whatever length was set.
View(o) == IF o.size = Nil THEN 0 ELSE o.len

Results == {<<i>> : i \in {k \in DOMAIN outs : outs[k].size # Nil}}

Free(freed) ==
  /\ blocks' = blocks \ freed
  /\ stray' = (stray \/ ~(freed \subseteq blocks))

ObjectInit ==
  /\ object \in Objects
  /\ \E some \in SUBSET object.optional, missing \in {{}} \cup {{i} : i \in object.required} :
        offers = some \cup (object.required \ missing)
  /\ at = "new" /\ method = Scalar("none") /\ lens = <<>> /\ outs = <<>>
  /\ blocks = {} /\ taken = {} /\ stray = FALSE

\* TryFrom, connect.
Connect ==
  /\ at = "new"
  /\ at' = IF object.required \subseteq offers THEN "idle" ELSE "refused"
  /\ UNCHANGED <<object, offers, method, lens, outs, blocks, taken, stray>>

Fields == object.required \cup (object.optional \cap offers)

\* Mutation: lengths are not compared.
OnlyFilled(m, l) == "filled" \in m.checks => l[1] # 0

\* What reaches the server: the rest ends in InvalidState or NotImplemented.
Accepted(m, l) ==
  /\ "filled" \in m.checks => l[1] # 0
  /\ "equal" \in m.checks => l[1] = l[2]

\* A string that goes in is a block of the client's.
StringIn(m) == IF m = BrowseDa3 THEN SUBSET {<<1>>} ELSE {{}}

Invoke(m) ==
  /\ at = "idle"
  /\ m.of \in Fields
  /\ \E l \in [1 .. m.slices -> 0 .. MaxLen] : Accepted(m, l) /\ lens' = l
  /\ at' = "native" /\ method' = m
  /\ outs' = <<>> /\ taken' = {}
  /\ blocks' \in StringIn(m)
  /\ UNCHANGED <<object, offers, stray>>

\* What the arrays own: any part of it may be absent.
Contents(kinds, os) ==
  {<<i, j>> : i \in {k \in DOMAIN os : kinds[k] \in Owning /\ os[k].size # Nil}, j \in 1 .. MaxLen}

Within(os, b) == Len(b) = 1 \/ b[2] <= os[b[1]].size

\* S_OK: every array is null or has the length that was asked for, or that
\* the server reports, and set_len follows.
Answers ==
  /\ at = "native"
  /\ \E n \in IF method.size = "request" THEN {Count} ELSE 0 .. MaxLen :
       \E null \in SUBSET DOMAIN method.outs :
         outs' = [i \in DOMAIN method.outs |->
                    LET k == IF method.outs[i] = "string" THEN 1 ELSE n
                    IN  [size |-> IF i \in null THEN Nil ELSE k, len |-> k]]
  /\ \E inner \in SUBSET {b \in Contents(method.outs, outs') : Within(outs', b)} :
       blocks' = {<<i>> : i \in {k \in DOMAIN outs' : outs'[k].size # Nil}} \cup inner
  /\ at' = "answered"
  /\ UNCHANGED <<object, offers, method, lens, taken, stray>>

\* An HRESULT that fails: nothing the server left is looked at, all is dropped.
Fails ==
  /\ at = "native"
  /\ \E left \in SUBSET DOMAIN method.outs :
       /\ outs' = [i \in DOMAIN method.outs |->
                     [size |-> IF i \in left THEN 1 ELSE Nil, len |-> Count]]
       /\ blocks' = {<<i>> : i \in left}
  /\ at' = "failed"
  /\ UNCHANGED <<object, offers, method, lens, taken, stray>>

\* Drop frees the arrays and strings, not what their elements own.
DropResults ==
  /\ \/ at = "failed"
     \/ at = "answered" /\ method # BrowseDa3
     \/ at = "taken" /\ taken \cap blocks = {}
  /\ Free(Results)
  /\ at' = "idle"
  /\ UNCHANGED <<object, offers, method, lens, outs, taken>>

\* browse: the continuation is not UTF-16; the elements go unread.
BadContinuation ==
  /\ at = "answered" /\ method = BrowseDa3 /\ outs[1].size # Nil
  /\ Free(Results)
  /\ at' = "idle"
  /\ UNCHANGED <<object, offers, method, lens, outs, taken>>

\* browse_da3: the continuation becomes a String, then every name and item
\* ID gets an owner before the first is converted.
Take ==
  /\ at = "answered" /\ method = BrowseDa3
  /\ taken' = {b \in blocks : Len(b) = 2 /\ b[2] <= View(outs[2])}
  /\ outs' = [outs EXCEPT ![1] = [size |-> Nil, len |-> 0]]
  /\ Free(blocks \cap {<<1>>})
  /\ at' = "taken"
  /\ UNCHANGED <<object, offers, method, lens>>

\* Mutation: strings get their owner one by one.
OnlyCurrent(b) == {b}

\* The owners an error drops: the one being converted and those not yet reached.
DroppedWith(b) == taken \cap blocks

\* try_from takes the string and frees it, whether it converts or not.
Convert ==
  /\ at = "taken"
  /\ \E b \in taken \cap blocks :
       /\ \A c \in taken \cap blocks : b[2] <= c[2]
       /\ \/ Free({b}) /\ UNCHANGED <<at>>
          \/ Free(DroppedWith(b) \cup Results) /\ at' = "idle"
  /\ UNCHANGED <<object, offers, method, lens, outs, taken>>

ObjectNext ==
  \/ Connect
  \/ \E m \in Methods : Invoke(m)
  \/ Answers \/ Fails \/ DropResults \/ BadContinuation \/ Take \/ Convert

ObjectSpec == ObjectInit /\ [][ObjectNext]_objectVars

-----------------------------------------------------------------------------
(***************************************************************************)
(* Raw memory is only read where it is: a call goes through an interface   *)
(* the object has, every slice the server reads is as long as the count it *)
(* is given, and no array that came back is read past what was allocated.  *)
(* AsyncIo2::write is the one wrapper that hands two slices on without     *)
(* comparing them: their lengths are its caller's affair.                  *)
(***************************************************************************)
WithinArrays ==
  /\ at = "native" =>
       /\ method.of \in offers
       /\ method # AsyncWrite2 => \A i \in DOMAIN lens : lens[i] >= Count
  /\ at = "answered" =>
       \A i \in DOMAIN outs :
         View(outs[i]) <= IF outs[i].size = Nil THEN 0 ELSE outs[i].size

(***************************************************************************)
(* Nothing is freed twice, and after a call, however it ended, every array *)
(* and string the server returned and every string browse_da3 took is      *)
(* freed. What the elements of the other results own is nobody's: VARIANTs *)
(* and blobs, and the names of a page whose continuation did not convert.  *)
(***************************************************************************)
BlocksReleased ==
  /\ ~stray
  /\ at = "idle" => blocks \cap ({<<i>> : i \in DOMAIN outs} \cup taken) = {}
=============================================================================
