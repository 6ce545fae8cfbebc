---------------------------- MODULE MCConnection ----------------------------
(***************************************************************************)
(* Model-checking instance of Connection. Three levels of branches, one    *)
(* deeper than MaxDepth lets the browse go, with a branch of the same name *)
(* "k" at the root and below "a": after a refused BROWSE_UP the wrong one  *)
(* can be entered. The reads and the write name an item the server does    *)
(* not know; two items share an item ID.                                   *)
(***************************************************************************)
EXTENDS Connection

MCNodes == {"root", "a", "k", "ak", "akd", "ax", "akx", "kx", "akdx"}
MCKids == [n \in MCNodes |->
  CASE n = "root" -> <<"a", "k">>
    [] n = "a" -> <<"ak", "ax">>
    [] n = "ak" -> <<"akd", "akx">>
    [] n = "k" -> <<"kx">>
    [] n = "akd" -> <<"akdx">>
    [] OTHER -> <<>>]
MCName == [n \in MCNodes |-> CASE n = "ak" -> "k" [] n = "akd" -> "d"
                               [] n \in {"ax", "akx", "kx", "akdx"} -> "x" [] OTHER -> n]
MCId == [n \in MCNodes |-> CASE n = "ax" -> "i.a.x" [] n = "akx" -> "i.a.x"
  [] n = "kx" -> "i.k.x" [] n = "akdx" -> "i.a.k.d.x" [] n = "k" -> "i.k" [] n = "a" -> "i.a"
  [] n = "ak" -> "i.a.k" [] n = "akd" -> "i.a.k.d" [] OTHER -> "i.root"]
MCBranches == {"root", "a", "k", "ak", "akd"}
MCItems == {"ax", "akx", "kx", "akdx", "k"}

Browsing(limit) == [kind |-> "browse", limit |-> limit, want |-> <<>>]
Reading(want) == [kind |-> "read", limit |-> 0, want |-> want]
Writing(id) == [kind |-> "write", limit |-> 0, want |-> <<id>>]

MCRequests == {
  Browsing(9), Browsing(2), Browsing(0),
  Reading(<<"i.none", "i.k.x", "i.none", "i.a.x">>), Reading(<<"i.none">>),
  Writing("i.k.x"), Writing("i.none")}

=============================================================================
