---------------------------- MODULE MCBrowsePages ----------------------------
(***************************************************************************)
(* Model-checking instance of BrowsePages. Under the root: a branch that   *)
(* is an item too and a branch that is none; below the latter a name       *)
(* listed as a branch that cannot be entered but is an item. Two levels    *)
(* deep there are cousins of the same name, so that a cursor that is off   *)
(* resolves names elsewhere.                                               *)
(***************************************************************************)
EXTENDS BrowsePages

MCNodes == {"root", "a", "b", "s", "ak", "bk", "aw"}
MCKids == [n \in MCNodes |->
  CASE n = "root" -> <<"a", "b">>
    [] n = "a" -> <<"ak">>
    [] n = "b" -> <<"s", "bk">>
    [] n = "ak" -> <<"aw">>
    [] OTHER -> <<>>]
MCName == [n \in MCNodes |-> IF n \in {"ak", "bk"} THEN "k" ELSE n]
MCId == [n \in MCNodes |->
  CASE n = "a" -> "i.a" [] n = "b" -> "i.b" [] n = "s" -> "i.s" [] n = "ak" -> "i.ak"
    [] n = "bk" -> "i.bk" [] n = "aw" -> "i.w" [] OTHER -> "i.root"]
MCBranches == {"root", "a", "b", "s", "ak"}
MCItems == {"a", "s", "ak", "bk", "aw"}

Server(v3, v2, stub, flat, filters) ==
  [da3 |-> v3, da2 |-> v2, stub |-> stub, flat |-> flat, filters |-> filters]

\* DA 3 with and without DA 2 behind it, a DA 3 stub, hierarchical and flat DA 2.
MCProfiles == {
  Server(TRUE, TRUE, FALSE, FALSE, {"all", "branches"}),
  Server(TRUE, FALSE, FALSE, FALSE, {"items"}),
  Server(TRUE, TRUE, TRUE, FALSE, {"all"}),
  Server(FALSE, TRUE, FALSE, FALSE, {"all", "branches"}),
  Server(FALSE, TRUE, FALSE, FALSE, {"items"}),
  Server(FALSE, TRUE, FALSE, TRUE, {"all", "branches"})}

=============================================================================
