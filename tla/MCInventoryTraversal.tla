------------------------ MODULE MCInventoryTraversal ------------------------
(***************************************************************************)
(* Model-checking instance of InventoryTraversal. The namespace has        *)
(*   - two branches under the root, one an item itself, one not;           *)
(*   - below each a branch of the same name "k" with a leaf of the same    *)
(*     name "x", so that a cursor that is off resolves names elsewhere;    *)
(*   - a leaf "y" whose item ID is an alias of the first "x".              *)
(***************************************************************************)
EXTENDS InventoryTraversal

MCNodes == {"root", "a", "b", "ak", "bk", "ax", "bx", "y"}
MCKids == [n \in MCNodes |->
  CASE n = "root" -> <<"a", "b">>
    [] n = "a" -> <<"ak">>
    [] n = "b" -> <<"bk", "y">>
    [] n = "ak" -> <<"ax">>
    [] n = "bk" -> <<"bx">>
    [] OTHER -> <<>>]
MCName == [n \in MCNodes |->
  IF n \in {"ak", "bk"} THEN "k" ELSE IF n \in {"ax", "bx"} THEN "x" ELSE n]
MCId == [n \in MCNodes |->
  CASE n = "a" -> "i.a" [] n = "b" -> "i.b" [] n = "ak" -> "i.ak" [] n = "bk" -> "i.bk"
    [] n \in {"ax", "y"} -> "i.x" [] n = "bx" -> "i.bx" [] OTHER -> "i.root"]
MCBranches == {"root", "a", "b", "ak", "bk"}
MCItems == {"a", "ak", "ax", "bx", "y"}

Server(v3, v2, stub, to, flat) ==
  [da3 |-> v3, da2 |-> v2, stub |-> stub, to |-> to, flat |-> flat]

\* DA 3 with and without DA 2 behind it, a DA 3 stub, DA 2 with and without
\* BROWSE_TO, a flat DA 2 server.
MCProfiles == {
  Server(TRUE, TRUE, FALSE, TRUE, FALSE), Server(TRUE, FALSE, FALSE, TRUE, FALSE),
  Server(TRUE, TRUE, TRUE, TRUE, FALSE), Server(FALSE, TRUE, FALSE, TRUE, FALSE),
  Server(FALSE, TRUE, FALSE, FALSE, FALSE), Server(FALSE, TRUE, FALSE, TRUE, TRUE)}

=============================================================================
