----------------------------- MODULE MCVariantPage -----------------------------
(* Pages of 102 bytes, which have room for 82: five blocks of 12 bytes,    *)
(* four of 18, seven of 9.                                                 *)
EXTENDS VariantPage

(* Lengths 1, 4 and 10 make blocks of 9, 12 and 18 bytes; of 110 bytes, 18 *)
(* bytes stay in the page and two overflow pages take the rest.            *)
Rows == {{4}, {10}, {10, 110}, {1, 10}}

(* Blocks of unequal size: once such a page was split nothing more is      *)
(* inserted until its parts are one again.                                 *)
Bound(tree, pages) ==
    CASE Cardinality(tree) = 1 -> 5
      [] pages = 1 \/ 110 \in tree -> 4
      [] OTHER -> 0

(* First and last. *)
Ends(n) == {1, n + 1}
=============================================================================
