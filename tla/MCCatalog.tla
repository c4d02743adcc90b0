------------------------------- MODULE MCCatalog -------------------------------
(* Two databases: one of two tables and one of one, or two tables for both. *)
EXTENDS Catalog, TLC

CONSTANTS school, shop, a, b, c, v1, v2

TwoAndOne == [d \in {school, shop} |-> IF d = school THEN {a, b} ELSE {c}]

(* Both databases may have both tables. *)
Shared == [d \in {school, shop} |-> {a, b}]

Symmetry == Permutations({school, shop}) \cup Permutations({a, b})
=============================================================================
