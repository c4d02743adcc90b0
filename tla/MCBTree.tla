------------------------------- MODULE MCBTree --------------------------------
(***************************************************************************)
(* The B-tree on small instances.  Deep loads 22 keys in order and erases  *)
(* eleven of them: with six items to a page that is a root over two        *)
(* interior pages of two leaves each, one erase away from every merge.     *)
(***************************************************************************)
EXTENDS BTree

NoScript == <<>>

AllKeys == Key

Deep ==
    [i \in 1 .. 22 |-> <<"insert", i>>] \o [i \in 1 .. 9 |-> <<"erase", i>>]
        \o << <<"erase", 12>>, <<"erase", 21>> >>

DeepTouch == {10, 11, 13, 14, 18, 20, 22}

=============================================================================
