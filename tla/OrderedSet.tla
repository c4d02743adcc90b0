------------------------------ MODULE OrderedSet ------------------------------
(***************************************************************************)
(* What a B-tree promises to its callers (src/src/btree/btree.h): a set of *)
(* keys that insert() and erase() change one key at a time, erase()        *)
(* answering whether the key was there and lower_bound() answering with    *)
(* the first key not below the one it was asked for.                       *)
(***************************************************************************)
EXTENDS Naturals

CONSTANTS Key, NoKey

VARIABLES
    contents,   \* the keys in the set
    reply       \* the answer of the last call

FirstAtLeast(k) ==
    IF \E x \in contents : k <= x
    THEN CHOOSE x \in contents : k <= x /\ \A y \in contents : k <= y => x <= y
    ELSE NoKey

Insert(k) ==
    /\ k \notin contents
    /\ contents' = contents \cup {k}
    /\ UNCHANGED reply

Erase(k) ==
    /\ contents' = contents \ {k}
    /\ reply' = IF k \in contents THEN k ELSE NoKey

LowerBound(k) ==
    /\ reply' = FirstAtLeast(k)
    /\ UNCHANGED contents

SetInit == contents = {} /\ reply = NoKey

SetNext == \E k \in Key : Insert(k) \/ Erase(k) \/ LowerBound(k)

SetSpec == SetInit /\ [][SetNext]_<<contents, reply>>
=============================================================================
