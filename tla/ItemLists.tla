------------------------------- MODULE ItemLists -------------------------------
(***************************************************************************)
(* What a chain of variant pages promises to the tree above it: lists of   *)
(* items, each as long as it was given, in the order it was given.  There  *)
(* are no offsets, no free blocks and no overflow pages.                   *)
(***************************************************************************)
EXTENDS SequencesExt, Integers

CONSTANTS
    Data,       \* lengths of items
    Room,       \* bytes a list may take
    Cost(_),    \* bytes an item takes
    MinNum      \* a list that splits has as many items

VARIABLE lists  \* a sequence of lists

Bytes(l) ==
    LET sum[n \in 0 .. Len(l)] == IF n = 0 THEN 0 ELSE sum[n - 1] + Cost(l[n])
    IN  sum[Len(l)]

ListsInit == lists = << <<>> >>

(* The operations, from the lists l to others. *)
Insert(l, i, pos, d) == [l EXCEPT ![i] = InsertAt(@, pos, d)]

Erase(l, i, pos) == [l EXCEPT ![i] = RemoveAt(@, pos)]

Split(l, i, k) ==
    [InsertAt(l, i + 1, SubSeq(l[i], k + 1, Len(l[i]))) EXCEPT ![i] = SubSeq(@, 1, k)]

Merge(l, i) == [RemoveAt(l, i + 1) EXCEPT ![i] = @ \o l[i + 1]]

(* The first item of the next list, the last item of the previous one. *)
TakeNext(l, i) == [l EXCEPT ![i] = Append(@, Head(l[i + 1])), ![i + 1] = Tail(@)]

TakePrev(l, i) == [l EXCEPT ![i] = Front(@), ![i + 1] = <<Last(l[i])>> \o @]

(* An item is taken exactly when its bytes leave room, both parts of a     *)
(* split have at least half the least number, and lists are merged if they *)
(* fit in one.                                                             *)
ListsNext ==
    LET l == lists
        then == lists'
    IN  \E i \in DOMAIN l :
            \/ /\ i \in DOMAIN then
               /\ Len(then[i]) = Len(l[i]) + 1
               /\ \E pos \in DOMAIN then[i], d \in Data :
                     Bytes(l[i]) + Cost(d) <= Room /\ then = Insert(l, i, pos, d)
            \/ \E pos \in DOMAIN l[i] : then = Erase(l, i, pos)
            \/ /\ Len(l[i]) >= MinNum
               /\ \E k \in MinNum \div 2 .. Len(l[i]) - MinNum \div 2 : then = Split(l, i, k)
            \/ /\ i + 1 \in DOMAIN l
               /\ \/ /\ Bytes(l[i]) + Bytes(l[i + 1]) <= Room
                     /\ then = Merge(l, i)
                  \/ l[i + 1] # <<>> /\ then = TakeNext(l, i)
                  \/ l[i] # <<>> /\ then = TakePrev(l, i)

ListsSpec == ListsInit /\ [][ListsNext]_lists
=============================================================================
