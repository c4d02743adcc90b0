-------------------------------- MODULE LruRing --------------------------------
(***************************************************************************)
(* cache_manager (src/src/fs/cache_manager.h): a circular doubly linked    *)
(* list of frames kept in an array of prev/next indices, and the index of  *)
(* its head, the most recently used frame.                                 *)
(***************************************************************************)
EXTENDS Integers, FiniteSets

CONSTANT Capacity          \* PAGE_CACHE_CAPACITY

ASSUME RingAssumption == Capacity \in Nat \ {0}

VARIABLES head, prev, next

vars == <<head, prev, next>>

Node == 0 .. Capacity - 1

Init ==
    /\ head = 0
    /\ next = [i \in Node |-> IF i + 1 = Capacity THEN 0 ELSE i + 1]
    /\ prev = [i \in Node |-> IF i = 0 THEN Capacity - 1 ELSE i - 1]

(* The two halves of access(id).  Each assignment of the code reads the    *)
(* arrays as the previous ones left them, which matters when id is a       *)
(* neighbour of the head.                                                  *)
(* Mutant: the second of the two assignments is forgotten.                 *)
UnlinkedPrevForgotten(id) == prev

UnlinkedNext(id) == [next EXCEPT ![prev[id]] = next[id]]
UnlinkedPrev(id) == [prev EXCEPT ![next[id]] = prev[id]]

(* The head after access(id).  Mutant: it stays. *)
NewHeadForgotten(id) == head

NewHead(id) == id

Access(id) ==
    /\ id # head
    /\ LET nx == UnlinkedNext(id)
           pv == UnlinkedPrev(id)
           tail == pv[head]
       IN  /\ next' = [nx EXCEPT ![tail] = id, ![id] = head]
           /\ prev' = [pv EXCEPT ![id] = tail, ![head] = id]
    /\ head' = NewHead(id)

(* last().  Mutant: the neighbour on the other side. *)
lastIsNext == next[head]

last == prev[head]

Next == \E id \in Node : Access(id)

Spec == Init /\ [][Next]_vars

-----------------------------------------------------------------------------
(* The node n steps after the head. *)
Walk == LET w[n \in Nat] == IF n = 0 THEN head ELSE next[w[n - 1]] IN w

(* _check_valid(), which access() asserts: Capacity steps along next from  *)
(* the head mark every frame, so no frame drops out of the ring and none   *)
(* can be handed out twice before the others.                              *)
CheckValid == {Walk[n] : n \in Node} = Node

(* Nothing in the class checks prev, yet last() reads it: it must stay the *)
(* exact inverse of next after every sequence of accesses.                 *)
PrevInvertsNext == \A i \in Node : prev[next[i]] = i /\ next[prev[i]] = i

(* After every sequence of accesses the two arrays describe one ring of    *)
(* all frames.                                                             *)
RingWhole == CheckValid /\ PrevInvertsNext

(* The ring implements the recency order page_fs relies on, and last() is  *)
(* that order's least recently used frame.                                 *)
Distance(i) == CHOOSE n \in Node : Walk[n] = i
RecencyOf   == [i \in Node |-> Distance(i)]
Order == INSTANCE LruOrder WITH age <- RecencyOf

ImplementsLruOrder == Order!LruSpec
LastIsVictim == last = Order!Victim
=============================================================================
