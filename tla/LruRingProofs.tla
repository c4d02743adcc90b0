----------------------------- MODULE LruRingProofs -----------------------------
(***************************************************************************)
(* Proof that the ring of cache_manager, with the five assignments of      *)
(* access() in their order, is the recency order LruOrder describes, for   *)
(* every number of frames.                                                 *)
(***************************************************************************)
EXTENDS LruRing, Induction

(* The ring is described by the distance a[i] of each node from the head.  *)
(* With it no walk is needed: next leads to the node one further.          *)
Ages(a) ==
    /\ a \in [Node -> Node]
    /\ \A i, j \in Node : a[i] = a[j] => i = j
    /\ \A n \in Node : \E i \in Node : a[i] = n

Linked ==
    /\ head \in Node
    /\ next \in [Node -> Node]
    /\ prev \in [Node -> Node]
    /\ PrevInvertsNext

Ring(a) ==
    /\ Ages(a)
    /\ Linked
    /\ a[head] = 0
    /\ \A i \in Node : a[next[i]] = IF a[i] + 1 = Capacity THEN 0 ELSE a[i] + 1

SomeRing == \E a \in [Node -> Node] : Ring(a)

-----------------------------------------------------------------------------
(* The walk is what its recursive definition says. *)
LEMMA WalkSteps ==
    Linked => /\ Walk[0] = head
              /\ \A n \in Nat : Walk[n + 1] = next[Walk[n]]
<1>. SUFFICES ASSUME Linked
              PROVE  /\ Walk[0] = head
                     /\ \A n \in Nat : Walk[n + 1] = next[Walk[n]]
    OBVIOUS
<1> DEFINE f == [p \in Nat \X Node |-> next[p[2]]]
<1>1. f \in [Nat \X Node -> Node] /\ head \in Node
    BY DEF Linked
<1>2. PICK g \in Goes(Node, head, f) : TRUE
    BY <1>1, RecursionExists
<1>. /\ g \in [Nat -> Node] /\ g[0] = head
     /\ \A n \in Nat : g[n + 1] = f[<<n, g[n]>>]
    BY <1>2 DEF Goes
<1>3. g = [n \in Nat |-> IF n = 0 THEN head ELSE next[g[n - 1]]]
    <2>1. ASSUME NEW n \in Nat, n # 0 PROVE g[n] = next[g[n - 1]]
        <3>1. n - 1 \in Nat /\ (n - 1) + 1 = n
            BY <2>1
        <3>2. g[(n - 1) + 1] = f[<<n - 1, g[n - 1]>>]
            BY <3>1
        <3>. QED
            BY <3>1, <3>2
    <2>. HIDE DEF f
    <2>. QED
        BY <2>1
<1>4. Walk = [n \in Nat |-> IF n = 0 THEN head ELSE next[Walk[n - 1]]]
    BY <1>3 DEF Walk
<1>5. Walk[0] = head
    BY <1>4
<1>6. ASSUME NEW n \in Nat PROVE Walk[n + 1] = next[Walk[n]]
    <2>1. n + 1 \in Nat /\ n + 1 # 0 /\ (n + 1) - 1 = n
        OBVIOUS
    <2>. QED
        BY <1>4, <2>1
<1>. QED
    BY <1>5, <1>6

(* It comes to the nodes in the order of their distances. *)
LEMMA WalkAges ==
    ASSUME NEW a, Ring(a)
    PROVE  \A n \in Node : Walk[n] \in Node /\ a[Walk[n]] = n
<1> DEFINE Right == {n \in Nat : n \in Node => Walk[n] \in Node /\ a[Walk[n]] = n}
<1>1. 0 \in Right
    BY WalkSteps DEF Ring, Linked
<1>2. \A n \in Nat : n \in Right => n + 1 \in Right
    <2>. SUFFICES ASSUME NEW n \in Nat, n \in Right, n + 1 \in Node
                  PROVE  Walk[n + 1] \in Node /\ a[Walk[n + 1]] = n + 1
        OBVIOUS
    <2>1. n \in Node /\ n + 1 # Capacity
        BY RingAssumption DEF Node
    <2>2. Walk[n] \in Node /\ a[Walk[n]] = n /\ Walk[n + 1] = next[Walk[n]]
        BY <2>1, WalkSteps DEF Ring
    <2>. QED
        BY <2>1, <2>2 DEF Ring, Linked
<1>3. Nat \subseteq Right
    <2>. HIDE DEF Right
    <2>. QED
        BY <1>1, <1>2, AllNat
<1>. QED
    BY <1>3, RingAssumption DEF Node

(* So what the walk finds is the distances. *)
AgesFound == \A a \in [Node -> Node] : Ring(a) => RecencyOf = a

(* That is what it finds. *)
LEMMA RecencyIsAge == AgesFound
<1>. SUFFICES ASSUME NEW a \in [Node -> Node], Ring(a) PROVE RecencyOf = a
    BY DEF AgesFound
<1>1. ASSUME NEW i \in Node PROVE Distance(i) = a[i]
    <2>1. Walk[a[i]] = i
        BY WalkAges DEF Ring, Ages
    <2>2. \A n \in Node : Walk[n] = i => n = a[i]
        BY WalkAges
    <2>. QED
        BY <2>1, <2>2 DEF Distance
<1>. QED
    BY <1>1 DEF RecencyOf

(* _check_valid() and last(). *)
LEMMA RingFacts ==
    ASSUME SomeRing
    PROVE  RingWhole /\ LastIsVictim
<1>1. PICK a \in [Node -> Node] : Ring(a)
    BY DEF SomeRing
<1>2. CheckValid
    <2>1. \A n \in Node : Walk[n] \in Node
        BY <1>1, WalkAges
    <2>2. ASSUME NEW i \in Node PROVE a[i] \in Node /\ Walk[a[i]] = i
        BY <1>1, WalkAges DEF Ring, Ages
    <2>. QED
        BY <2>1, <2>2 DEF CheckValid
<1>3. RecencyOf = a
    BY <1>1, RecencyIsAge DEF AgesFound
<1>4. last \in Node /\ a[last] = Capacity - 1
    <2>1. last \in Node /\ next[last] = head
        BY <1>1 DEF last, Ring, Linked, PrevInvertsNext
    <2>2. a[head] = 0 /\ a[head] = IF a[last] + 1 = Capacity THEN 0 ELSE a[last] + 1
        BY <1>1, <2>1 DEF Ring
    <2>3. a[last] \in Nat
        BY <2>1 DEF Node
    <2>. QED
        BY <2>1, <2>2, <2>3, RingAssumption
<1>5. LastIsVictim
    <2>1. \A i \in Node : a[i] = Capacity - 1 => i = last
        BY <1>1, <1>4 DEF Ring, Ages
    <2>. QED
        BY <1>3, <1>4, <2>1 DEF LastIsVictim, Order!Victim, Order!Frame, Node
<1>. QED
    BY <1>1, <1>2, <1>5 DEF RingWhole, Ring, Linked

-----------------------------------------------------------------------------
(* The order after access(id). *)
Aged(a, id) ==
    [j \in Node |-> IF j = id THEN 0 ELSE IF a[j] < a[id] THEN a[j] + 1 ELSE a[j]]

(* Those are distances again. *)
LEMMA AgedAges ==
    ASSUME NEW a, Ages(a), NEW id \in Node
    PROVE  Ages(Aged(a, id))
<1> DEFINE b == Aged(a, id)
<1>1. \A j \in Node : b[j] = IF j = id THEN 0 ELSE IF a[j] < a[id] THEN a[j] + 1 ELSE a[j]
    BY DEF Aged
<1>2. \A j \in Node : a[j] \in Node /\ a[j] \in Nat /\ a[j] < Capacity
    <2>1. \A j \in Node : a[j] \in Node
        BY DEF Ages
    <2>. QED
        BY <2>1, RingAssumption DEF Node
<1>3. b \in [Node -> Node]
    BY <1>2, RingAssumption DEF Aged, Node
<1>. HIDE DEF b
<1>4. ASSUME NEW i \in Node, NEW j \in Node, b[i] = b[j] PROVE i = j
    <2>1. a[i] = a[j] => i = j
        BY DEF Ages
    <2>2. a[i] = a[id] => i = id
        BY DEF Ages
    <2>3. a[j] = a[id] => j = id
        BY DEF Ages
    <2>. QED
        BY <1>1, <1>2, <1>4, <2>1, <2>2, <2>3
<1>5. ASSUME NEW n \in Node PROVE \E i \in Node : b[i] = n
    <2>1. CASE n = 0
        BY <1>1, <2>1
    <2>2. CASE n # 0 /\ n <= a[id]
        <3>0. n - 1 \in Node
            BY <2>2, RingAssumption DEF Node
        <3>1. PICK i \in Node : a[i] = n - 1
            BY <3>0 DEF Ages
        <3>. QED
            BY <1>1, <1>2, <2>2, <3>1 DEF Node
    <2>3. CASE n > a[id]
        <3>1. PICK i \in Node : a[i] = n
            BY DEF Ages
        <3>. QED
            BY <1>1, <1>2, <2>3, <3>1
    <2>. QED
        BY <1>2, <2>1, <2>2, <2>3 DEF Node
<1>. QED
    BY <1>3, <1>4, <1>5 DEF Ages, b

(* What the five assignments leave, whether id is a neighbour of the head  *)
(* or not.  p, q and t are the nodes before and after id and before the    *)
(* head.                                                                   *)
LEMMA Relinked ==
    ASSUME NEW id \in Node, Linked, Access(id)
    PROVE  LET p == prev[id]
               q == next[id]
               t == prev[head]
           IN  /\ id = t => /\ next' = [next EXCEPT ![p] = id, ![id] = head]
                            /\ prev' = [prev EXCEPT ![id] = p, ![head] = id]
               /\ id # t => /\ next' = [next EXCEPT ![p] = q, ![t] = id, ![id] = head]
                            /\ prev' = [prev EXCEPT ![q] = p, ![id] = t, ![head] = id]
<1> DEFINE p == prev[id]
           q == next[id]
           t == prev[head]
           nx == [next EXCEPT ![p] = q]
           pv == [prev EXCEPT ![q] = p]
<1>1. /\ id # head /\ head \in Node /\ p \in Node /\ q \in Node /\ t \in Node
      /\ next[p] = id /\ prev[q] = id /\ next[t] = head
    BY DEF Access, Linked, PrevInvertsNext
<1>2. /\ next' = [nx EXCEPT ![pv[head]] = id, ![id] = head]
      /\ prev' = [pv EXCEPT ![id] = pv[head], ![head] = id]
    BY DEF Access, UnlinkedNext, UnlinkedPrev
<1>3. pv[head] = IF q = head THEN p ELSE t
    BY <1>1 DEF Linked
<1>4. id = t <=> q = head
    BY <1>1
<1>5. CASE id = t
    <2>1. /\ next' = [nx EXCEPT ![p] = id, ![id] = head]
          /\ prev' = [pv EXCEPT ![id] = p, ![head] = id]
        BY <1>2, <1>3, <1>4, <1>5
    <2>2. next' = [next EXCEPT ![p] = id, ![id] = head]
        BY <1>1, <2>1 DEF Linked
    <2>3. prev' = [prev EXCEPT ![id] = p, ![head] = id]
        BY <1>1, <1>4, <1>5, <2>1 DEF Linked
    <2>. QED
        BY <1>5, <2>2, <2>3
<1>6. CASE id # t
    BY <1>2, <1>3, <1>4, <1>6
<1>. QED
    BY <1>5, <1>6

(* The ring after access(id) goes through the nodes in the new order.      *)
LEMMA RingAccess ==
    ASSUME NEW a, Ring(a), NEW id \in Node, Access(id)
    PROVE  Ring(Aged(a, id))'
<1> DEFINE b == Aged(a, id)
           p == prev[id]
           q == next[id]
           t == prev[head]
           Then(n) == IF n + 1 = Capacity THEN 0 ELSE n + 1
<1>1. Ages(b)
    BY AgedAges DEF Ring
<1>2. \A j \in Node : b[j] = IF j = id THEN 0 ELSE IF a[j] < a[id] THEN a[j] + 1 ELSE a[j]
    BY DEF Aged
<1>3. /\ id # head /\ head' = id
      /\ head \in Node /\ p \in Node /\ q \in Node /\ t \in Node
      /\ next \in [Node -> Node] /\ prev \in [Node -> Node]
      /\ next[p] = id /\ prev[q] = id /\ next[t] = head /\ a[head] = 0
    BY DEF Access, NewHead, Ring, Linked, PrevInvertsNext
<1>4. \A i, j \in Node : /\ next[i] = next[j] => i = j
                         /\ prev[i] = prev[j] => i = j
                         /\ next[i] = j <=> prev[j] = i
    BY DEF Ring, Linked, PrevInvertsNext
<1>5. \A i \in Node : /\ a[i] \in Nat /\ a[i] < Capacity /\ a[next[i]] = Then(a[i])
                      /\ \A j \in Node : a[i] = a[j] => i = j
    <2>1. \A i \in Node : a[i] \in Node
        BY DEF Ring, Ages
    <2>2. \A i \in Node : a[i] \in Nat /\ a[i] < Capacity
        BY <2>1, RingAssumption DEF Node
    <2>3. \A i, j \in Node : a[i] = a[j] => i = j
        BY DEF Ring, Ages
    <2>4. \A i \in Node : a[next[i]] = Then(a[i])
        BY DEF Ring
    <2>. QED
        BY <2>2, <2>3, <2>4
<1>6. /\ a[t] = Capacity - 1 /\ Capacity \in Nat /\ Capacity > 1
      /\ a[p] + 1 = a[id] /\ a[id] > 0
    <2>1. a[head] = Then(a[t]) /\ a[id] = Then(a[p]) /\ a[id] # a[head]
        BY <1>3, <1>5
    <2>. QED
        BY <1>3, <1>5, <2>1, RingAssumption
<1>7. /\ next' \in [Node -> Node] /\ prev' \in [Node -> Node]
      /\ id = t => \A i \in Node :
            /\ next'[i] = IF i = id THEN head ELSE IF i = p THEN id ELSE next[i]
            /\ prev'[i] = IF i = head THEN id ELSE IF i = id THEN p ELSE prev[i]
      /\ id # t => \A i \in Node :
            /\ next'[i] = IF i = id THEN head ELSE IF i = t THEN id
                          ELSE IF i = p THEN q ELSE next[i]
            /\ prev'[i] = IF i = head THEN id ELSE IF i = id THEN t
                          ELSE IF i = q THEN p ELSE prev[i]
    BY <1>3, Relinked DEF Ring
<1>. HIDE DEF b, p, q, t
<1>8. ASSUME NEW i \in Node PROVE prev'[next'[i]] = i /\ next'[prev'[i]] = i
    BY <1>3, <1>4, <1>7 DEF p, q, t
<1>9. ASSUME NEW i \in Node PROVE b[next'[i]] = Then(b[i])
    <2>1. CASE id = t
        BY <1>2, <1>3, <1>4, <1>5, <1>6, <1>7, <2>1
    <2>2. CASE id # t
        <3>1. a[q] = a[id] + 1 /\ q # head
            BY <1>3, <1>4, <1>5, <1>6, <2>2 DEF q, t
        <3>. QED
            BY <1>2, <1>3, <1>4, <1>5, <1>6, <1>7, <2>2, <3>1
    <2>. QED
        BY <2>1, <2>2
<1>. QED
    BY <1>1, <1>2, <1>3, <1>7, <1>8, <1>9 DEF Ring, Linked, PrevInvertsNext, b

(* The ring new made. *)
LEMMA RingInit == Init => Ring([i \in Node |-> i])
<1>. SUFFICES ASSUME Init PROVE Ring([i \in Node |-> i])
    OBVIOUS
<1> DEFINE a == [i \in Node |-> i]
<1>1. \A i \in Node : /\ i \in Nat /\ i < Capacity /\ a[i] = i
                      /\ next[i] = IF i + 1 = Capacity THEN 0 ELSE i + 1
                      /\ prev[i] = IF i = 0 THEN Capacity - 1 ELSE i - 1
    BY RingAssumption DEF Init, Node
<1>2. /\ 0 \in Node /\ head = 0 /\ Capacity - 1 \in Node
      /\ \A i \in Node : /\ i + 1 # Capacity => i + 1 \in Node
                         /\ i # 0 => i - 1 \in Node
    BY RingAssumption DEF Init, Node
<1>3. next \in [Node -> Node] /\ prev \in [Node -> Node]
    BY <1>2 DEF Init
<1>4. PrevInvertsNext
    BY <1>1, <1>2, RingAssumption DEF PrevInvertsNext
<1>5. Ages(a)
    BY DEF Ages
<1>6. a[head] = 0 /\ \A i \in Node : a[next[i]] = IF a[i] + 1 = Capacity THEN 0 ELSE a[i] + 1
    BY <1>1, <1>2, <1>3
<1>. QED
    BY <1>2, <1>3, <1>4, <1>5, <1>6 DEF Ring, Linked

(* The list starts as a ring, in the order of the numbers. *)
LEMMA SomeRingInit == Init => SomeRing /\ Order!LruInit
<1>. SUFFICES ASSUME Init PROVE SomeRing /\ Order!LruInit
    OBVIOUS
<1>1. [i \in Node |-> i] \in [Node -> Node]
    OBVIOUS
<1>2. RecencyOf = [i \in Node |-> i]
    BY <1>1, RingInit, RecencyIsAge DEF AgesFound
<1>. QED
    BY <1>1, <1>2, RingInit DEF SomeRing, Order!LruInit, Order!Frame, Node

(* Every step is an access in the order. *)
LEMMA SomeRingNext ==
    SomeRing /\ [Next]_vars => SomeRing' /\ [\E i \in Order!Frame : Order!LruAccess(i)]_RecencyOf
<1>. SUFFICES ASSUME SomeRing, [Next]_vars
              PROVE  SomeRing' /\ [\E i \in Order!Frame : Order!LruAccess(i)]_RecencyOf
    OBVIOUS
<1>1. PICK a \in [Node -> Node] : Ring(a)
    BY DEF SomeRing
<1>2. RecencyOf = a
    BY <1>1, RecencyIsAge DEF AgesFound
<1>3. CASE UNCHANGED vars
    BY <1>3 DEF vars, SomeRing, Ring, Linked, PrevInvertsNext, RecencyOf, Distance, Walk
<1>4. ASSUME NEW id \in Node, Access(id)
      PROVE  SomeRing' /\ Order!LruAccess(id)
    <2>1. Ring(Aged(a, id))'
        BY <1>1, <1>4, RingAccess
    <2>2. Aged(a, id) \in [Node -> Node]
        BY <1>1, AgedAges DEF Ring, Ages
    <2>3. AgesFound'
        BY RecencyIsAge, PTL
    <2>4. RecencyOf' = Aged(a, id)
        BY <2>1, <2>2, <2>3 DEF AgesFound
    <2>5. SomeRing'
        BY <2>1, <2>2 DEF SomeRing
    <2>. QED
        BY <1>2, <2>4, <2>5 DEF Order!LruAccess, Order!Touched, Order!Frame, Aged, Node
<1>. QED
    BY <1>3, <1>4 DEF Next, Order!Frame, Node

-----------------------------------------------------------------------------
(* For every number of frames: after any accesses a walk along next visits *)
(* every frame, which access() asserts, and prev stays the inverse of next *)
(* that last() relies on.                                                  *)
THEOREM RingStaysWhole == Spec => []RingWhole
<1>1. Init => SomeRing
    BY SomeRingInit
<1>2. SomeRing /\ [Next]_vars => SomeRing'
    BY SomeRingNext
<1>3. SomeRing => RingWhole
    BY RingFacts
<1>. QED
    BY <1>1, <1>2, <1>3, PTL DEF Spec

(* last() is the frame that was not accessed for the longest time. *)
THEOREM LastIsLeastRecent == Spec => []LastIsVictim
<1>1. Init => SomeRing
    BY SomeRingInit
<1>2. SomeRing /\ [Next]_vars => SomeRing'
    BY SomeRingNext
<1>3. SomeRing => LastIsVictim
    BY RingFacts
<1>. QED
    BY <1>1, <1>2, <1>3, PTL DEF Spec

(* The ring implements the recency order that page_fs is modelled over, so *)
(* what is proved of page_fs holds with this ring in it.                   *)
THEOREM OrderImplemented == Spec => ImplementsLruOrder
<1>1. Init => SomeRing /\ Order!LruInit
    BY SomeRingInit
<1>2. SomeRing /\ [Next]_vars =>
          SomeRing' /\ [\E i \in Order!Frame : Order!LruAccess(i)]_RecencyOf
    BY SomeRingNext
<1>. QED
    BY <1>1, <1>2, PTL DEF Spec, ImplementsLruOrder, Order!LruSpec
=============================================================================
