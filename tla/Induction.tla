------------------------------- MODULE Induction -------------------------------
(***************************************************************************)
(* Induction over the natural numbers as facts about sets and functions:   *)
(* a set of naturals has a least element, a function may be defined by     *)
(* iteration, and a finite set has a sum.  The proofs about walks along    *)
(* links and about what is added up rest on these.                         *)
(***************************************************************************)
EXTENDS Integers, FiniteSetTheorems, TLAPS

(* The sets 0 .. n are ordered by inclusion, which is well founded.        *)
LEMMA LeastNat ==
    ASSUME NEW S \in SUBSET Nat, S # {}
    PROVE  \E m \in S : \A k \in S : m <= k
<1> DEFINE Below == {0 .. n : n \in S}
<1>1. Below \subseteq FiniteSubsetsOf(Nat)
    <2>1. \A n \in S : IsFiniteSet(0 .. n)
        BY FS_Interval
    <2>. QED
        BY <2>1 DEF FiniteSubsetsOf
<1>2. Below # {}
    OBVIOUS
<1>3. PICK x \in Below : \A y \in Below : <<y, x>> \notin StrictSubsetOrdering(Nat)
    <2>1. IsWellFoundedOn(StrictSubsetOrdering(Nat), FiniteSubsetsOf(Nat))
        BY FS_StrictSubsetOrderingWellFounded
    <2>. HIDE DEF Below
    <2>. QED
        BY <1>1, <1>2, <2>1, WFMin
<1>4. PICK m \in S : x = 0 .. m
    OBVIOUS
<1>5. ASSUME NEW k \in S, k < m PROVE FALSE
    <2>1. m \in 0 .. m /\ m \notin 0 .. k
        BY <1>5
    <2>2. 0 .. k \subseteq 0 .. m /\ 0 .. k # 0 .. m /\ 0 .. k \in Below
        BY <1>5, <2>1
    <2>3. 0 .. k \in SUBSET Nat /\ 0 .. m \in SUBSET Nat
        OBVIOUS
    <2>. QED
        BY <1>3, <1>4, <2>2, <2>3 DEF StrictSubsetOrdering
<1>. QED
    BY <1>5

(* Induction: a set of naturals that has 0, and n + 1 with every n, has    *)
(* them all.                                                               *)
LEMMA AllNat ==
    ASSUME NEW S, 0 \in S, \A n \in Nat : n \in S => n + 1 \in S
    PROVE  Nat \subseteq S
<1>. SUFFICES ASSUME Nat \ S # {} PROVE FALSE
    OBVIOUS
<1>1. PICK m \in Nat \ S : \A k \in Nat \ S : m <= k
    BY LeastNat
<1>2. m - 1 \in Nat /\ m - 1 \in S
    BY <1>1
<1>. QED
    BY <1>1, <1>2

-----------------------------------------------------------------------------
(* Functions that start with x and go on from each value by f.  First      *)
(* those that stop at n.                                                   *)
Started(S, x, f, n) ==
    {h \in [0 .. n -> S] : h[0] = x /\ \A k \in 1 .. n : h[k] = f[<<k - 1, h[k - 1]>>]}

(* Two of them agree as far as both go. *)
LEMMA StartedAgree ==
    ASSUME NEW S, NEW x, NEW f, NEW n \in Nat, NEW m \in Nat, n <= m,
           NEW g \in Started(S, x, f, n), NEW h \in Started(S, x, f, m)
    PROVE  \A k \in 0 .. n : g[k] = h[k]
<1> DEFINE Same == {k \in Nat : k <= n => g[k] = h[k]}
<1>1. 0 \in Same
    BY DEF Started
<1>2. \A k \in Nat : k \in Same => k + 1 \in Same
    <2>. SUFFICES ASSUME NEW k \in Nat, k \in Same, k + 1 <= n
                  PROVE  g[k + 1] = h[k + 1]
        OBVIOUS
    <2>1. k + 1 \in 1 .. n /\ k + 1 \in 1 .. m /\ (k + 1) - 1 = k /\ g[k] = h[k]
        OBVIOUS
    <2>2. g[k + 1] = f[<<(k + 1) - 1, g[(k + 1) - 1]>>]
        BY <2>1 DEF Started
    <2>3. h[k + 1] = f[<<(k + 1) - 1, h[(k + 1) - 1]>>]
        BY <2>1 DEF Started
    <2>. QED
        BY <2>1, <2>2, <2>3
<1>3. Nat \subseteq Same
    <2>. HIDE DEF Same
    <2>. QED
        BY <1>1, <1>2, AllNat
<1>. QED
    BY <1>3

(* There is one for every n. *)
LEMMA StartedExists ==
    ASSUME NEW S, NEW x \in S, NEW f \in [Nat \X S -> S], NEW n \in Nat
    PROVE  Started(S, x, f, n) # {}
<1> DEFINE Some == {k \in Nat : Started(S, x, f, k) # {}}
<1>1. 0 \in Some
    <2>1. [k \in 0 .. 0 |-> x] \in Started(S, x, f, 0)
        BY DEF Started
    <2>. QED
        BY <2>1
<1>2. \A k \in Nat : k \in Some => k + 1 \in Some
    <2>. SUFFICES ASSUME NEW k \in Nat, NEW h \in Started(S, x, f, k)
                  PROVE  Started(S, x, f, k + 1) # {}
        OBVIOUS
    <2> DEFINE g == [i \in 0 .. k + 1 |-> IF i = k + 1 THEN f[<<k, h[k]>>] ELSE h[i]]
    <2>1. h \in [0 .. k -> S] /\ h[0] = x
          /\ \A i \in 1 .. k : h[i] = f[<<i - 1, h[i - 1]>>]
        BY DEF Started
    <2>2. g \in [0 .. k + 1 -> S] /\ g[0] = x
        BY <2>1
    <2>3. ASSUME NEW i \in 1 .. k + 1 PROVE g[i] = f[<<i - 1, g[i - 1]>>]
        <3>1. g[i - 1] = h[i - 1]
            OBVIOUS
        <3>2. CASE i = k + 1
            <4>1. i - 1 = k /\ g[i - 1] = h[k] /\ g[i] = f[<<k, h[k]>>]
                BY <3>1, <3>2
            <4>. QED
                BY <4>1
        <3>3. CASE i \in 1 .. k
            BY <2>1, <3>1, <3>3
        <3>. QED
            BY <3>2, <3>3
    <2>4. g \in Started(S, x, f, k + 1)
        <3>. HIDE DEF g
        <3>. QED
            BY <2>2, <2>3 DEF Started
    <2>. QED
        BY <2>4
<1>3. Nat \subseteq Some
    <2>. HIDE DEF Some
    <2>. QED
        BY <1>1, <1>2, AllNat
<1>. QED
    BY <1>3

(* And one that never stops. *)
Goes(S, x, f) ==
    {g \in [Nat -> S] : g[0] = x /\ \A n \in Nat : g[n + 1] = f[<<n, g[n]>>]}

(* There is one for every start and every step. *)
LEMMA RecursionExists ==
    ASSUME NEW S, NEW x \in S, NEW f \in [Nat \X S -> S]
    PROVE  Goes(S, x, f) # {}
<1> DEFINE h(n) == CHOOSE h \in Started(S, x, f, n) : TRUE
           g == [n \in Nat |-> h(n)[n]]
<1>1. \A n \in Nat : h(n) \in Started(S, x, f, n)
    BY StartedExists
<1>2. \A n \in Nat : /\ h(n) \in [0 .. n -> S] /\ h(n)[0] = x
                     /\ \A k \in 1 .. n : h(n)[k] = f[<<k - 1, h(n)[k - 1]>>]
    BY <1>1 DEF Started
<1>3. \A n \in Nat : h(n + 1)[n] = h(n)[n]
    BY <1>1, StartedAgree
<1>. HIDE DEF h
<1>4. g \in [Nat -> S] /\ g[0] = x
    BY <1>2
<1>5. ASSUME NEW n \in Nat PROVE g[n + 1] = f[<<n, g[n]>>]
    <2>1. n + 1 \in Nat /\ n + 1 \in 1 .. n + 1 /\ (n + 1) - 1 = n
        OBVIOUS
    <2>2. h(n + 1)[n + 1] = f[<<n, h(n + 1)[n]>>]
        BY <1>2, <2>1
    <2>. QED
        BY <1>3, <2>1, <2>2
<1>6. g \in Goes(S, x, f)
    <2>. HIDE DEF g
    <2>. QED
        BY <1>4, <1>5 DEF Goes
<1>. QED
    BY <1>6

-----------------------------------------------------------------------------
(* The sums of g over the subsets of S, each over its elements in the      *)
(* order in which they are chosen.                                         *)
Chosen(s) == CHOOSE x \in s : TRUE

AddsUp(S, g, h) ==
    \A s \in SUBSET S :
        h[s] = IF s = {} THEN 0 ELSE g[Chosen(s)] + h[s \ {Chosen(s)}]

Sums(S, g) == {h \in [SUBSET S -> Int] : AddsUp(S, g, h)}

(* Every subset but the empty one is another with one element more.        *)
LEMMA OneLess ==
    ASSUME NEW S, IsFiniteSet(S), NEW s \in SUBSET S, s # {}
    PROVE  /\ Chosen(s) \in s
           /\ s \ {Chosen(s)} \in SUBSET S
           /\ Cardinality(s) \in Nat /\ Cardinality(s) > 0
           /\ Cardinality(s \ {Chosen(s)}) = Cardinality(s) - 1
<1>1. Chosen(s) \in s
    BY DEF Chosen
<1>2. IsFiniteSet(s)
    BY FS_Subset
<1>3. Cardinality(s) \in Nat /\ Cardinality(s \ {Chosen(s)}) = Cardinality(s) - 1
    BY <1>1, <1>2, FS_CardinalityType, FS_RemoveElement
<1>4. Cardinality(s) # 0
    BY <1>2, FS_EmptySet
<1>. QED
    BY <1>1, <1>3, <1>4

(* A finite set has a sum: of its subsets with n elements after n steps.   *)
LEMMA SumsExist ==
    ASSUME NEW S, IsFiniteSet(S), NEW g \in [S -> Int]
    PROVE  Sums(S, g) # {}
<1> DEFINE H == [SUBSET S -> Int]
           Zero == [s \in SUBSET S |-> 0]
           step(h) == [s \in SUBSET S |->
                          IF s = {} THEN 0 ELSE g[Chosen(s)] + h[s \ {Chosen(s)}]]
           f == [x \in Nat \X H |-> step(x[2])]
<1>1. Zero \in H
    OBVIOUS
<1>2. ASSUME NEW h \in H PROVE step(h) \in H
    <2>1. \A s \in SUBSET S : s # {} => Chosen(s) \in S /\ s \ {Chosen(s)} \in SUBSET S
        BY OneLess
    <2>. QED
        BY <2>1
<1>3. f \in [Nat \X H -> H] /\ \A n \in Nat, h \in H : f[<<n, h>>] = step(h)
    <2>. HIDE DEF step, H
    <2>. QED
        BY <1>2
<1>4. PICK F : F \in [Nat -> H] /\ F[0] = Zero /\ \A n \in Nat : F[n + 1] = step(F[n])
    <2>. HIDE DEF step, H, f, Zero
    <2>1. PICK F : F \in Goes(H, Zero, f)
        BY <1>1, <1>3, RecursionExists
    <2>. QED
        BY <1>3, <2>1 DEF Goes
<1> DEFINE h == [s \in SUBSET S |-> F[Cardinality(s)][s]]
<1>5. \A s \in SUBSET S : Cardinality(s) \in Nat
    BY FS_Subset, FS_CardinalityType
<1>6. h \in H
    BY <1>4, <1>5
<1>7. ASSUME NEW s \in SUBSET S
      PROVE  h[s] = IF s = {} THEN 0 ELSE g[Chosen(s)] + h[s \ {Chosen(s)}]
    <2>1. CASE s = {}
        <3>1. Cardinality(s) = 0
            BY <2>1, FS_EmptySet
        <3>. QED
            BY <1>4, <2>1, <3>1
    <2>2. CASE s # {}
        <3>1. PICK n \in Nat : Cardinality(s) = n + 1 /\ Cardinality(s \ {Chosen(s)}) = n
            <4>. HIDE DEF h
            <4>1. /\ Cardinality(s) \in Nat /\ Cardinality(s) > 0
                  /\ Cardinality(s \ {Chosen(s)}) = Cardinality(s) - 1
                BY <2>2, OneLess
            <4>2. Cardinality(s) - 1 \in Nat /\ Cardinality(s) = (Cardinality(s) - 1) + 1
                BY <4>1
            <4>. QED
                BY <4>1, <4>2
        <3>2. h[s] = step(F[n])[s]
            BY <1>4, <3>1
        <3>3. s \ {Chosen(s)} \in SUBSET S
            OBVIOUS
        <3>. QED
            BY <2>2, <3>1, <3>2, <3>3
    <2>. QED
        BY <2>1, <2>2
<1>8. h \in Sums(S, g)
    <2>. HIDE DEF h
    <2>. QED
        BY <1>6, <1>7 DEF Sums, AddsUp
<1>. QED
    BY <1>8

(* In whatever order they are chosen: one element more adds its value.     *)
LEMMA SumAdds ==
    ASSUME NEW S, IsFiniteSet(S), NEW g \in [S -> Int], NEW h \in Sums(S, g),
           NEW s \in SUBSET S, NEW x \in S \ s
    PROVE  h[s \cup {x}] = h[s] + g[x]
<1> DEFINE Adds(t, y) == h[t \cup {y}] = h[t] + g[y]
           Good == {n \in Nat : \A t \in SUBSET S, y \in S :
                        Cardinality(t) = n /\ y \notin t => Adds(t, y)}
<1>1. /\ h \in [SUBSET S -> Int] /\ h[{}] = 0
      /\ \A t \in SUBSET S : t # {} => h[t] = g[Chosen(t)] + h[t \ {Chosen(t)}]
    BY DEF Sums, AddsUp
<1>2. \A t \in SUBSET S : IsFiniteSet(t) /\ Cardinality(t) \in Nat
    BY FS_Subset, FS_CardinalityType
<1>3. 0 \in Good
    <2>1. ASSUME NEW t \in SUBSET S, NEW y \in S, Cardinality(t) = 0
          PROVE  Adds(t, y)
        <3>1. t = {} /\ t \cup {y} = {y}
            BY <1>2, <2>1, FS_EmptySet
        <3>2. Chosen({y}) = y /\ {y} \ {y} = {}
            BY DEF Chosen
        <3>3. h[{y}] = g[y] + h[{}]
            BY <1>1, <3>2
        <3>4. g[y] \in Int
            OBVIOUS
        <3>. QED
            BY <1>1, <3>1, <3>3, <3>4
    <2>. QED
        BY <2>1
<1>4. ASSUME NEW n \in Nat, n \in Good PROVE n + 1 \in Good
    <2>1. ASSUME NEW t \in SUBSET S, NEW y \in S, Cardinality(t) = n + 1, y \notin t
          PROVE  Adds(t, y)
        <3>1. PICK c : c = Chosen(t \cup {y})
            OBVIOUS
        <3>2. /\ c \in t \cup {y}
              /\ h[t \cup {y}] = g[c] + h[(t \cup {y}) \ {c}]
            <4>1. PICK w : w \in SUBSET S /\ w = t \cup {y} /\ w # {}
                <5>1. t \cup {y} \in SUBSET S /\ t \cup {y} # {}
                    OBVIOUS
                <5>. QED
                    BY <5>1
            <4>2. h[w] = g[Chosen(w)] + h[w \ {Chosen(w)}]
                BY <1>1, <4>1
            <4>3. Chosen(w) \in w
                BY <4>1 DEF Chosen
            <4>. QED
                BY <3>1, <4>1, <4>2, <4>3
        <3>3. h[t] \in Int /\ g[y] \in Int
            BY <1>1
        <3>4. CASE c = y
            <4>1. (t \cup {y}) \ {c} = t
                BY <2>1, <3>4
            <4>2. h[t \cup {y}] = g[y] + h[t]
                BY <3>2, <3>4, <4>1
            <4>. QED
                BY <3>3, <4>2
        <3>5. CASE c \in t /\ c # y
            <4>1. PICK u \in SUBSET S : u = t \ {c} /\ c \notin u /\ y \notin u /\ c \in S
                <5>1. t \ {c} \in SUBSET S /\ c \in S /\ y \notin t \ {c}
                    BY <2>1, <3>5
                <5>. QED
                    BY <5>1
            <4>2. (t \cup {y}) \ {c} = u \cup {y} /\ t = u \cup {c}
                BY <3>5, <4>1
            <4>3. Cardinality(u) = n
                <5>1. IsFiniteSet(t) /\ c \in t
                    BY <1>2, <3>5
                <5>2. Cardinality(t \ {c}) = Cardinality(t) - 1
                    BY <5>1, FS_RemoveElement
                <5>. QED
                    BY <2>1, <4>1, <5>2
            <4>4. h[u \cup {y}] = h[u] + g[y] /\ h[u \cup {c}] = h[u] + g[c]
                BY <1>4, <4>1, <4>3
            <4>5. h[u] \in Int /\ g[c] \in Int
                BY <1>1, <4>1
            <4>6. h[t \cup {y}] = g[c] + (h[u] + g[y])
                BY <3>2, <4>2, <4>4
            <4>7. h[t] = h[u] + g[c]
                BY <4>2, <4>4
            <4>. QED
                BY <3>3, <4>5, <4>6, <4>7
        <3>. QED
            BY <3>2, <3>4, <3>5
    <2>. QED
        BY <2>1
<1>5. Nat \subseteq Good
    <2>. HIDE DEF Good
    <2>. QED
        BY <1>3, <1>4, AllNat
<1>. QED
    BY <1>2, <1>5

(* There is no other sum. *)
LEMMA SumsUnique ==
    ASSUME NEW S, IsFiniteSet(S), NEW g,
           NEW f, AddsUp(S, g, f), NEW h, AddsUp(S, g, h)
    PROVE  \A s \in SUBSET S : f[s] = h[s]
<1> DEFINE Same == {n \in Nat : \A s \in SUBSET S : Cardinality(s) = n => f[s] = h[s]}
<1>1. \A s \in SUBSET S : IsFiniteSet(s) /\ Cardinality(s) \in Nat
    BY FS_Subset, FS_CardinalityType
<1>2. 0 \in Same
    <2>1. \A s \in SUBSET S : Cardinality(s) = 0 => s = {}
        BY <1>1, FS_EmptySet
    <2>2. f[{}] = 0 /\ h[{}] = 0
        BY DEF AddsUp
    <2>. QED
        BY <2>1, <2>2
<1>3. ASSUME NEW n \in Nat, n \in Same PROVE n + 1 \in Same
    <2>1. ASSUME NEW s \in SUBSET S, Cardinality(s) = n + 1
          PROVE  f[s] = h[s]
        <3>1. s # {}
            BY <2>1, FS_EmptySet
        <3>2. PICK t : t = s \ {Chosen(s)} /\ t \in SUBSET S /\ Cardinality(t) = n
            <4>1. /\ s \ {Chosen(s)} \in SUBSET S
                  /\ Cardinality(s \ {Chosen(s)}) = Cardinality(s) - 1
                BY <3>1, OneLess
            <4>. QED
                BY <2>1, <4>1
        <3>3. f[t] = h[t]
            BY <1>3, <3>2
        <3>. QED
            BY <3>1, <3>2, <3>3 DEF AddsUp
    <2>. QED
        BY <2>1
<1>4. Nat \subseteq Same
    <2>. HIDE DEF Same
    <2>. QED
        BY <1>2, <1>3, AllNat
<1>. QED
    BY <1>1, <1>4
=============================================================================
