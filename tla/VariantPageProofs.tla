---------------------------- MODULE VariantPageProofs ----------------------------
(***************************************************************************)
(* Proofs about variant pages, for any size of a page, any lengths of      *)
(* items and any number of pages: how they are laid out, whose the         *)
(* overflow pages are, and that the pages are lists of items.              *)
(***************************************************************************)
EXTENDS VariantPage, SequenceTheorems, Induction

(* Sequences of blocks: whatever has a size. *)
Sized(s) == Len(s) \in Nat /\ \A n \in 1 .. Len(s) : s[n].size \in Nat

(* f adds the sizes up, of those blocks that count. *)
Running(s, c, f) ==
    /\ f[0] = 0
    /\ \A n \in 1 .. Len(s) : f[n] = IF n \in c THEN f[n - 1] + s[n].size ELSE f[n - 1]

(* There is such a function, whose values are naturals. *)
LEMMA RunningExists ==
    ASSUME NEW s, Sized(s), NEW c
    PROVE  \E f \in [Nat -> Nat] : Running(s, c, f)
<1> DEFINE step == [x \in Nat \X Nat |->
                       IF x[1] + 1 \in 1 .. Len(s) /\ x[1] + 1 \in c
                       THEN x[2] + s[x[1] + 1].size ELSE x[2]]
<1>1. step \in [Nat \X Nat -> Nat]
    <2>1. \A n \in 1 .. Len(s) : s[n].size \in Nat
        BY DEF Sized
    <2>. QED
        BY <2>1
<1>2. PICK f : f \in Goes(Nat, 0, step)
    <2>. HIDE DEF step
    <2>. QED
        BY <1>1, RecursionExists
<1>3. f \in [Nat -> Nat] /\ f[0] = 0 /\ \A n \in Nat : f[n + 1] = step[<<n, f[n]>>]
    BY <1>2 DEF Goes
<1>4. ASSUME NEW n \in 1 .. Len(s)
      PROVE  f[n] = IF n \in c THEN f[n - 1] + s[n].size ELSE f[n - 1]
    <2>1. n - 1 \in Nat /\ (n - 1) + 1 = n /\ f[n - 1] \in Nat
        BY <1>3
    <2>2. f[n] = step[<<n - 1, f[n - 1]>>]
        BY ZenonT(40), <1>3, <2>1
    <2>. QED
        BY <2>1, <2>2
<1>. QED
    BY <1>3, <1>4 DEF Running

(* It is the only one as far as the sequence goes. *)
LEMMA RunningUnique ==
    ASSUME NEW n \in Nat, NEW s, NEW c, NEW f, NEW g, n = Len(s),
           Running(s, c, f), Running(s, c, g)
    PROVE  f[n] = g[n]
<1> DEFINE Same == {k \in Nat : k <= n => f[k] = g[k]}
<1>1. 0 \in Same
    BY DEF Running
<1>2. ASSUME NEW k \in Nat, k \in Same PROVE k + 1 \in Same
    <2>. SUFFICES ASSUME k + 1 <= n PROVE f[k + 1] = g[k + 1]
        OBVIOUS
    <2>1. k + 1 \in 1 .. n /\ (k + 1) - 1 = k /\ f[k] = g[k]
        BY <1>2
    <2>2. /\ f[k + 1] = IF k + 1 \in c THEN f[k] + s[k + 1].size ELSE f[k]
          /\ g[k + 1] = IF k + 1 \in c THEN g[k] + s[k + 1].size ELSE g[k]
        BY <2>1 DEF Running
    <2>. QED
        BY <2>1, <2>2
<1>3. Nat \subseteq Same
    <2>. HIDE DEF Same
    <2>. QED
        BY <1>1, <1>2, AllNat
<1>. QED
    BY <1>3

(* The sum of the sizes is its last value. *)
All == Nat

LEMMA SumIsRunning ==
    ASSUME NEW s, Sized(s), NEW f, Running(s, All, f)
    PROVE  SizesOf(s) = f[Len(s)] /\ SizesOf(s) \in Nat
<1> DEFINE Adds(t) == t = [n \in 0 .. Len(s) |-> IF n = 0 THEN 0 ELSE t[n - 1] + s[n].size]
           sum == CHOOSE t : Adds(t)
<1>1. PICK g \in [Nat -> Nat] : Running(s, All, g)
    BY RunningExists
<1>2. PICK h : /\ h = [n \in 0 .. Len(s) |-> g[n]]
               /\ \A n \in 0 .. Len(s) : h[n] = IF n = 0 THEN 0 ELSE h[n - 1] + s[n].size
    <2>1. g[0] = 0 /\ \A n \in 1 .. Len(s) : g[n] = g[n - 1] + s[n].size
        <3>1. \A n \in 1 .. Len(s) : n \in All
            BY DEF All
        <3>. QED
            BY <1>1, <3>1 DEF Running
    <2>2. \A n \in 1 .. Len(s) : n - 1 \in 0 .. Len(s)
        OBVIOUS
    <2> DEFINE h == [n \in 0 .. Len(s) |-> g[n]]
    <2>3. \A n \in 0 .. Len(s) : h[n] = IF n = 0 THEN 0 ELSE h[n - 1] + s[n].size
        <3>1. \A n \in 0 .. Len(s) : n # 0 => n \in 1 .. Len(s)
            OBVIOUS
        <3>2. \A n \in 0 .. Len(s) : h[n] = g[n]
            OBVIOUS
        <3>. HIDE DEF h
        <3>. QED
            BY <2>1, <2>2, <3>1, <3>2
    <2>. QED
        BY <2>3
<1>3. Adds(h)
    BY <1>2
<1>4. Running(s, All, sum)
    <2>1. Adds(sum)
        <3>. HIDE DEF Adds
        <3>. QED
            BY <1>3
    <2>2. /\ sum[0] = 0
          /\ \A n \in 1 .. Len(s) : sum[n] = sum[n - 1] + s[n].size
        <3>. HIDE DEF sum
        <3>1. \A n \in 0 .. Len(s) : sum[n] = IF n = 0 THEN 0 ELSE sum[n - 1] + s[n].size
            BY <2>1
        <3>2. 0 \in 0 .. Len(s)
            BY DEF Sized
        <3>3. ASSUME NEW n \in 1 .. Len(s) PROVE sum[n] = sum[n - 1] + s[n].size
            <4>1. n \in 0 .. Len(s) /\ n # 0
                OBVIOUS
            <4>. QED
                BY <3>1, <4>1
        <3>. QED
            BY <3>1, <3>2, <3>3
    <2>. HIDE DEF sum
    <2>. QED
        BY <2>2 DEF Running, All
<1>5. SizesOf(s) = sum[Len(s)]
    BY DEF SizesOf
<1>. HIDE DEF sum
<1>6. sum[Len(s)] = f[Len(s)] /\ sum[Len(s)] = g[Len(s)] /\ Len(s) \in Nat
    BY <1>1, <1>4, RunningUnique
<1>. QED
    BY <1>5, <1>6

(* And so of the blocks that lie at some place or above. *)
From(s, x) == {n \in 1 .. Len(s) : s[n].at >= x}

LEMMA SumFromIsRunning ==
    ASSUME NEW s, Sized(s), NEW x, NEW f, Running(s, From(s, x), f)
    PROVE  SizesFrom(s, x) = f[Len(s)]
<1> DEFINE Adds(t) == t = [n \in 0 .. Len(s) |->
                              IF n = 0 THEN 0
                              ELSE IF s[n].at >= x THEN t[n - 1] + s[n].size ELSE t[n - 1]]
           sum == CHOOSE t : Adds(t)
<1>1. PICK g \in [Nat -> Nat] : Running(s, From(s, x), g)
    BY RunningExists
<1>2. PICK h : /\ h = [n \in 0 .. Len(s) |-> g[n]]
               /\ \A n \in 0 .. Len(s) :
                     h[n] = IF n = 0 THEN 0
                            ELSE IF s[n].at >= x THEN h[n - 1] + s[n].size ELSE h[n - 1]
    <2>1. /\ g[0] = 0
          /\ \A n \in 1 .. Len(s) :
                g[n] = IF s[n].at >= x THEN g[n - 1] + s[n].size ELSE g[n - 1]
        BY <1>1 DEF Running, From
    <2>2. \A n \in 1 .. Len(s) : n - 1 \in 0 .. Len(s)
        OBVIOUS
    <2> DEFINE h == [n \in 0 .. Len(s) |-> g[n]]
    <2>3. \A n \in 0 .. Len(s) :
             h[n] = IF n = 0 THEN 0
                    ELSE IF s[n].at >= x THEN h[n - 1] + s[n].size ELSE h[n - 1]
        <3>1. \A n \in 0 .. Len(s) : n # 0 => n \in 1 .. Len(s)
            OBVIOUS
        <3>2. \A n \in 0 .. Len(s) : h[n] = g[n]
            OBVIOUS
        <3>. HIDE DEF h
        <3>. QED
            BY <2>1, <2>2, <3>1, <3>2
    <2>. QED
        BY <2>3
<1>3. Adds(h)
    BY <1>2
<1>4. Running(s, From(s, x), sum)
    <2>1. Adds(sum)
        <3>. HIDE DEF Adds
        <3>. QED
            BY <1>3
    <2>2. /\ sum[0] = 0
          /\ \A n \in 1 .. Len(s) :
                sum[n] = IF s[n].at >= x THEN sum[n - 1] + s[n].size ELSE sum[n - 1]
        <3>. HIDE DEF sum
        <3>1. \A n \in 0 .. Len(s) :
                 sum[n] = IF n = 0 THEN 0
                          ELSE IF s[n].at >= x THEN sum[n - 1] + s[n].size ELSE sum[n - 1]
            BY <2>1
        <3>2. 0 \in 0 .. Len(s)
            BY DEF Sized
        <3>3. ASSUME NEW n \in 1 .. Len(s)
              PROVE  sum[n] = IF s[n].at >= x THEN sum[n - 1] + s[n].size ELSE sum[n - 1]
            <4>1. n \in 0 .. Len(s) /\ n # 0
                OBVIOUS
            <4>. QED
                BY <3>1, <4>1
        <3>. QED
            BY <3>1, <3>2, <3>3
    <2>. HIDE DEF sum
    <2>. QED
        BY <2>2 DEF Running, From
<1>5. SizesFrom(s, x) = sum[Len(s)]
    BY DEF SizesFrom
<1>. HIDE DEF sum
<1>. QED
    BY <1>4, <1>5, RunningUnique

(* Where more blocks count the sum is no less, and greater by a block that *)
(* did not count before.                                                   *)
LEMMA MoreCount ==
    ASSUME NEW s, Sized(s), NEW c, NEW d,
           c \subseteq d,
           NEW f \in [Nat -> Nat], Running(s, c, f),
           NEW g \in [Nat -> Nat], Running(s, d, g)
    PROVE  /\ f[Len(s)] <= g[Len(s)]
           /\ \A j \in 1 .. Len(s) : j \in d /\ j \notin c => f[Len(s)] + s[j].size <= g[Len(s)]
<1> DEFINE Less(n) == /\ f[n] <= g[n]
                      /\ \A j \in 1 .. n : j \in d /\ j \notin c => f[n] + s[j].size <= g[n]
           Least == {n \in Nat : n <= Len(s) => Less(n)}
<1>0. Len(s) \in Nat
    BY DEF Sized
<1>1. 0 \in Least
    BY DEF Running
<1>2. ASSUME NEW n \in Nat, n \in Least PROVE n + 1 \in Least
    <2>. SUFFICES ASSUME n + 1 <= Len(s) PROVE Less(n + 1)
        <3>. HIDE DEF Less
        <3>. QED
            OBVIOUS
    <2>1. n + 1 \in 1 .. Len(s) /\ (n + 1) - 1 = n
        BY <1>0
    <2>2. PICK z \in Nat : z = s[n + 1].size
        BY <1>0, <2>1 DEF Sized
    <2>3. PICK u \in Nat, v \in Nat : u = f[n] /\ v = g[n]
        OBVIOUS
    <2>4. \/ n + 1 \in c /\ f[n + 1] = u + z /\ g[n + 1] = v + z
          \/ n + 1 \notin c /\ n + 1 \in d /\ f[n + 1] = u /\ g[n + 1] = v + z
          \/ n + 1 \notin c /\ n + 1 \notin d /\ f[n + 1] = u /\ g[n + 1] = v
        BY <2>1, <2>2, <2>3 DEF Running
    <2>5. u <= v /\ \A j \in 1 .. n : j \in d /\ j \notin c => u + s[j].size <= v
        <3>1. Less(n)
            <4>. HIDE DEF Less
            <4>. QED
                BY <1>0, <1>2
        <3>. QED
            BY <2>3, <3>1
    <2>6. f[n + 1] <= g[n + 1]
        <3>1. u <= v
            BY <2>5
        <3>2. f[n + 1] = u + z /\ g[n + 1] = v + z => f[n + 1] <= g[n + 1]
            BY <3>1
        <3>3. f[n + 1] = u /\ g[n + 1] = v + z => f[n + 1] <= g[n + 1]
            BY <3>1
        <3>4. f[n + 1] = u /\ g[n + 1] = v => f[n + 1] <= g[n + 1]
            BY <3>1
        <3>. QED
            BY <2>4, <3>2, <3>3, <3>4
    <2>7. ASSUME NEW j \in 1 .. n + 1, j \in d, j \notin c
          PROVE  f[n + 1] + s[j].size <= g[n + 1]
        <3>1. PICK w \in Nat : w = s[j].size
            <4>1. j \in 1 .. Len(s)
                BY <1>0
            <4>. QED
                BY <1>0, <4>1 DEF Sized
        <3>2. CASE j = n + 1
            <4>1. w = z /\ f[n + 1] = u /\ g[n + 1] = v + z
                BY <2>2, <2>4, <2>7, <3>1, <3>2
            <4>2. u <= v
                BY <2>5
            <4>. QED
                BY <3>1, <4>1, <4>2
        <3>3. CASE j \in 1 .. n
            <4>1. u + w <= v
                BY <2>5, <2>7, <3>1, <3>3
            <4>2. f[n + 1] + w <= g[n + 1]
                <5>1. f[n + 1] = u + z /\ g[n + 1] = v + z => f[n + 1] + w <= g[n + 1]
                    BY <4>1
                <5>2. f[n + 1] = u /\ g[n + 1] = v + z => f[n + 1] + w <= g[n + 1]
                    BY <4>1
                <5>3. f[n + 1] = u /\ g[n + 1] = v => f[n + 1] + w <= g[n + 1]
                    BY <4>1
                <5>. QED
                    BY <2>4, <5>1, <5>2, <5>3
            <4>. QED
                BY <3>1, <4>2
        <3>4. j = n + 1 \/ j \in 1 .. n
            OBVIOUS
        <3>. QED
            BY <3>2, <3>3, <3>4
    <2>. QED
        BY <2>6, <2>7
<1>3. Nat \subseteq Least
    <2>. HIDE DEF Least
    <2>. QED
        BY <1>1, <1>2, AllNat
<1>4. Less(Len(s))
    <2>1. Len(s) \in Nat /\ Len(s) <= Len(s)
        BY <1>0
    <2>. HIDE DEF Less
    <2>. QED
        BY <1>3, <2>1
<1>. QED
    BY <1>4

LEMMA FromShrinks ==
    ASSUME NEW s, \A n \in 1 .. Len(s) : s[n].at \in Int,
           NEW i \in 1 .. Len(s), NEW y \in Int, s[i].at < y
    PROVE  /\ From(s, y) \subseteq From(s, s[i].at)
           /\ i \in From(s, s[i].at) /\ i \notin From(s, y)
<1>1. ASSUME NEW n \in 1 .. Len(s), s[n].at >= y PROVE s[n].at >= s[i].at
    BY <1>1
<1>2. s[i].at >= s[i].at /\ ~(s[i].at >= y)
    OBVIOUS
<1>. QED
    BY <1>1, <1>2 DEF From

(* So fewer bytes lie above a block than from it on, by those of the block. *)
LEMMA FromBlocks ==
    ASSUME NEW s, Sized(s), \A n \in 1 .. Len(s) : s[n].at \in Int
    PROVE  /\ SizesOf(s) \in Nat
           /\ \A j \in 1 .. Len(s) :
                 /\ SizesFrom(s, s[j].at) \in Nat
                 /\ SizesFrom(s, s[j].at) <= SizesOf(s)
                 /\ s[j].size <= SizesFrom(s, s[j].at)
           /\ \A i, j \in 1 .. Len(s) :
                 s[i].at < s[j].at =>
                     SizesFrom(s, s[j].at) + s[i].size <= SizesFrom(s, s[i].at)
<1>0. \A n \in 1 .. Len(s) : n \in All /\ s[n].at \in Int /\ s[n].size \in Nat
    BY DEF All, Sized
<1>1. PICK f : f \in [Nat -> Nat] /\ Running(s, All, f)
    BY RunningExists
<1>2. SizesOf(s) = f[Len(s)] /\ Len(s) \in Nat /\ f[Len(s)] \in Nat
    <2>1. SizesOf(s) = f[Len(s)]
        BY <1>1, SumIsRunning
    <2>. QED
        BY <1>1, <2>1 DEF Sized
<1>3. ASSUME NEW j \in 1 .. Len(s)
      PROVE  /\ SizesFrom(s, s[j].at) \in Nat
             /\ SizesFrom(s, s[j].at) <= SizesOf(s)
             /\ s[j].size <= SizesFrom(s, s[j].at)
             /\ \A i \in 1 .. Len(s) :
                   s[i].at < s[j].at =>
                       SizesFrom(s, s[j].at) + s[i].size <= SizesFrom(s, s[i].at)
    <2>1. PICK g : g \in [Nat -> Nat] /\ Running(s, From(s, s[j].at), g)
        BY RunningExists
    <2>2. SizesFrom(s, s[j].at) = g[Len(s)] /\ g[Len(s)] \in Nat
        <3>1. SizesFrom(s, s[j].at) = g[Len(s)]
            BY <2>1, SumFromIsRunning
        <3>. QED
            BY <1>2, <2>1, <3>1
    <2>3. g[Len(s)] <= f[Len(s)]
        <3>1. From(s, s[j].at) \subseteq All
            BY DEF From, All
        <3>. QED
            BY <1>1, <2>1, <3>1, MoreCount
    <2>4. PICK e : e \in [Nat -> Nat] /\ Running(s, From(s, s[j].at + 1), e)
        BY RunningExists
    <2>5. /\ From(s, s[j].at + 1) \subseteq From(s, s[j].at)
          /\ j \in From(s, s[j].at) /\ j \notin From(s, s[j].at + 1)
        <3>1. s[j].at + 1 \in Int /\ s[j].at < s[j].at + 1
            BY <1>0
        <3>. QED
            BY <1>0, <3>1, FromShrinks
    <2>6. e[Len(s)] + s[j].size <= g[Len(s)]
        BY <2>1, <2>4, <2>5, MoreCount
    <2>7. s[j].size <= g[Len(s)]
        <3>1. e[Len(s)] \in Nat /\ g[Len(s)] \in Nat /\ s[j].size \in Nat
            BY <1>0, <1>2, <2>1, <2>4
        <3>. QED
            BY <2>6, <3>1
    <2>8. ASSUME NEW i \in 1 .. Len(s), s[i].at < s[j].at
          PROVE  SizesFrom(s, s[j].at) + s[i].size <= SizesFrom(s, s[i].at)
        <3>1. PICK h : h \in [Nat -> Nat] /\ Running(s, From(s, s[i].at), h)
            BY RunningExists
        <3>2. SizesFrom(s, s[i].at) = h[Len(s)]
            BY <3>1, SumFromIsRunning
        <3>3. /\ From(s, s[j].at) \subseteq From(s, s[i].at)
              /\ i \in From(s, s[i].at) /\ i \notin From(s, s[j].at)
            BY <1>0, <2>8, FromShrinks
        <3>4. g[Len(s)] + s[i].size <= h[Len(s)]
            BY <2>1, <3>1, <3>3, MoreCount
        <3>. QED
            BY <2>2, <3>2, <3>4
    <2>. QED
        BY <1>2, <2>2, <2>3, <2>7, <2>8
<1>. QED
    BY <1>2, <1>3
(* Sums of a window of the sequence, and of sequences that differ in one   *)
(* place.                                                                  *)
Runs(s, f) == f \in [Nat -> Nat] /\ Running(s, All, f)

LEMMA Runs1 ==
    ASSUME NEW s, Sized(s)
    PROVE  \E f : Runs(s, f)
<1>1. PICK f : f \in [Nat -> Nat] /\ Running(s, All, f)
    BY RunningExists
<1>. QED
    BY <1>1 DEF Runs

LEMMA SumNat ==
    ASSUME NEW s, Sized(s)
    PROVE  SizesOf(s) \in Nat
<1>1. PICK f : f \in [Nat -> Nat] /\ Running(s, All, f)
    BY RunningExists
<1>. QED
    BY <1>1, SumIsRunning

LEMMA RunsSum ==
    ASSUME NEW s, Sized(s), NEW f, Runs(s, f)
    PROVE  /\ SizesOf(s) = f[Len(s)]
           /\ f[0] = 0
           /\ \A n \in 1 .. Len(s) : f[n] = f[n - 1] + s[n].size
           /\ \A n \in Nat : f[n] \in Nat
<1>1. f \in [Nat -> Nat] /\ Running(s, All, f)
    BY DEF Runs
<1>2. SizesOf(s) = f[Len(s)]
    BY <1>1, SumIsRunning
<1>3. \A n \in 1 .. Len(s) : n \in All
    BY DEF All
<1>. QED
    BY <1>1, <1>2, <1>3 DEF Running

LEMMA Window ==
    ASSUME NEW s, Sized(s), NEW t, Sized(t), NEW a \in Nat, a + Len(t) <= Len(s),
           \A n \in 1 .. Len(t) : t[n].size = s[a + n].size,
           NEW f, Runs(s, f)
    PROVE  f[a + Len(t)] = f[a] + SizesOf(t)
<1>1. PICK g : Runs(t, g)
    BY Runs1
<1> DEFINE Shifted == {n \in Nat : n <= Len(t) => f[a + n] = f[a] + g[n]}
<1>2. 0 \in Shifted
    BY <1>1, RunsSum
<1>3. ASSUME NEW n \in Nat, n \in Shifted PROVE n + 1 \in Shifted
    <2>. SUFFICES ASSUME n + 1 <= Len(t) PROVE f[a + (n + 1)] = f[a] + g[n + 1]
        OBVIOUS
    <2>1. /\ Len(t) \in Nat /\ Len(s) \in Nat
          /\ n + 1 \in 1 .. Len(t) /\ a + (n + 1) \in 1 .. Len(s)
          /\ (n + 1) - 1 = n /\ (a + (n + 1)) - 1 = a + n
        BY DEF Sized
    <2>2. PICK z \in Nat : z = t[n + 1].size /\ z = s[a + (n + 1)].size
        BY <2>1 DEF Sized
    <2>3. g[n + 1] = g[n] + z /\ g[n] \in Nat
        BY <1>1, <2>1, <2>2, RunsSum
    <2>4. f[a + (n + 1)] = f[a + n] + z /\ f[a] \in Nat /\ a + n \in Nat
        BY <2>1, <2>2, RunsSum
    <2>5. f[a + n] = f[a] + g[n]
        BY <1>3, <2>1
    <2>. QED
        BY SMTT(40), <2>3, <2>4, <2>5
<1>4. Nat \subseteq Shifted
    <2>. HIDE DEF Shifted
    <2>. QED
        BY <1>2, <1>3, AllNat
<1>5. Len(t) \in Nat /\ SizesOf(t) = g[Len(t)]
    BY <1>1, RunsSum DEF Sized
<1>. QED
    BY <1>4, <1>5

LEMMA SameSizes ==
    ASSUME NEW s, Sized(s), NEW t, Sized(t), Len(t) = Len(s),
           \A n \in 1 .. Len(s) : t[n].size = s[n].size
    PROVE  SizesOf(t) = SizesOf(s)
<1>1. PICK f : Runs(s, f)
    BY Runs1
<1>2. Len(s) \in Nat /\ \A n \in 1 .. Len(s) : 0 + n = n
    BY DEF Sized
<1>3. 0 + Len(t) = Len(s)
    BY <1>2
<1>4. f[0 + Len(t)] = f[0] + SizesOf(t)
    BY <1>1, <1>2, Window
<1>5. f[0] = 0 /\ SizesOf(s) = f[Len(s)]
    BY <1>1, RunsSum
<1>6. SizesOf(t) \in Nat
    BY SumNat
<1>. QED
    BY <1>3, <1>4, <1>5, <1>6

(* t is s without its i-th block. *)
Without(s, t, i) ==
    /\ Len(s) = Len(t) + 1
    /\ \A n \in 1 .. Len(t) : n < i => t[n] = s[n]
    /\ \A n \in 1 .. Len(t) : n >= i => t[n] = s[n + 1]

LEMMA SumWithout ==
    ASSUME NEW s, Sized(s), NEW t, Sized(t), NEW i \in 1 .. Len(s), Without(s, t, i)
    PROVE  SizesOf(s) = SizesOf(t) + s[i].size
<1>0. /\ Len(s) \in Nat /\ Len(t) \in Nat /\ i \in Nat /\ i > 0 /\ Len(s) = Len(t) + 1
      /\ i <= Len(s) /\ s[i].size \in Nat
    BY DEF Sized, Without
<1>1. PICK f : Runs(s, f)
    BY Runs1
<1>2. PICK g : Runs(t, g)
    BY Runs1
<1> DEFINE Low  == {n \in Nat : n < i => f[n] = g[n]}
           High == {n \in Nat : n < Len(t) + 1 - (i - 1) =>
                                   f[i + n] = g[i - 1 + n] + s[i].size}
<1>3. Nat \subseteq Low
    <2>1. 0 \in Low
        BY <1>1, <1>2, RunsSum
    <2>2. ASSUME NEW n \in Nat, n \in Low PROVE n + 1 \in Low
        <3>. SUFFICES ASSUME n + 1 < i PROVE f[n + 1] = g[n + 1]
            OBVIOUS
        <3>1. n + 1 \in 1 .. Len(s) /\ n + 1 \in 1 .. Len(t) /\ (n + 1) - 1 = n /\ n < i
            BY <1>0
        <3>2. t[n + 1] = s[n + 1]
            BY <3>1 DEF Without
        <3>3. f[n + 1] = f[n] + s[n + 1].size
            BY <1>1, <3>1, RunsSum
        <3>4. g[n + 1] = g[n] + t[n + 1].size
            BY <1>2, <3>1, RunsSum
        <3>. QED
            BY <2>2, <3>1, <3>2, <3>3, <3>4
    <2>. HIDE DEF Low
    <2>. QED
        BY <2>1, <2>2, AllNat
<1>4. Nat \subseteq High
    <2>1. 0 \in High
        <3>1. i - 1 \in Nat /\ i - 1 < i /\ i + 0 = i /\ i - 1 + 0 = i - 1
            BY <1>0
        <3>2. f[i - 1] = g[i - 1]
            BY <1>3, <3>1
        <3>3. f[i] = f[i - 1] + s[i].size
            BY <1>1, RunsSum
        <3>. QED
            BY <3>1, <3>2, <3>3
    <2>2. ASSUME NEW n \in Nat, n \in High PROVE n + 1 \in High
        <3>. SUFFICES ASSUME n + 1 < Len(t) + 1 - (i - 1)
                      PROVE  f[i + (n + 1)] = g[i - 1 + (n + 1)] + s[i].size
            OBVIOUS
        <3>1. /\ n < Len(t) + 1 - (i - 1)
              /\ i + (n + 1) \in 1 .. Len(s) /\ (i + (n + 1)) - 1 = i + n
              /\ i - 1 + (n + 1) = i + n /\ i + n \in 1 .. Len(t)
              /\ (i + n) - 1 = i - 1 + n /\ i + n >= i /\ (i + n) + 1 = i + (n + 1)
            BY <1>0
        <3>2. t[i + n] = s[i + (n + 1)]
            BY <3>1 DEF Without
        <3>3. PICK z \in Nat : z = t[i + n].size
            BY <3>1 DEF Sized
        <3>4. f[i + (n + 1)] = f[i + n] + z
            BY <1>1, <3>1, <3>2, <3>3, RunsSum
        <3>5. g[i + n] = g[i - 1 + n] + z
            BY ZenonT(40), <1>2, <3>1, <3>3, RunsSum
        <3>6. f[i + n] = g[i - 1 + n] + s[i].size
            BY <2>2, <3>1
        <3>7. i - 1 + n \in Nat
            BY <1>0
        <3>8. g[i - 1 + n] \in Nat
            BY <1>2, <3>7, RunsSum
        <3>. QED
            BY SMTT(40), <1>0, <3>1, <3>4, <3>5, <3>6, <3>8
    <2>. HIDE DEF High
    <2>. QED
        BY <2>1, <2>2, AllNat
<1>5. /\ Len(s) - i \in Nat /\ i + (Len(s) - i) = Len(s) /\ i - 1 + (Len(s) - i) = Len(t)
      /\ Len(s) - i < Len(t) + 1 - (i - 1)
    BY <1>0
<1>6. f[Len(s)] = g[Len(t)] + s[i].size
    BY <1>4, <1>5
<1>. QED
    BY <1>1, <1>2, <1>6, RunsSum

LEMMA Elements ==
    ASSUME NEW S, NEW s \in Seq(S)
    PROVE  Len(s) \in Nat /\ DOMAIN s = 1 .. Len(s) /\ \A n \in 1 .. Len(s) : s[n] \in S
BY LenProperties, ElementOfSeq

LEMMA Removed ==
    ASSUME NEW S, NEW s \in Seq(S), NEW i \in 1 .. Len(s)
    PROVE  RemoveAt(s, i) \in Seq(S) /\ Without(s, RemoveAt(s, i), i)
<1> DEFINE a == SubSeq(s, 1, i - 1)
           b == SubSeq(s, i + 1, Len(s))
<1>1. Len(s) \in Nat /\ i \in Nat /\ i > 0 /\ i <= Len(s) /\ \A n \in 1 .. Len(s) : s[n] \in S
    BY Elements
<1>2. a \in Seq(S) /\ Len(a) = i - 1 /\ \A n \in 1 .. i - 1 : a[n] = s[n]
    <2>1. \A n \in 1 .. i - 1 : s[n] \in S /\ 1 + n - 1 = n
        BY <1>1
    <2>2. 1 \in Int /\ i - 1 \in Int /\ (i - 1) - 1 + 1 = i - 1 /\ (~(1 <= i - 1) => i - 1 = 0)
        BY <1>1
    <2>3. /\ SubSeq(s, 1, i - 1) \in Seq(S)
          /\ Len(SubSeq(s, 1, i - 1)) = IF 1 <= i - 1 THEN (i - 1) - 1 + 1 ELSE 0
          /\ \A n \in 1 .. (i - 1) - 1 + 1 : SubSeq(s, 1, i - 1)[n] = s[1 + n - 1]
        BY SMTT(40), <2>1, <2>2, SubSeqProperties
    <2>. QED
        BY <2>1, <2>2, <2>3
<1>3. b \in Seq(S) /\ Len(b) = Len(s) - i /\ \A n \in 1 .. Len(s) - i : b[n] = s[i + n]
    <2>1. \A n \in i + 1 .. Len(s) : s[n] \in S
        BY <1>1
    <2>2. i + 1 \in Int /\ Len(s) - (i + 1) + 1 = Len(s) - i
        BY <1>1
    <2>3. /\ SubSeq(s, i + 1, Len(s)) \in Seq(S)
          /\ Len(SubSeq(s, i + 1, Len(s))) = IF i + 1 <= Len(s) THEN Len(s) - (i + 1) + 1 ELSE 0
          /\ \A n \in 1 .. Len(s) - (i + 1) + 1 : SubSeq(s, i + 1, Len(s))[n] = s[i + 1 + n - 1]
        BY <1>1, <2>1, <2>2, SubSeqProperties
    <2>4. \A n \in 1 .. Len(s) - i : i + 1 + n - 1 = i + n
        BY <1>1
    <2>5. ~(i + 1 <= Len(s)) => Len(s) - i = 0
        BY <1>1
    <2>. QED
        BY ZenonT(40), <2>2, <2>3, <2>4, <2>5
<1>4. RemoveAt(s, i) = a \o b
    BY DEF RemoveAt
<1>. HIDE DEF a, b
<1>5. /\ a \o b \in Seq(S)
      /\ Len(a \o b) = Len(a) + Len(b)
      /\ \A n \in 1 .. Len(a) + Len(b) :
            (a \o b)[n] = IF n <= Len(a) THEN a[n] ELSE b[n - Len(a)]
    BY <1>2, <1>3, ConcatProperties
<1>6. Len(a) + Len(b) = Len(s) - 1
    BY <1>1, <1>2, <1>3
<1>7. ASSUME NEW n \in 1 .. Len(s) - 1, n < i PROVE (a \o b)[n] = s[n]
    BY <1>1, <1>2, <1>5, <1>6, <1>7
<1>8. ASSUME NEW n \in 1 .. Len(s) - 1, n >= i PROVE (a \o b)[n] = s[n + 1]
    <2>1. n - (i - 1) \in 1 .. Len(s) - i /\ i + (n - (i - 1)) = n + 1 /\ ~(n <= i - 1)
        BY <1>1, <1>8
    <2>. QED
        <3>1. n - Len(a) = n - (i - 1) /\ ~(n <= Len(a)) /\ n \in 1 .. Len(a) + Len(b)
            BY <1>2, <1>6, <2>1
        <3>2. (a \o b)[n] = b[n - (i - 1)]
            BY <1>5, <3>1
        <3>3. b[n - (i - 1)] = s[i + (n - (i - 1))]
            BY <1>3, <2>1
        <3>. QED
            BY <2>1, <3>2, <3>3
<1>9. Len(a \o b) = Len(s) - 1 /\ Len(s) = (Len(s) - 1) + 1
    BY <1>1, <1>5, <1>6
<1>. QED
    BY <1>4, <1>5, <1>7, <1>8, <1>9 DEF Without

LEMMA PutIn ==
    ASSUME NEW S, NEW s \in Seq(S), NEW i \in 1 .. Len(s) + 1, NEW e \in S
    PROVE  /\ InsertAt(s, i, e) \in Seq(S)
           /\ Without(InsertAt(s, i, e), s, i)
           /\ InsertAt(s, i, e)[i] = e
<1> DEFINE a == SubSeq(s, 1, i - 1)
           b == SubSeq(s, i, Len(s))
<1>1. Len(s) \in Nat /\ i \in Nat /\ i > 0 /\ i <= Len(s) + 1 /\ \A n \in 1 .. Len(s) : s[n] \in S
    BY Elements
<1>2. a \in Seq(S) /\ Len(a) = i - 1 /\ \A n \in 1 .. i - 1 : a[n] = s[n]
    <2>1. \A n \in 1 .. i - 1 : s[n] \in S /\ 1 + n - 1 = n
        BY <1>1
    <2>2. 1 \in Int /\ i - 1 \in Int /\ (i - 1) - 1 + 1 = i - 1 /\ (~(1 <= i - 1) => i - 1 = 0)
        BY <1>1
    <2>3. /\ SubSeq(s, 1, i - 1) \in Seq(S)
          /\ Len(SubSeq(s, 1, i - 1)) = IF 1 <= i - 1 THEN (i - 1) - 1 + 1 ELSE 0
          /\ \A n \in 1 .. (i - 1) - 1 + 1 : SubSeq(s, 1, i - 1)[n] = s[1 + n - 1]
        BY <2>1, <2>2, SubSeqProperties
    <2>. QED
        BY <2>1, <2>2, <2>3
<1>3. b \in Seq(S) /\ Len(b) = Len(s) - i + 1 /\ \A n \in 1 .. Len(s) - i + 1 : b[n] = s[i + n - 1]
    <2>1. \A n \in i .. Len(s) : s[n] \in S
        BY <1>1
    <2>2. i \in Int /\ (~(i <= Len(s)) => Len(s) - i + 1 = 0)
        BY <1>1
    <2>3. /\ SubSeq(s, i, Len(s)) \in Seq(S)
          /\ Len(SubSeq(s, i, Len(s))) = IF i <= Len(s) THEN Len(s) - i + 1 ELSE 0
          /\ \A n \in 1 .. Len(s) - i + 1 : SubSeq(s, i, Len(s))[n] = s[i + n - 1]
        BY <1>1, <2>1, <2>2, SubSeqProperties
    <2>. QED
        BY <2>2, <2>3
<1> DEFINE c == a \o <<e>>
<1>4. InsertAt(s, i, e) = c \o b
    BY DEF InsertAt
<1>. HIDE DEF a, b
<1>5. c \in Seq(S) /\ Len(c) = i /\ c[i] = e /\ \A n \in 1 .. i - 1 : c[n] = s[n]
    <2>1. <<e>> \in Seq(S) /\ Len(<<e>>) = 1 /\ <<e>>[1] = e
        OBVIOUS
    <2>2. /\ a \o <<e>> \in Seq(S)
          /\ Len(a \o <<e>>) = Len(a) + Len(<<e>>)
          /\ \A n \in 1 .. Len(a) + Len(<<e>>) :
                (a \o <<e>>)[n] = IF n <= Len(a) THEN a[n] ELSE <<e>>[n - Len(a)]
        BY <1>2, <2>1, ConcatProperties
    <2>3. /\ Len(a) + Len(<<e>>) = i /\ i \in 1 .. i /\ ~(i <= Len(a)) /\ i - Len(a) = 1
          /\ \A n \in 1 .. i - 1 : n \in 1 .. i /\ n <= Len(a)
        BY <1>1, <1>2, <2>1
    <2>. QED
        BY <1>2, <2>1, <2>2, <2>3
<1>. HIDE DEF c
<1>6. /\ c \o b \in Seq(S)
      /\ Len(c \o b) = Len(c) + Len(b)
      /\ \A n \in 1 .. Len(c) + Len(b) :
            (c \o b)[n] = IF n <= Len(c) THEN c[n] ELSE b[n - Len(c)]
    BY <1>3, <1>5, ConcatProperties
<1>7. Len(c) + Len(b) = Len(s) + 1
    BY <1>1, <1>3, <1>5
<1>8. \A n \in 1 .. Len(s) : n < i => s[n] = (c \o b)[n]
    BY <1>1, <1>5, <1>6, <1>7
<1>9. ASSUME NEW n \in 1 .. Len(s), n >= i PROVE s[n] = (c \o b)[n + 1]
    <2>1. /\ n + 1 \in 1 .. Len(s) + 1 /\ ~(n + 1 <= i) /\ (n + 1) - i \in 1 .. Len(s) - i + 1
          /\ i + ((n + 1) - i) - 1 = n
        BY <1>1, <1>9
    <2>. QED
        BY <1>3, <1>5, <1>6, <1>7, <2>1
<1>10. (c \o b)[i] = e
    BY <1>1, <1>5, <1>6, <1>7
<1>. QED
    BY <1>4, <1>6, <1>7, <1>8, <1>9, <1>10 DEF Without
-----------------------------------------------------------------------------
(* A page that is laid out: free_size is exact, the slots end before the   *)
(* bottom begins, in which all lie and no two overlap.                     *)
Block == [at : Int, size : BlockHeader + 1 .. MaxBlock, ov : 0 .. MaxOv]
Hole  == [at : Int, size : Nat \ {0}]
Page  == [slots : Seq(Block), free : Seq(Hole), freeSize : Nat, bottom : Nat,
          next : Nat, prev : Nat]

Within(b, low) == b.at >= low /\ b.at + b.size <= PageSize

Packed(s, f, low) ==
    /\ \A i \in 1 .. Len(s) : Within(s[i], low)
    /\ \A i \in 1 .. Len(f) : Within(f[i], low)
    /\ \A i, j \in 1 .. Len(s) : i # j => Apart(s[i], s[j])
    /\ \A i, j \in 1 .. Len(f) : i # j => Apart(f[i], f[j])
    /\ \A i \in 1 .. Len(s), j \in 1 .. Len(f) : Apart(s[i], f[j])

Exact(p) == p.freeSize + SizesOf(p.slots) + SlotSize * Len(p.slots) + HeaderSize = PageSize

PageOK(p) ==
    /\ p \in Page
    /\ Exact(p)
    /\ p.bottom + SlotSize * Len(p.slots) + HeaderSize <= PageSize
    /\ Packed(p.slots, p.free, PageSize - p.bottom)

(* The numbers: a quarter of a page less its header takes a block and its  *)
(* slot.                                                                   *)
LEMMA Numbers ==
    /\ PageSize \in Nat /\ MaxOv \in Nat /\ MaxPage \in Nat /\ FreeMin \in Nat \ {0}
    /\ MaxBlock \in Nat /\ MaxBlock >= 9 /\ 4 * MaxBlock + 20 <= PageSize
    /\ PageSize >= 56 /\ Keep \in 9 .. MaxBlock
    /\ FreeMax \in Nat /\ 4 * FreeMax <= 3 * PageSize /\ 4 * FreeMax + 9 >= 3 * PageSize
    /\ HeaderSize = 20 /\ SlotSize = 2 /\ BlockHeader = 8 /\ MinNum = 4
<1>1. /\ PageSize \in Nat /\ MaxOv \in Nat /\ MaxPage \in Nat /\ FreeMin \in Nat \ {0}
      /\ Keep \in 9 .. MaxBlock
    BY VariantAssumption DEF VariantAssumption, BlockHeader
<1>2. MaxBlock = (PageSize - 12) \div 4 - 2
    BY DEF MaxBlock, MinNum
<1>3. /\ MaxBlock \in Int /\ 4 * MaxBlock + 20 <= PageSize /\ MaxBlock >= 9
    BY <1>1, <1>2
<1>4. /\ FreeMax \in Nat /\ 4 * FreeMax <= 3 * PageSize /\ 4 * FreeMax + 9 >= 3 * PageSize
    BY <1>1 DEF FreeMax
<1>. QED
    BY <1>1, <1>3, <1>4 DEF HeaderSize, SlotSize, BlockHeader, MinNum

LEMMA Blocks9 ==
    ASSUME NEW s \in Seq(Block)
    PROVE  /\ Len(s) \in Nat
           /\ \A n \in 1 .. Len(s) : /\ s[n] \in Block /\ s[n].at \in Int
                                     /\ s[n].size \in Nat /\ s[n].size >= 9
                                     /\ s[n].size <= MaxBlock
           /\ Sized(s)
<1>1. Len(s) \in Nat /\ \A n \in 1 .. Len(s) : s[n] \in Block
    BY Elements
<1>2. \A b \in Block : b.at \in Int /\ b.size \in Nat /\ b.size >= 9 /\ b.size <= MaxBlock
    BY Numbers DEF Block
<1>3. \A n \in 1 .. Len(s) : /\ s[n] \in Block /\ s[n].at \in Int
                             /\ s[n].size \in Nat /\ s[n].size >= 9
                             /\ s[n].size <= MaxBlock
    BY <1>1, <1>2
<1>. QED
    BY <1>1, <1>3 DEF Sized

LEMMA Holes ==
    ASSUME NEW f \in Seq(Hole)
    PROVE  /\ Len(f) \in Nat
           /\ \A n \in 1 .. Len(f) : /\ f[n] \in Hole /\ f[n].at \in Int
                                     /\ f[n].size \in Nat /\ f[n].size > 0
<1>1. Len(f) \in Nat /\ \A n \in 1 .. Len(f) : f[n] \in Hole
    BY Elements
<1>2. \A b \in Hole : b.at \in Int /\ b.size \in Nat /\ b.size > 0
    BY DEF Hole
<1>. QED
    BY <1>1, <1>2

(* Taking a block out, and putting one in. *)
LEMMA PackedOut ==
    ASSUME NEW s, NEW f, NEW low, Packed(s, f, low), Len(s) \in Nat,
           NEW t, NEW i \in 1 .. Len(s), Without(s, t, i), Len(t) \in Nat
    PROVE  /\ Packed(t, f, low)
           /\ Within(s[i], low)
           /\ \A n \in 1 .. Len(t) : Apart(s[i], t[n]) /\ Apart(t[n], s[i])
           /\ \A n \in 1 .. Len(f) : Apart(s[i], f[n])
<1> DEFINE from(n) == IF n < i THEN n ELSE n + 1
<1>1. \A n \in 1 .. Len(t) : from(n) \in 1 .. Len(s) /\ from(n) # i /\ t[n] = s[from(n)]
    BY DEF Without
<1>2. \A n, m \in 1 .. Len(t) : n # m => from(n) # from(m)
    OBVIOUS
<1>. HIDE DEF from
<1>. QED
    BY <1>1, <1>2 DEF Packed

LEMMA PackedIn ==
    ASSUME NEW s, NEW f, NEW low, Packed(s, f, low), Len(s) \in Nat,
           NEW t, NEW i \in 1 .. Len(t), Without(t, s, i), Len(t) \in Nat,
           Within(t[i], low),
           \A n \in 1 .. Len(s) : Apart(t[i], s[n]) /\ Apart(s[n], t[i]),
           \A n \in 1 .. Len(f) : Apart(t[i], f[n])
    PROVE  Packed(t, f, low)
<1> DEFINE to(n) == IF n < i THEN n ELSE n - 1
<1>1. \A n \in 1 .. Len(t) : n # i => to(n) \in 1 .. Len(s) /\ t[n] = s[to(n)]
    <2>1. ASSUME NEW n \in 1 .. Len(t), n < i PROVE n \in 1 .. Len(s) /\ t[n] = s[n]
        BY <2>1 DEF Without
    <2>2. ASSUME NEW n \in 1 .. Len(t), n > i PROVE n - 1 \in 1 .. Len(s) /\ t[n] = s[n - 1]
        <3>1. n - 1 \in 1 .. Len(s) /\ n - 1 >= i /\ (n - 1) + 1 = n
            BY <2>2 DEF Without
        <3>. QED
            BY <3>1 DEF Without
    <2>3. \A n \in 1 .. Len(t) : n # i => n < i \/ (n > i /\ ~(n < i))
        OBVIOUS
    <2>. QED
        BY <2>1, <2>2, <2>3
<1>2. \A n, m \in 1 .. Len(t) : n # m /\ n # i /\ m # i => to(n) # to(m)
    OBVIOUS
<1>. HIDE DEF to
<1>. QED
    BY <1>1, <1>2 DEF Packed
-----------------------------------------------------------------------------
LEMMA ApartAnyway ==
    ASSUME NEW b, NEW c, b.at \in Int, c.at \in Int, b.size \in Nat, c.size \in Nat
    PROVE  Apart(b, c) <=> Apart(c, b)
BY DEF Apart

(* Of two blocks apart, neither of them empty, one begins before the other. *)
LEMMA ApartOrder ==
    ASSUME NEW b, NEW c, b.at \in Int, c.at \in Int, b.size \in Nat, c.size \in Nat,
           b.size >= 9, c.size >= 9, Apart(b, c)
    PROVE  b.at < c.at \/ c.at < b.at
<1>1. PICK x \in Int, y \in Int, m \in Nat, n \in Nat :
         x = b.at /\ y = c.at /\ m = b.size /\ n = c.size
    OBVIOUS
<1>2. x + m <= y \/ y + n <= x
    BY <1>1 DEF Apart
<1>3. m >= 9 /\ n >= 9
    BY <1>1
<1>4. x < y \/ y < x
    BY <1>2, <1>3
<1>. QED
    BY <1>1, <1>4

(* Blocks that lie so many bytes from the end of the page.                 *)
LEMMA ApartFromEnd ==
    ASSUME NEW b, NEW c, NEW x \in Nat, NEW y \in Nat,
           b.at = PageSize - x, c.at = PageSize - y,
           b.size \in Nat, c.size \in Nat, y + b.size <= x
    PROVE  Apart(b, c) /\ Apart(c, b)
BY Numbers DEF Apart

LEMMA WithinFromEnd ==
    ASSUME NEW b, NEW x \in Nat, NEW low \in Nat,
           b.at = PageSize - x, b.size \in Nat, b.size <= x, x <= low
    PROVE  Within(b, PageSize - low)
BY Numbers DEF Within

(* Packing moves the blocks together and drops the free list. *)
LEMMA DefragmentKeeps ==
    ASSUME NEW p, PageOK(p)
    PROVE  /\ PageOK(Defragment(p))
           /\ Defragment(p).free = <<>>
           /\ Len(Defragment(p).slots) = Len(p.slots)
           /\ SizesOf(Defragment(p).slots) = SizesOf(p.slots)
           /\ Defragment(p).bottom = SizesOf(p.slots)
           /\ Defragment(p).freeSize = p.freeSize
           /\ Defragment(p).next = p.next /\ Defragment(p).prev = p.prev
           /\ \A n \in 1 .. Len(p.slots) : Defragment(p).slots[n].size = p.slots[n].size
<1> DEFINE s == p.slots
           t == [i \in 1 .. Len(s) |->
                    [s[i] EXCEPT !.at = PageSize - SizesFrom(s, s[i].at)]]
           d == Defragment(p)
<1>1. /\ p \in Page /\ Exact(p) /\ s \in Seq(Block)
      /\ p.freeSize \in Nat /\ p.next \in Nat /\ p.prev \in Nat
      /\ Packed(s, p.free, PageSize - p.bottom)
    BY DEF PageOK, Page
<1>2. DOMAIN s = 1 .. Len(s)
    BY <1>1, Elements
<1>3. d = [p EXCEPT !.slots = t, !.free = <<>>, !.bottom = SizesOf(s)]
    BY <1>2 DEF Defragment
<1>4. /\ d.slots = t /\ d.free = <<>> /\ d.bottom = SizesOf(s)
      /\ d.freeSize = p.freeSize /\ d.next = p.next /\ d.prev = p.prev
    BY <1>1, <1>3 DEF Page
<1>5. /\ Len(s) \in Nat /\ Sized(s)
      /\ \A n \in 1 .. Len(s) : /\ s[n] \in Block /\ s[n].at \in Int
                                /\ s[n].size \in Nat /\ s[n].size >= 9
    BY <1>1, Blocks9
<1>6. /\ SizesOf(s) \in Nat
      /\ \A j \in 1 .. Len(s) :
            /\ SizesFrom(s, s[j].at) \in Nat
            /\ SizesFrom(s, s[j].at) <= SizesOf(s)
            /\ s[j].size <= SizesFrom(s, s[j].at)
      /\ \A i, j \in 1 .. Len(s) :
            s[i].at < s[j].at => SizesFrom(s, s[j].at) + s[i].size <= SizesFrom(s, s[i].at)
    BY <1>5, FromBlocks
<1>7. \A n \in 1 .. Len(s) :
         /\ t[n] \in Block /\ t[n].size = s[n].size
         /\ t[n].at = PageSize - SizesFrom(s, s[n].at)
    <2>1. ASSUME NEW n \in 1 .. Len(s)
          PROVE  /\ t[n] \in Block /\ t[n].size = s[n].size
                 /\ t[n].at = PageSize - SizesFrom(s, s[n].at)
        <3>1. PICK x \in Int : x = PageSize - SizesFrom(s, s[n].at)
            BY <1>6, Numbers
        <3>2. t[n] = [s[n] EXCEPT !.at = x]
            BY <3>1
        <3>3. PICK b \in Block : b = s[n]
            BY <1>5
        <3>4. t[n] = [b EXCEPT !.at = x]
            BY <3>2, <3>3
        <3>5. t[n] \in Block /\ t[n].size = b.size /\ t[n].at = x
            <4>. HIDE DEF t
            <4>. QED
                BY <3>4 DEF Block
        <3>. QED
            BY <3>1, <3>3, <3>5
    <2>. HIDE DEF t
    <2>. QED
        BY <2>1
<1>8. t \in Seq(Block) /\ Len(t) = Len(s)
    <2>1. t \in [1 .. Len(s) -> Block]
        BY <1>7
    <2>. HIDE DEF t
    <2>. QED
        BY SMTT(40), <1>5, <2>1, IsASeq
<1>. HIDE DEF t
<1>9. Sized(t)
    BY <1>8, Blocks9
<1>10. SizesOf(t) = SizesOf(s)
    BY <1>5, <1>7, <1>8, <1>9, SameSizes
<1>11. <<>> \in Seq(Hole) /\ Len(<<>>) = 0
    OBVIOUS
<1>12. d \in Page
    BY <1>1, <1>3, <1>6, <1>8, <1>11 DEF Page
<1>13. Packed(t, <<>>, PageSize - SizesOf(s))
    <2>1. \A i \in 1 .. Len(t) : Within(t[i], PageSize - SizesOf(s))
        <3>1. ASSUME NEW i \in 1 .. Len(s) PROVE Within(t[i], PageSize - SizesOf(s))
            <4>1. PICK x \in Nat : x = SizesFrom(s, s[i].at)
                BY <1>6
            <4>2. t[i].at = PageSize - x /\ t[i].size \in Nat /\ t[i].size <= x /\ x <= SizesOf(s)
                BY <1>5, <1>6, <1>7, <4>1
            <4>. QED
                BY <1>6, <4>2, WithinFromEnd
        <3>. QED
            BY <1>8, <3>1
    <2>2. ASSUME NEW i \in 1 .. Len(t), NEW j \in 1 .. Len(t), i # j
          PROVE  Apart(t[i], t[j])
        <3>1. i \in 1 .. Len(s) /\ j \in 1 .. Len(s)
            BY <1>8
        <3>2. Apart(s[i], s[j])
            BY <1>1, <2>2, <3>1 DEF Packed
        <3>3. s[i].at < s[j].at \/ s[j].at < s[i].at
            <4>1. /\ s[i].at \in Int /\ s[j].at \in Int /\ s[i].size \in Nat /\ s[j].size \in Nat
                  /\ s[i].size >= 9 /\ s[j].size >= 9
                BY <1>5, <3>1
            <4>2. PICK b, c : b = s[i] /\ c = s[j]
                OBVIOUS
            <4>3. /\ b.at \in Int /\ c.at \in Int /\ b.size \in Nat /\ c.size \in Nat
                  /\ b.size >= 9 /\ c.size >= 9 /\ Apart(b, c)
                BY <3>2, <4>1, <4>2
            <4>4. b.at < c.at \/ c.at < b.at
                BY <4>3, ApartOrder
            <4>. QED
                BY <4>2, <4>4
        <3>4. CASE s[i].at < s[j].at
            <4>1. SizesFrom(s, s[j].at) + s[i].size <= SizesFrom(s, s[i].at)
                BY <1>6, <3>1, <3>4
            <4>2. PICK x \in Nat, y \in Nat :
                     x = SizesFrom(s, s[i].at) /\ y = SizesFrom(s, s[j].at)
                BY <1>6, <3>1
            <4>3. /\ t[i].at = PageSize - x /\ t[j].at = PageSize - y
                  /\ t[i].size \in Nat /\ t[j].size \in Nat
                  /\ y + t[i].size <= x
                BY <1>5, <1>7, <3>1, <4>1, <4>2
            <4>. QED
                BY <4>3, ApartFromEnd
        <3>5. CASE s[j].at < s[i].at
            <4>1. SizesFrom(s, s[i].at) + s[j].size <= SizesFrom(s, s[j].at)
                BY <1>6, <3>1, <3>5
            <4>2. PICK x \in Nat, y \in Nat :
                     x = SizesFrom(s, s[j].at) /\ y = SizesFrom(s, s[i].at)
                BY <1>6, <3>1
            <4>3. /\ t[j].at = PageSize - x /\ t[i].at = PageSize - y
                  /\ t[j].size \in Nat /\ t[i].size \in Nat
                  /\ y + t[j].size <= x
                BY <1>5, <1>7, <3>1, <4>1, <4>2
            <4>. QED
                BY <4>3, ApartFromEnd
        <3>. QED
            BY <3>3, <3>4, <3>5
    <2>. QED
        BY <1>11, <2>1, <2>2 DEF Packed
<1>14. Exact(d)
    BY <1>1, <1>4, <1>8, <1>10 DEF Exact
<1>15. SizesOf(s) + SlotSize * Len(t) + HeaderSize <= PageSize
    <2>1. PICK n \in Nat, z \in Nat, k \in Nat :
             n = Len(s) /\ z = SizesOf(s) /\ k = p.freeSize
        BY <1>1, <1>5, <1>6
    <2>2. k + z + 2 * n + 20 = PageSize
        BY <1>1, <2>1, Numbers DEF Exact
    <2>3. z + 2 * n + 20 <= PageSize
        BY <2>2, Numbers
    <2>. QED
        BY <1>8, <2>1, <2>3, Numbers
<1>. QED
    BY <1>4, <1>7, <1>8, <1>10, <1>12, <1>13, <1>14, <1>15 DEF PageOK

(* A piece of a piece. *)
LEMMA ApartPart ==
    ASSUME NEW b, NEW c, NEW d, b.at \in Int, c.at \in Int, d.at \in Int,
           b.size \in Nat, c.size \in Nat, d.size \in Nat,
           d.at >= b.at, d.at + d.size <= b.at + b.size, Apart(b, c)
    PROVE  Apart(d, c) /\ Apart(c, d)
BY DEF Apart

LEMMA WithinPart ==
    ASSUME NEW b, NEW d, NEW low, b.at \in Int, d.at \in Int, low \in Int,
           b.size \in Nat, d.size \in Nat,
           d.at >= b.at, d.at + d.size <= b.at + b.size, Within(b, low)
    PROVE  Within(d, low)
<1>1. PICK m \in Nat : m = PageSize
    BY Numbers
<1>2. b.at >= low /\ b.at + b.size <= m
    BY <1>1 DEF Within
<1>3. d.at >= low /\ d.at + d.size <= m
    BY <1>2
<1>. QED
    BY <1>1, <1>3 DEF Within

(* What the head of the free list gives away is apart from the rest.       *)
LEMMA HeadCut ==
    ASSUME NEW s \in Seq(Block), NEW f \in Seq(Hole), NEW low, Packed(s, f, low), low \in Int,
           f # <<>>, NEW sz \in Nat \ {0}, sz <= Head(f).size,
           NEW b, b.at = Head(f).at, b.size = sz
    PROVE  /\ RestOfHead(Head(f), sz) \o Tail(f) \in Seq(Hole)
           /\ Packed(s, RestOfHead(Head(f), sz) \o Tail(f), low)
           /\ Within(b, low)
           /\ \A n \in 1 .. Len(s) : Apart(b, s[n]) /\ Apart(s[n], b)
           /\ \A n \in 1 .. Len(RestOfHead(Head(f), sz) \o Tail(f)) :
                 Apart(b, (RestOfHead(Head(f), sz) \o Tail(f))[n])
<1> DEFINE h == Head(f)
           r == [at |-> h.at + sz, size |-> h.size - sz]
           g == RestOfHead(h, sz) \o Tail(f)
<1>1. /\ Len(f) \in Nat /\ Len(s) \in Nat
      /\ \A n \in 1 .. Len(f) : f[n] \in Hole /\ f[n].at \in Int /\ f[n].size \in Nat
      /\ \A n \in 1 .. Len(s) : s[n].at \in Int /\ s[n].size \in Nat
    BY Blocks9, Holes
<1>2. /\ h \in Hole /\ Tail(f) \in Seq(Hole) /\ Len(Tail(f)) = Len(f) - 1
      /\ \A n \in 1 .. Len(Tail(f)) : Tail(f)[n] = f[n + 1]
      /\ h = f[1] /\ 1 \in 1 .. Len(f) /\ Len(f) > 0
    <2>1. Len(f) # 0
        BY EmptySeq
    <2>2. h = f[1]
        BY Elements
    <2>. QED
        BY <1>1, <2>1, <2>2, HeadTailProperties
<1>3. h.at \in Int /\ h.size \in Nat /\ sz \in Nat /\ sz > 0
    BY <1>1, <1>2
<1> DEFINE from(n) == IF Len(g) = Len(f) THEN n ELSE n + 1
<1>4. /\ g \in Seq(Hole) /\ Len(g) \in Nat
      /\ \A n \in 1 .. Len(g) :
            /\ g[n].at \in Int /\ g[n].size \in Nat
            /\ from(n) \in 1 .. Len(f)
            /\ g[n].at >= f[from(n)].at /\ g[n].at + g[n].size <= f[from(n)].at + f[from(n)].size
            /\ from(n) = 1 => g[n].at >= h.at + sz
    <2>1. CASE h.size - sz < FreeMin
        <3>1. g = Tail(f)
            BY <1>2, <2>1, ConcatEmptySeq DEF RestOfHead
        <3>2. \A n \in 1 .. Len(f) - 1 : n + 1 \in 1 .. Len(f) /\ n + 1 # 1
            BY <1>1
        <3>3. Len(g) = Len(f) - 1 /\ Len(g) # Len(f) /\ Len(g) \in Nat
            <4>1. Len(g) = Len(Tail(f))
                BY <3>1
            <4>2. PICK l \in Nat : l = Len(f) /\ l > 0
                BY <1>1, <1>2
            <4>3. Len(Tail(f)) = l - 1
                BY SMTT(40), <1>2, <4>2
            <4>. HIDE DEF g
            <4>. QED
                BY <4>1, <4>2, <4>3
        <3>4. \A n \in 1 .. Len(g) : g[n] = f[n + 1]
            BY ZenonT(40), <1>2, <3>1
        <3>5. g \in Seq(Hole)
            BY ZenonT(40), <1>2, <3>1
        <3>. HIDE DEF g
        <3>6. \A n \in 1 .. Len(g) : from(n) = n + 1
            BY <3>3
        <3>. HIDE DEF from
        <3>7. ASSUME NEW n \in 1 .. Len(g)
              PROVE  /\ g[n].at \in Int /\ g[n].size \in Nat
                     /\ n + 1 \in 1 .. Len(f) /\ n + 1 # 1
                     /\ g[n].at >= f[n + 1].at
                     /\ g[n].at + g[n].size <= f[n + 1].at + f[n + 1].size
            <4>1. n + 1 \in 1 .. Len(f) /\ n + 1 # 1 /\ g[n] = f[n + 1]
                BY <3>2, <3>3, <3>4
            <4>2. PICK x \in Int, y \in Nat : x = f[n + 1].at /\ y = f[n + 1].size
                BY <1>1, <4>1
            <4>. QED
                BY SMTT(40), <4>1, <4>2
        <3>. QED
            BY <3>3, <3>5, <3>6, <3>7
    <2>2. CASE ~(h.size - sz < FreeMin)
        <3>1. g = <<r>> \o Tail(f)
            BY <2>2 DEF RestOfHead
        <3>2. r \in Hole /\ r.at = h.at + sz /\ r.size = h.size - sz
            BY SMTT(40), <1>3, <2>2, Numbers DEF Hole
        <3>. HIDE DEF r
        <3>3. <<r>> \in Seq(Hole) /\ Len(<<r>>) = 1 /\ <<r>>[1] = r
            BY <3>2
        <3>4. /\ <<r>> \o Tail(f) \in Seq(Hole)
              /\ Len(<<r>> \o Tail(f)) = Len(<<r>>) + Len(Tail(f))
              /\ \A n \in 1 .. Len(<<r>>) + Len(Tail(f)) :
                    (<<r>> \o Tail(f))[n] =
                        IF n <= Len(<<r>>) THEN <<r>>[n] ELSE Tail(f)[n - Len(<<r>>)]
            BY <1>2, <3>3, ConcatProperties
        <3>5. Len(<<r>>) + Len(Tail(f)) = Len(f)
            BY <1>1, <1>2, <3>3
        <3>6. g \in Seq(Hole) /\ Len(g) = Len(f)
            BY <3>1, <3>4, <3>5
        <3>7. g[1] = r
            BY <1>2, <3>1, <3>3, <3>4, <3>5
        <3>8. ASSUME NEW n \in 1 .. Len(f), n # 1 PROVE g[n] = f[n]
            <4>1. n - 1 \in 1 .. Len(Tail(f)) /\ (n - 1) + 1 = n /\ ~(n <= 1)
                BY <1>1, <1>2, <3>8
            <4>2. (<<r>> \o Tail(f))[n] = Tail(f)[n - 1]
                BY <3>3, <3>4, <3>5, <4>1
            <4>. QED
                BY <1>2, <3>1, <4>1, <4>2
        <3>. HIDE DEF g
        <3>9. \A n \in 1 .. Len(g) : from(n) = n
            BY <3>6
        <3>. HIDE DEF from
        <3>10. ASSUME NEW n \in 1 .. Len(g)
               PROVE  /\ g[n].at \in Int /\ g[n].size \in Nat
                      /\ n \in 1 .. Len(f)
                      /\ g[n].at >= f[n].at /\ g[n].at + g[n].size <= f[n].at + f[n].size
                      /\ n = 1 => g[n].at >= h.at + sz
            <4>1. CASE n = 1
                <5>1. r.at \in Int /\ r.size \in Nat /\ r.at >= h.at + sz /\ r.at >= h.at
                      /\ r.at + r.size <= h.at + h.size
                    <6>1. PICK x \in Int, y \in Nat, m \in Nat :
                             x = h.at /\ y = h.size /\ m = FreeMin
                        BY <1>3, Numbers
                    <6>2. r.at = x + sz /\ r.size = y - sz /\ ~(y - sz < m)
                        BY <2>2, <3>2, <6>1
                    <6>. HIDE DEF h, r
                    <6>3. y - sz \in Nat /\ x + sz \in Int /\ x + sz >= x
                        <7>1. PICK z \in Nat : z = sz
                            BY <1>3
                        <7>2. ~(y - z < m)
                            BY <6>2, <7>1
                        <7>3. y - z \in Nat /\ x + z \in Int /\ x + z >= x
                            BY <7>2
                        <7>. QED
                            BY <7>1, <7>3
                    <6>4. r.at \in Int /\ r.size \in Nat /\ r.at >= h.at + sz /\ r.at >= h.at
                        BY <1>3, <6>1, <6>2, <6>3
                    <6>5. r.at + r.size = x + y
                        BY SMTT(40), <1>3, <6>1, <6>2, <6>3
                    <6>. QED
                        BY SMTT(40), <6>1, <6>4, <6>5
                <5>. QED
                    BY <1>2, <3>7, <4>1, <5>1
            <4>2. CASE n # 1
                <5>1. n \in 1 .. Len(f) /\ g[n] = f[n]
                    BY <3>6, <3>8, <4>2
                <5>2. f[n].at \in Int /\ f[n].size \in Nat
                    BY <1>1, <5>1
                <5>. QED
                    BY <4>2, <5>1, <5>2
            <4>. QED
                BY <4>1, <4>2
        <3>. QED
            BY <1>1, <3>6, <3>9, <3>10
    <2>. QED
        BY <2>1, <2>2
<1>5. \A n, m \in 1 .. Len(g) : n # m => from(n) # from(m)
    <2>. HIDE DEF g
    <2>. QED
        OBVIOUS
<1>. HIDE DEF g, from
<1>6. b.at \in Int /\ b.size \in Nat /\ b.at >= h.at /\ b.at + b.size <= h.at + h.size
    BY <1>3
<1>7. Within(b, low) /\ \A n \in 1 .. Len(s) : Apart(b, s[n]) /\ Apart(s[n], b)
    <2>1. Within(h, low) /\ \A n \in 1 .. Len(s) : Apart(s[n], h)
        BY <1>2 DEF Packed
    <2>2. Within(b, low)
        BY SMTT(40), <1>3, <1>6, <2>1, Numbers DEF Within
    <2>3. \A n \in 1 .. Len(s) : Apart(h, s[n])
        BY <1>1, <1>3, <2>1, ApartAnyway
    <2>4. \A n \in 1 .. Len(s) : Apart(b, s[n]) /\ Apart(s[n], b)
        BY <1>1, <1>3, <1>6, <2>3, ApartPart
    <2>. QED
        BY <2>2, <2>4
<1>8. ASSUME NEW n \in 1 .. Len(g)
      PROVE  /\ Within(g[n], low) /\ Apart(b, g[n])
             /\ \A m \in 1 .. Len(s) : Apart(s[m], g[n])
             /\ \A m \in 1 .. Len(g) : n # m => Apart(g[n], g[m])
    <2>1. PICK k \in 1 .. Len(f) : k = from(n)
        BY <1>4
    <2>2. /\ g[n].at \in Int /\ g[n].size \in Nat
          /\ g[n].at >= f[k].at /\ g[n].at + g[n].size <= f[k].at + f[k].size
          /\ f[k].at \in Int /\ f[k].size \in Nat
        BY <1>1, <1>4, <2>1
    <2>3. Within(f[k], low) /\ \A m \in 1 .. Len(s) : Apart(s[m], f[k])
        BY DEF Packed
    <2>4. Within(g[n], low)
        BY <2>2, <2>3, WithinPart
    <2>5. ASSUME NEW m \in 1 .. Len(s) PROVE Apart(s[m], g[n])
        <3>1. Apart(f[k], s[m])
            BY <1>1, <2>2, <2>3, ApartAnyway
        <3>. QED
            BY <1>1, <2>2, <3>1, ApartPart
    <2>6. ASSUME NEW m \in 1 .. Len(g), n # m PROVE Apart(g[n], g[m])
        <3>1. PICK l \in 1 .. Len(f) : l = from(m)
            BY <1>4
        <3>2. k # l
            BY <1>5, <2>1, <2>6, <3>1
        <3>3. /\ g[m].at \in Int /\ g[m].size \in Nat
              /\ g[m].at >= f[l].at /\ g[m].at + g[m].size <= f[l].at + f[l].size
              /\ f[l].at \in Int /\ f[l].size \in Nat
            BY <1>1, <1>4, <3>1
        <3>4. Apart(f[k], f[l])
            BY <3>2 DEF Packed
        <3>5. Apart(f[l], g[n])
            BY <2>2, <3>3, <3>4, ApartPart
        <3>. QED
            BY <2>2, <3>3, <3>5, ApartPart
    <2>7. Apart(b, g[n])
        <3>1. CASE k = 1
            <4>1. g[n].at >= h.at + sz
                BY <1>4, <2>1, <3>1
            <4>. QED
                BY <1>3, <2>2, <4>1 DEF Apart
        <3>2. CASE k # 1
            <4>1. Apart(h, f[k])
                BY <1>2, <3>2 DEF Packed
            <4>2. Apart(f[k], b)
                BY <1>3, <1>6, <2>2, <4>1, ApartPart
            <4>. QED
                BY <1>6, <2>2, <4>2, ApartPart
        <3>. QED
            BY <3>1, <3>2
    <2>. QED
        BY <2>4, <2>5, <2>6, <2>7
<1>9. Packed(s, g, low)
    BY <1>8 DEF Packed
<1>. QED
    BY <1>4, <1>7, <1>8, <1>9 DEF g

(* allocate() finds a place apart from all else, and leaves one for a slot. *)
Room(p, sz) == PageOK(p) /\ sz \in 9 .. MaxBlock /\ Accepts(p, sz)

LEMMA AllocateFinds ==
    ASSUME NEW p, NEW sz, Room(p, sz), NEW b, b.at = Allocate(p, sz).at, b.size = sz
    PROVE  LET q == Allocate(p, sz).page IN
           /\ q \in Page /\ Allocate(p, sz).at \in Int
           /\ q.freeSize = p.freeSize - sz /\ q.next = p.next /\ q.prev = p.prev
           /\ Len(q.slots) = Len(p.slots) /\ SizesOf(q.slots) = SizesOf(p.slots)
           /\ q.bottom + SlotSize * (Len(q.slots) + 1) + HeaderSize <= PageSize
           /\ Packed(q.slots, q.free, PageSize - q.bottom)
           /\ Within(b, PageSize - q.bottom)
           /\ \A n \in 1 .. Len(q.slots) : Apart(b, q.slots[n]) /\ Apart(q.slots[n], b)
           /\ \A n \in 1 .. Len(q.free) : Apart(b, q.free[n])
<1>0. /\ PageOK(p) /\ sz \in Nat /\ sz > 0 /\ p.freeSize \in Nat /\ p.freeSize >= sz + 2
      /\ p \in Page /\ p.slots \in Seq(Block)
    <2>1. PageOK(p) /\ sz \in 9 .. MaxBlock /\ p.freeSize >= sz + SlotSize
        BY DEF Room, Accepts
    <2>2. p \in Page
        BY <2>1 DEF PageOK
    <2>3. p.freeSize \in Nat /\ p.slots \in Seq(Block)
        BY <2>2 DEF Page
    <2>4. sz \in Nat /\ sz > 0
        BY <2>1, Numbers
    <2>. QED
        BY <2>1, <2>2, <2>3, <2>4, Numbers
<1>1. PICK u : u = IF NeedsPacking(p, sz) THEN Defragment(p) ELSE p
    OBVIOUS
<1>2. /\ PageOK(u) /\ u.freeSize = p.freeSize /\ u.next = p.next /\ u.prev = p.prev
      /\ Len(u.slots) = Len(p.slots) /\ SizesOf(u.slots) = SizesOf(p.slots)
    BY <1>0, <1>1, DefragmentKeeps
<1>3. /\ u \in Page /\ u.slots \in Seq(Block) /\ u.free \in Seq(Hole)
      /\ u.freeSize \in Nat /\ u.bottom \in Nat /\ Len(u.slots) \in Nat
      /\ Packed(u.slots, u.free, PageSize - u.bottom)
      /\ SizesOf(u.slots) \in Nat
      /\ u.freeSize + SizesOf(u.slots) + 2 * Len(u.slots) + 20 = PageSize
      /\ u.bottom + 2 * Len(u.slots) + 20 <= PageSize
    BY <1>2, Blocks9, SumNat, Numbers DEF PageOK, Page, Exact
<1>n. PICK ps \in Nat, fs \in Nat, bs \in Nat, low \in Nat, len \in Nat :
         /\ ps = PageSize /\ fs = u.freeSize /\ bs = SizesOf(u.slots)
         /\ low = u.bottom /\ len = Len(u.slots)
    BY <1>3, Numbers
<1>m. fs + bs + 2 * len + 20 = ps /\ low + 2 * len + 20 <= ps /\ fs >= sz + 2
    BY <1>0, <1>2, <1>3, <1>n
<1>4. /\ u.bottom + 2 * (Len(u.slots) + 1) + 20 <= PageSize
      /\ ~HeadFits(u, sz) => u.bottom + sz + 2 * (Len(u.slots) + 1) + 20 <= PageSize
    <2>1. CASE NeedsPacking(p, sz)
        <3>1. u.bottom = SizesOf(u.slots)
            BY <1>0, <1>1, <1>2, <2>1, DefragmentKeeps
        <3>. QED
            <4>1. low = bs
                BY <1>n, <3>1
            <4>2. low + 2 * (len + 1) + 20 <= ps /\ low + sz + 2 * (len + 1) + 20 <= ps
                BY <1>0, <1>m, <4>1
            <4>. QED
                BY <1>n, <4>2
    <2>2. CASE ~NeedsPacking(p, sz)
        <3>1. u = p
            BY <1>1, <2>2
        <3>2. /\ ~(Unallocated(u) < 2)
              /\ ~HeadFits(u, sz) => ~(Unallocated(u) - 2 < sz)
            BY <2>2, <3>1, Numbers DEF NeedsPacking
        <3>3. Unallocated(u) = PageSize - (20 + 2 * Len(u.slots) + u.bottom)
            BY Numbers DEF Unallocated
        <3>. QED
            <4>1. Unallocated(u) = ps - (20 + 2 * len + low)
                BY <1>n, <3>3
            <4>2. PICK x \in Int : x = Unallocated(u) /\ x = ps - (20 + 2 * len + low)
                BY <4>1
            <4>3. low + 2 * (len + 1) + 20 <= ps
                BY <3>2, <4>2
            <4>4. ~HeadFits(u, sz) => low + sz + 2 * (len + 1) + 20 <= ps
                <5>1. ~(x - 2 < sz) => low + sz + 2 * (len + 1) + 20 <= ps
                    BY <1>0, <4>2
                <5>. QED
                    BY <3>2, <4>2, <5>1
            <4>. QED
                BY <1>n, <4>3, <4>4
    <2>. QED
        BY <2>1, <2>2
<1> DEFINE a == Allocate(p, sz)
           q == a.page
<1>5. CASE HeadFits(u, sz)
    <2> DEFINE g == RestOfHead(Head(u.free), sz) \o Tail(u.free)
    <2>1. a = [at |-> Head(u.free).at,
               page |-> [u EXCEPT !.free = g, !.freeSize = @ - sz]]
        BY <1>1, <1>5 DEF Allocate
    <2>. HIDE DEF g
    <2>2. a.at = Head(u.free).at /\ q = [u EXCEPT !.free = g, !.freeSize = @ - sz]
        BY <2>1
    <2>3. u.free # <<>> /\ sz <= Head(u.free).size
        <3>1. u.free # <<>> /\ Head(u.free).size >= sz
            BY <1>5 DEF HeadFits
        <3>2. Head(u.free) \in Hole
            BY <1>3, <3>1, HeadTailProperties
        <3>3. Head(u.free).size \in Nat
            BY <3>2 DEF Hole
        <3>. QED
            BY <1>0, <3>1, <3>3
    <2>4. Head(u.free).at \in Int
        <3>2. Head(u.free) \in Hole
            BY <1>3, <2>3, HeadTailProperties
        <3>. QED
            BY <3>2 DEF Hole
    <2>5. sz \in Nat \ {0} /\ PageSize - u.bottom \in Int
        BY SMTT(40), <1>0, <1>3, Numbers
    <2>6. /\ g \in Seq(Hole)
          /\ Packed(u.slots, g, PageSize - u.bottom)
          /\ Within(b, PageSize - u.bottom)
          /\ \A n \in 1 .. Len(u.slots) : Apart(b, u.slots[n]) /\ Apart(u.slots[n], b)
          /\ \A n \in 1 .. Len(g) : Apart(b, g[n])
        <3>1. b.at = Head(u.free).at
            BY <2>2
        <3>. QED
            BY <1>3, <2>3, <2>5, <3>1, HeadCut DEF g
    <2>7. u.freeSize - sz \in Nat
        BY SMTT(40), <1>0, <1>2, <1>3
    <2>8. /\ q \in Page /\ q.slots = u.slots /\ q.free = g /\ q.bottom = u.bottom
          /\ q.freeSize = u.freeSize - sz /\ q.next = u.next /\ q.prev = u.prev
        BY <1>3, <2>2, <2>6, <2>7 DEF Page
    <2>. HIDE DEF a
    <2>. QED
        BY <1>2, <1>4, <2>2, <2>4, <2>6, <2>8, Numbers DEF a
<1>6. CASE ~HeadFits(u, sz)
    <2>1. a = [at |-> PageSize - (u.bottom + sz),
               page |-> [u EXCEPT !.bottom = @ + sz, !.freeSize = @ - sz]]
        BY <1>1, <1>6 DEF Allocate
    <2>2. a.at = PageSize - (u.bottom + sz)
          /\ q = [u EXCEPT !.bottom = @ + sz, !.freeSize = @ - sz]
        BY <2>1
    <2>7. u.freeSize - sz \in Nat /\ u.bottom + sz \in Nat
        <3>1. fs - sz \in Nat /\ low + sz \in Nat
            BY <1>0, <1>m
        <3>. QED
            BY <1>n, <3>1
    <2>8. /\ q \in Page /\ q.slots = u.slots /\ q.free = u.free /\ q.bottom = u.bottom + sz
          /\ q.freeSize = u.freeSize - sz /\ q.next = u.next /\ q.prev = u.prev
        BY <1>3, <2>2, <2>7 DEF Page
    <2>3. b.at = PageSize - (u.bottom + sz) /\ b.size = sz
        BY <2>2
    <2>4. Within(b, PageSize - (u.bottom + sz))
        <3>1. low + sz \in Nat /\ sz <= low + sz
            BY SMTT(40), <1>0, <1>n
        <3>. QED
            <4>1. b.at = PageSize - (low + sz) /\ b.size \in Nat /\ b.size <= low + sz
                BY <1>0, <1>n, <2>3, <3>1
            <4>2. Within(b, PageSize - (low + sz))
                BY <3>1, <4>1, WithinFromEnd
            <4>. QED
                BY <1>n, <4>2
    <2>5. ASSUME NEW c, c.at \in Int, c.size \in Nat, Within(c, PageSize - u.bottom)
          PROVE  /\ Within(c, PageSize - (u.bottom + sz))
                 /\ Apart(b, c) /\ Apart(c, b)
        <3>1. PICK x \in Int, z \in Nat : x = c.at /\ z = c.size
            BY <2>5
        <3>2. x >= ps - low
            BY <1>n, <2>5, <3>1 DEF Within
        <3>3. /\ x >= ps - (low + sz) /\ ps - (low + sz) + sz <= x
            BY <1>0, <3>2
        <3>4. b.at = ps - (low + sz) /\ b.size = sz
            BY <1>n, <2>3
        <3>5. Within(c, PageSize - (u.bottom + sz))
            BY <1>n, <2>5, <3>1, <3>3 DEF Within
        <3>. QED
            BY <3>1, <3>3, <3>4, <3>5 DEF Apart
    <2>6. /\ \A n \in 1 .. Len(u.slots) : /\ u.slots[n].at \in Int /\ u.slots[n].size \in Nat
                                          /\ Within(u.slots[n], PageSize - u.bottom)
          /\ \A n \in 1 .. Len(u.free) : /\ u.free[n].at \in Int /\ u.free[n].size \in Nat
                                         /\ Within(u.free[n], PageSize - u.bottom)
        BY <1>3, Blocks9, Holes DEF Packed
    <2>9. Packed(u.slots, u.free, PageSize - (u.bottom + sz))
        BY <1>3, <2>5, <2>6 DEF Packed
    <2>10. q.bottom + SlotSize * (Len(q.slots) + 1) + HeaderSize <= PageSize
        BY <1>0, <1>3, <1>4, <1>6, <2>8, Numbers
    <2>11. a.at \in Int
        <3>1. ps - (low + sz) \in Int
            BY <1>0
        <3>. QED
            BY <1>n, <2>2, <3>1
    <2>. HIDE DEF a
    <2>. QED
        BY <1>2, <2>4, <2>5, <2>6, <2>8, <2>9, <2>10, <2>11 DEF a
<1>. QED
    BY <1>5, <1>6
(* insert() *)
LEMMA InsertedKeeps ==
    ASSUME NEW p, NEW block, Room(p, block.size), block.ov \in 0 .. MaxOv,
           NEW pos \in 1 .. Len(p.slots) + 1
    PROVE  LET q == Inserted(p, pos, block) IN
           /\ PageOK(q) /\ q.next = p.next /\ q.prev = p.prev
           /\ Len(q.slots) = Len(p.slots) + 1
           /\ Without(q.slots, Allocate(p, block.size).page.slots, pos)
           /\ q.slots[pos].size = block.size /\ q.slots[pos].ov = block.ov
<1> DEFINE a == Allocate(p, block.size)
           b == [at |-> a.at, size |-> block.size, ov |-> block.ov]
           u == a.page
           q == Inserted(p, pos, block)
<1>0. /\ p.slots \in Seq(Block) /\ Len(p.slots) \in Nat /\ p.freeSize \in Nat
      /\ block.size \in 9 .. MaxBlock /\ p.freeSize >= block.size + 2
      /\ SizesOf(p.slots) \in Nat
      /\ p.freeSize + SizesOf(p.slots) + 2 * Len(p.slots) + 20 = PageSize
    BY Blocks9, SumNat, Numbers DEF Room, Accepts, PageOK, Page, Exact
<1>1. b.at = a.at /\ b.size = block.size /\ b.ov = block.ov
    OBVIOUS
<1>. HIDE DEF b
<1>2. /\ u \in Page /\ a.at \in Int
      /\ u.freeSize = p.freeSize - block.size /\ u.next = p.next /\ u.prev = p.prev
      /\ Len(u.slots) = Len(p.slots) /\ SizesOf(u.slots) = SizesOf(p.slots)
      /\ u.bottom + SlotSize * (Len(u.slots) + 1) + HeaderSize <= PageSize
      /\ Packed(u.slots, u.free, PageSize - u.bottom)
      /\ Within(b, PageSize - u.bottom)
      /\ \A n \in 1 .. Len(u.slots) : Apart(b, u.slots[n]) /\ Apart(u.slots[n], b)
      /\ \A n \in 1 .. Len(u.free) : Apart(b, u.free[n])
    BY <1>1, AllocateFinds
<1>3. b \in Block
    BY <1>0, <1>1, <1>2, Numbers DEF Block, b
<1> DEFINE t == InsertAt(u.slots, pos, b)
<1>4. q = [u EXCEPT !.slots = t, !.freeSize = @ - SlotSize]
    BY DEF Inserted, b
<1>. HIDE DEF a
<1>5. u.slots \in Seq(Block) /\ u.free \in Seq(Hole) /\ pos \in 1 .. Len(u.slots) + 1
    BY <1>2 DEF Page
<1>6. t \in Seq(Block) /\ Without(t, u.slots, pos) /\ t[pos] = b
    BY <1>3, <1>5, PutIn
<1>. HIDE DEF t
<1>7. u.freeSize - SlotSize \in Nat
    <2>1. PICK fs \in Nat, z \in Nat : fs = p.freeSize /\ z = block.size /\ fs >= z + 2
        BY SMTT(40), <1>0
    <2>. QED
        BY SMTT(40), <1>2, <2>1, Numbers
<1>8. /\ q \in Page /\ q.slots = t /\ q.free = u.free /\ q.freeSize = u.freeSize - SlotSize
      /\ q.bottom = u.bottom /\ q.next = u.next /\ q.prev = u.prev
    BY <1>2, <1>4, <1>6, <1>7 DEF Page
<1>. HIDE DEF q
<1>9. /\ Len(t) \in Nat /\ Len(u.slots) \in Nat /\ Sized(t) /\ Sized(u.slots)
      /\ Len(t) = Len(u.slots) + 1 /\ pos \in 1 .. Len(t)
    BY <1>5, <1>6, Blocks9 DEF Without
<1>10. Packed(t, u.free, PageSize - u.bottom)
    BY <1>2, <1>5, <1>6, <1>9, PackedIn
<1>11. SizesOf(t) = SizesOf(u.slots) + block.size
    BY <1>1, <1>6, <1>9, SumWithout
<1>12. Exact(q)
    <2>1. PICK fs \in Nat, z \in Nat, ss \in Nat, len \in Nat, ps \in Nat :
             /\ fs = p.freeSize /\ z = block.size /\ ss = SizesOf(p.slots)
             /\ len = Len(p.slots) /\ ps = PageSize
        <3>1. block.size \in Nat
            BY SMTT(40), <1>0, Numbers
        <3>. QED
            BY <1>0, <3>1, Numbers
    <2>4. fs >= z + 2 /\ fs + ss + 2 * len + 20 = ps
        BY <1>0, <2>1
    <2>2. /\ q.freeSize = fs - z - 2 /\ SizesOf(q.slots) = ss + z /\ Len(q.slots) = len + 1
        BY <1>2, <1>8, <1>9, <1>11, <2>1, Numbers
    <2>3. (fs - z - 2) + (ss + z) + 2 * (len + 1) + 20 = ps
        BY <2>4
    <2>. QED
        BY <2>1, <2>2, <2>3, Numbers DEF Exact
<1>13. q.bottom + SlotSize * Len(q.slots) + HeaderSize <= PageSize
    BY <1>2, <1>8, <1>9
<1>14. PageOK(q)
    BY <1>8, <1>10, <1>12, <1>13 DEF PageOK
<1>. QED
    BY <1>1, <1>2, <1>6, <1>8, <1>9, <1>14 DEF a, q

(* set_freeblock() and erase() *)
LEMMA ErasedKeeps ==
    ASSUME NEW p, PageOK(p), NEW pos \in 1 .. Len(p.slots)
    PROVE  LET q == Erased(p, pos) IN
           /\ PageOK(q) /\ q.next = p.next /\ q.prev = p.prev
           /\ q.slots = RemoveAt(p.slots, pos)
           /\ Without(p.slots, q.slots, pos)
<1> DEFINE b == p.slots[pos]
           s == p.slots
           t == RemoveAt(s, pos)
           u == [p EXCEPT !.slots = t, !.freeSize = @ + SlotSize + b.size]
           q == Erased(p, pos)
<1>0. /\ p \in Page /\ s \in Seq(Block) /\ p.free \in Seq(Hole) /\ Len(s) \in Nat
      /\ Sized(s) /\ p.freeSize \in Nat /\ p.bottom \in Nat /\ p.next \in Nat /\ p.prev \in Nat
      /\ Packed(s, p.free, PageSize - p.bottom)
      /\ p.bottom + 2 * Len(s) + 20 <= PageSize
      /\ p.freeSize + SizesOf(s) + 2 * Len(s) + 20 = PageSize
    BY Blocks9, Numbers DEF PageOK, Page, Exact
<1>1. b \in Block /\ b.at \in Int /\ b.size \in Nat /\ b.size > 0
    BY SMTT(40), <1>0, Blocks9
<1>2. t \in Seq(Block) /\ Without(s, t, pos)
    BY <1>0, Removed
<1>3. Len(t) \in Nat /\ Sized(t) /\ SizesOf(t) \in Nat /\ Len(s) = Len(t) + 1
      /\ \A n \in 1 .. Len(t) : t[n].at \in Int /\ t[n].size \in Nat /\ t[n].size > 0
    BY <1>2, Blocks9, SumNat DEF Without
<1>4. SizesOf(s) = SizesOf(t) + b.size
    BY <1>0, <1>2, <1>3, SumWithout
<1>5. /\ Packed(t, p.free, PageSize - p.bottom)
      /\ Within(b, PageSize - p.bottom)
      /\ \A n \in 1 .. Len(t) : Apart(b, t[n])
      /\ \A n \in 1 .. Len(p.free) : Apart(b, p.free[n])
    BY ZenonT(40), <1>0, <1>2, <1>3, PackedOut
<1>. HIDE DEF t
<1>n. PICK ps \in Nat, fs \in Nat, ts \in Nat, low \in Nat, len \in Nat, z \in Nat, x \in Int :
         /\ ps = PageSize /\ fs = p.freeSize /\ ts = SizesOf(t)
         /\ low = p.bottom /\ len = Len(t) /\ z = b.size /\ x = b.at
    BY <1>0, <1>1, <1>3, Numbers
<1>m. /\ fs + (ts + z) + 2 * (len + 1) + 20 = ps /\ low + 2 * (len + 1) + 20 <= ps
      /\ x >= ps - low /\ x + z <= ps /\ z > 0
    BY <1>0, <1>1, <1>3, <1>4, <1>5, <1>n DEF Within
<1>6. /\ u \in Page /\ u.slots = t /\ u.free = p.free /\ u.freeSize = fs + 2 + z
      /\ u.bottom = low /\ u.next = p.next /\ u.prev = p.prev
    <2>1. p.freeSize + SlotSize + b.size = fs + 2 + z /\ fs + 2 + z \in Nat
        <3>1. p.freeSize = fs /\ b.size = z /\ SlotSize = 2
            BY <1>n, Numbers
        <3>. HIDE DEF b
        <3>. QED
            BY <3>1
    <2>2. u = [p EXCEPT !.slots = t, !.freeSize = fs + 2 + z]
        BY <2>1
    <2>. HIDE DEF u
    <2>. QED
        BY <1>0, <1>2, <1>n, <2>1, <2>2 DEF Page
<1>7. q = SetFree(u, b)
    BY DEF Erased, t
<1>. HIDE DEF u
<1>8. fs + 2 + z + ts + 2 * len + 20 = ps
    BY <1>m
<1>9. CASE x + low = ps
    <2>1. q = [u EXCEPT !.bottom = @ - b.size]
        BY <1>6, <1>7, <1>9, <1>n DEF SetFree
    <2>2. low - z \in Nat /\ u.bottom - b.size = low - z
        <3>1. low - z \in Nat
            BY <1>m, <1>9
        <3>2. u.bottom = low /\ b.size = z
            BY <1>6, <1>n
        <3>. QED
            BY <3>1, <3>2
    <2>3. /\ q \in Page /\ q.slots = t /\ q.free = p.free /\ q.freeSize = fs + 2 + z
          /\ q.bottom = low - z /\ q.next = p.next /\ q.prev = p.prev
        <3>. HIDE DEF q
        <3>. QED
            BY <1>6, <2>1, <2>2 DEF Page
    <2>. HIDE DEF q
    <2>4. Exact(q)
        BY <1>8, <1>n, <2>3, Numbers DEF Exact
    <2>5. q.bottom + SlotSize * Len(q.slots) + HeaderSize <= PageSize
        <3>1. (low - z) + 2 * len + 20 <= ps
            BY <1>m
        <3>. QED
            BY <1>n, <2>3, <3>1, Numbers
    <2>6. ASSUME NEW c, c.at \in Int, c.size \in Nat, c.size > 0,
                 Within(c, PageSize - p.bottom), Apart(b, c)
          PROVE  Within(c, PageSize - (low - z))
        <3>1. PICK y \in Int, w \in Nat : y = c.at /\ w = c.size
            BY <2>6
        <3>2. w > 0 /\ y >= ps - low /\ y + w <= ps /\ (x + z <= y \/ y + w <= x)
            BY <1>n, <2>6, <3>1 DEF Within, Apart
        <3>3. y >= ps - (low - z)
            BY <1>9, <3>2
        <3>. QED
            BY <1>n, <3>1, <3>2, <3>3 DEF Within
    <2>7. \A n \in 1 .. Len(p.free) : /\ p.free[n].at \in Int /\ p.free[n].size \in Nat
                                      /\ p.free[n].size > 0
        BY <1>0, Holes
    <2>8. Packed(t, p.free, PageSize - (low - z))
        <3>1. \A n \in 1 .. Len(t) : Within(t[n], PageSize - (low - z))
            BY <1>3, <1>5, <2>6 DEF Packed
        <3>2. \A n \in 1 .. Len(p.free) : Within(p.free[n], PageSize - (low - z))
            BY <1>5, <2>6, <2>7 DEF Packed
        <3>. QED
            BY <1>5, <3>1, <3>2 DEF Packed
    <2>9. PageOK(q)
        BY <2>3, <2>4, <2>5, <2>8 DEF PageOK
    <2>. QED
        BY <1>2, <2>3, <2>9 DEF q, t
<1>10. CASE ~(x + low = ps)
    <2> DEFINE h == [at |-> b.at, size |-> b.size]
               f == p.free
               g == <<h>> \o f
    <2>1. q = [u EXCEPT !.free = <<h>> \o @]
        BY <1>6, <1>7, <1>10, <1>n DEF SetFree
    <2>2. h \in Hole /\ h.at = b.at /\ h.size = b.size
        BY <1>1 DEF Hole
    <2>. HIDE DEF h
    <2>3. <<h>> \in Seq(Hole) /\ Len(<<h>>) = 1 /\ <<h>>[1] = h
        BY <2>2
    <2>4. /\ g \in Seq(Hole)
          /\ Len(g) = Len(<<h>>) + Len(f)
          /\ \A n \in 1 .. Len(<<h>>) + Len(f) :
                g[n] = IF n <= Len(<<h>>) THEN <<h>>[n] ELSE f[n - Len(<<h>>)]
        BY <1>0, <2>3, ConcatProperties
    <2>5. Len(f) \in Nat
        BY <1>0, Holes
    <2>6. /\ Len(g) = Len(f) + 1
          /\ \A n \in 1 .. Len(f) : n < 1 => f[n] = g[n]
          /\ \A n \in 1 .. Len(f) : n >= 1 => f[n] = g[n + 1]
          /\ g[1] = h
        <3>1. Len(<<h>>) + Len(f) = Len(f) + 1 /\ 1 \in 1 .. Len(f) + 1
            BY <2>3, <2>5
        <3>2. ASSUME NEW n \in 1 .. Len(f) PROVE f[n] = g[n + 1]
            <4>1. n + 1 \in 1 .. Len(f) + 1 /\ ~(n + 1 <= 1) /\ (n + 1) - 1 = n
                BY <2>5
            <4>. HIDE DEF g, f
            <4>. QED
                BY <2>3, <2>4, <3>1, <4>1
        <3>3. g[1] = h
            <4>. HIDE DEF g, f
            <4>. QED
                BY <2>3, <2>4, <3>1
        <3>4. Len(g) = Len(f) + 1
            <4>. HIDE DEF g, f
            <4>. QED
                BY <2>4, <3>1
        <3>. HIDE DEF g, f
        <3>. QED
            BY <2>5, <3>2, <3>3, <3>4
    <2>. HIDE DEF g
    <2>7. /\ q \in Page /\ q.slots = t /\ q.free = g /\ q.freeSize = fs + 2 + z
          /\ q.bottom = low /\ q.next = p.next /\ q.prev = p.prev
        <3>1. q = [u EXCEPT !.free = g]
            BY <1>6, <2>1 DEF g
        <3>. HIDE DEF q
        <3>. QED
            BY <1>6, <2>4, <3>1 DEF Page
    <2>8. Packed(t, g, PageSize - low)
        <3>1. /\ Within(h, PageSize - low)
              /\ \A n \in 1 .. Len(t) : Apart(t[n], h)
              /\ \A n \in 1 .. Len(f) : Apart(h, f[n]) /\ Apart(f[n], h)
            <4>1. Within(h, PageSize - low)
                BY <1>5, <1>n, <2>2 DEF Within
            <4>2. \A n \in 1 .. Len(t) : Apart(t[n], b)
                BY <1>1, <1>3, <1>5, ApartAnyway
            <4>3. \A n \in 1 .. Len(f) : Apart(f[n], b)
                <5>1. \A n \in 1 .. Len(f) : f[n].at \in Int /\ f[n].size \in Nat
                    BY <1>0, Holes
                <5>. QED
                    BY <1>1, <1>5, <5>1, ApartAnyway
            <4>. QED
                BY <1>5, <2>2, <4>1, <4>2, <4>3 DEF Apart
        <3> DEFINE to(n) == n - 1
        <3>2. \A n \in 1 .. Len(g) : n # 1 => to(n) \in 1 .. Len(f) /\ g[n] = f[to(n)]
            <4>1. ASSUME NEW n \in 1 .. Len(g), n # 1
                  PROVE  n - 1 \in 1 .. Len(f) /\ g[n] = f[n - 1]
                <5>1. n - 1 \in 1 .. Len(f) /\ n - 1 >= 1 /\ (n - 1) + 1 = n
                    BY <2>5, <2>6, <4>1
                <5>. HIDE DEF f
                <5>. QED
                    BY <2>6, <5>1
            <4>. QED
                BY <4>1
        <3>3. \A n, m \in 1 .. Len(g) : n # m /\ n # 1 /\ m # 1 => to(n) # to(m)
            OBVIOUS
        <3>. HIDE DEF to
        <3>. QED
            BY ZenonT(40), <1>5, <1>n, <2>6, <3>1, <3>2, <3>3 DEF Packed
    <2>. HIDE DEF q
    <2>9. Exact(q)
        BY <1>8, <1>n, <2>7, Numbers DEF Exact
    <2>10. q.bottom + SlotSize * Len(q.slots) + HeaderSize <= PageSize
        <3>1. low + 2 * len + 20 <= ps
            BY <1>m
        <3>. QED
            BY <1>n, <2>7, <3>1, Numbers
    <2>11. PageOK(q)
        BY <2>7, <2>8, <2>9, <2>10, <1>n DEF PageOK
    <2>. QED
        BY <1>2, <2>7, <2>11 DEF q, t
<1>. QED
    BY <1>9, <1>10

(* split() takes the blocks from the last on out of the lower page. *)
LEMMA LowerKeeps ==
    ASSUME NEW p, PageOK(p), NEW k \in 0 .. Len(p.slots)
    PROVE  LET q == Lower(p, k) IN
           /\ PageOK(q) /\ q.next = p.next /\ q.prev = p.prev
           /\ Len(q.slots) = k
           /\ \A n \in 1 .. k : q.slots[n] = p.slots[n]
<1> DEFINE S == {q \in Page : PageOK(q)}
           len == Len(p.slots)
           step == [x \in Nat \X S |->
                       IF Len(x[2].slots) = 0 THEN x[2] ELSE Erased(x[2], Len(x[2].slots))]
           Follows(t) == t = [n \in 0 .. len - k |->
                                IF n = 0 THEN p
                                ELSE LET q == t[n - 1] IN Erased(q, Len(q.slots))]
           left == CHOOSE t : Follows(t)
<1>0. p \in S /\ len \in Nat /\ k \in Nat /\ k <= len /\ len - k \in Nat
    BY Blocks9 DEF PageOK, Page
<1>1. ASSUME NEW q \in S, Len(q.slots) # 0
      PROVE  /\ Erased(q, Len(q.slots)) \in S
             /\ Erased(q, Len(q.slots)).next = q.next /\ Erased(q, Len(q.slots)).prev = q.prev
             /\ Without(q.slots, Erased(q, Len(q.slots)).slots, Len(q.slots))
             /\ Len(q.slots) \in Nat /\ Len(Erased(q, Len(q.slots)).slots) \in Nat
    <2>1. PageOK(q) /\ Len(q.slots) \in Nat
        BY Blocks9 DEF PageOK, Page
    <2>2. Len(q.slots) \in 1 .. Len(q.slots)
        BY <1>1, <2>1
    <2>3. LET r == Erased(q, Len(q.slots)) IN
          /\ PageOK(r) /\ r.next = q.next /\ r.prev = q.prev
          /\ Without(q.slots, r.slots, Len(q.slots))
        BY <2>1, <2>2, ErasedKeeps
    <2>4. Erased(q, Len(q.slots)) \in Page /\ Len(Erased(q, Len(q.slots)).slots) \in Nat
        BY <2>3, Blocks9 DEF PageOK, Page
    <2>. QED
        BY <2>1, <2>3, <2>4
<1>2. step \in [Nat \X S -> S]
    <2>. HIDE DEF S
    <2>. QED
        BY <1>1
<1>3. PICK l : l \in Goes(S, p, step)
    <2>. HIDE DEF step, S
    <2>. QED
        BY <1>0, <1>2, RecursionExists
<1>4. l \in [Nat -> S] /\ l[0] = p /\ \A n \in Nat : l[n + 1] = step[<<n, l[n]>>]
    BY <1>3 DEF Goes
<1>5. ASSUME NEW n \in Nat
      PROVE  /\ l[n] \in S
             /\ l[n + 1] = IF Len(l[n].slots) = 0 THEN l[n] ELSE Erased(l[n], Len(l[n].slots))
    <2>. HIDE DEF S
    <2>. QED
        BY <1>4
<1>. HIDE DEF S, step
<1> DEFINE Shorter(n) == /\ Len(l[n].slots) = len - n
                         /\ l[n].next = p.next /\ l[n].prev = p.prev
                         /\ \A i \in 1 .. len - n : l[n].slots[i] = p.slots[i]
           Good == {n \in Nat : n <= len => Shorter(n)}
<1>6. Nat \subseteq Good
    <2>1. 0 \in Good
        BY <1>0, <1>4
    <2>2. ASSUME NEW n \in Nat, n \in Good PROVE n + 1 \in Good
        <3>. SUFFICES ASSUME n + 1 <= len PROVE Shorter(n + 1)
            <4>. HIDE DEF Shorter
            <4>. QED
                OBVIOUS
        <3>1. Shorter(n)
            <4>1. n <= len
                BY <1>0
            <4>. HIDE DEF Shorter
            <4>. QED
                BY <2>2, <4>1
        <3> DEFINE a == l[n]
                   b == l[n + 1]
        <3>2. Len(a.slots) = len - n /\ len - n # 0 /\ len - n \in Nat
            BY <1>0, <3>1
        <3>3. a \in S /\ b = Erased(a, Len(a.slots))
            BY <1>5, <3>2
        <3>4. /\ b.next = a.next /\ b.prev = a.prev
              /\ Without(a.slots, b.slots, Len(a.slots)) /\ Len(b.slots) \in Nat
            BY <1>1, <3>2, <3>3
        <3>. HIDE DEF a, b
        <3>5. Len(b.slots) = len - (n + 1)
            <4>1. PICK m \in Nat, x \in Nat : m = len /\ x = Len(b.slots)
                BY <1>0, <3>4
            <4>2. m - n = x + 1
                BY <3>2, <3>4, <4>1 DEF Without
            <4>3. x = m - (n + 1)
                BY <4>2
            <4>. QED
                BY <4>1, <4>3
        <3>6. \A i \in 1 .. len - (n + 1) : i \in 1 .. len - n /\ i < len - n
            BY <1>0
        <3>7. \A i \in 1 .. len - (n + 1) : b.slots[i] = a.slots[i]
            BY <3>2, <3>4, <3>5, <3>6 DEF Without
        <3>8. \A i \in 1 .. len - (n + 1) : b.slots[i] = p.slots[i]
            BY <3>1, <3>6, <3>7 DEF a
        <3>. QED
            BY <3>1, <3>4, <3>5, <3>8 DEF a, b
    <2>. HIDE DEF Good
    <2>. QED
        BY <2>1, <2>2, AllNat
<1>7. \A n \in 0 .. len - k : n # 0 =>
          n - 1 \in Nat /\ n - 1 \in 0 .. len - k /\ n - 1 <= len /\ (n - 1) + 1 = n
    BY <1>0
<1>8. ASSUME NEW n \in 0 .. len - k, n # 0 PROVE l[n] = Erased(l[n - 1], Len(l[n - 1].slots))
    <2>1. Len(l[n - 1].slots) = len - (n - 1)
        BY <1>6, <1>7, <1>8
    <2>2. len - (n - 1) # 0
        BY <1>0
    <2>. QED
        BY <1>5, <1>7, <1>8, <2>1, <2>2
<1>9. Follows([n \in 0 .. len - k |-> l[n]])
    <2> DEFINE h == [n \in 0 .. len - k |-> l[n]]
    <2>1. \A n \in 0 .. len - k :
             h[n] = IF n = 0 THEN p ELSE LET q == h[n - 1] IN Erased(q, Len(q.slots))
        <3>1. \A n \in 0 .. len - k : h[n] = l[n]
            OBVIOUS
        <3>. HIDE DEF h
        <3>. QED
            BY <1>4, <1>7, <1>8, <3>1
    <2>. QED
        BY <2>1
<1>10. Follows(left)
    <2>. HIDE DEF Follows
    <2>. QED
        BY <1>9
<1>11. Lower(p, k) = left[len - k]
    BY DEF Lower
<1>12. \A n \in 0 .. len - k :
          left[n] = IF n = 0 THEN p ELSE Erased(left[n - 1], Len(left[n - 1].slots))
    <2>. HIDE DEF left
    <2>. QED
        BY <1>10
<1>. HIDE DEF left
<1> DEFINE Same == {n \in Nat : n <= len - k => left[n] = l[n]}
<1>13. Nat \subseteq Same
    <2>1. 0 \in Same
        BY <1>0, <1>4, <1>12
    <2>2. ASSUME NEW n \in Nat, n \in Same PROVE n + 1 \in Same
        <3>. SUFFICES ASSUME n + 1 <= len - k PROVE left[n + 1] = l[n + 1]
            OBVIOUS
        <3>1. n + 1 \in 0 .. len - k /\ n + 1 # 0 /\ (n + 1) - 1 = n /\ n <= len - k
            BY <1>0
        <3>2. left[n] = l[n]
            BY <2>2, <3>1
        <3>3. left[n + 1] = Erased(left[n], Len(left[n].slots))
            BY <1>12, <3>1
        <3>4. l[n + 1] = Erased(l[n], Len(l[n].slots))
            BY <1>8, <3>1
        <3>. QED
            BY <3>2, <3>3, <3>4
    <2>. HIDE DEF Same
    <2>. QED
        BY <2>1, <2>2, AllNat
<1>14. Lower(p, k) = l[len - k]
    BY <1>0, <1>11, <1>13
<1>15. Shorter(len - k) /\ l[len - k] \in S
    <2>1. len - k \in Good /\ len - k <= len
        <3>1. len - k \in Good
            <4>. HIDE DEF Good
            <4>. QED
                BY <1>0, <1>6
        <3>2. PICK m \in Nat, i \in Nat : m = len /\ i = k
            BY <1>0
        <3>3. m - i <= m
            OBVIOUS
        <3>. HIDE DEF Good
        <3>. QED
            BY <3>1, <3>2, <3>3
    <2>2. Shorter(len - k)
        <3>. HIDE DEF Shorter
        <3>. QED
            BY <2>1
    <2>. QED
        BY <1>0, <1>5, <2>2
<1>16. len - (len - k) = k
    BY <1>0
<1>. QED
    BY <1>14, <1>15, <1>16 DEF S

-----------------------------------------------------------------------------
(* Sums of a part of the blocks of a page. *)
LEMMA Monotone ==
    ASSUME NEW s, Sized(s), NEW f, Runs(s, f), NEW a \in Nat, NEW b \in Nat,
           a <= b, b <= Len(s)
    PROVE  f[a] <= f[b]
<1> DEFINE More == {n \in Nat : a + n <= Len(s) => f[a] <= f[a + n]}
<1>1. \A n \in Nat : f[n] \in Nat
    BY RunsSum
<1>2. 0 \in More
    BY <1>1
<1>3. ASSUME NEW n \in Nat, n \in More PROVE n + 1 \in More
    <2>. SUFFICES ASSUME a + (n + 1) <= Len(s) PROVE f[a] <= f[a + (n + 1)]
        OBVIOUS
    <2>1. a + (n + 1) \in 1 .. Len(s) /\ (a + (n + 1)) - 1 = a + n /\ a + n <= Len(s) /\ a + n \in Nat
        BY DEF Sized
    <2>2. PICK z \in Nat : z = s[a + (n + 1)].size
        BY <2>1 DEF Sized
    <2>3. f[a + (n + 1)] = f[a + n] + z
        BY <2>1, <2>2, RunsSum
    <2>4. f[a] <= f[a + n]
        BY <1>3, <2>1
    <2>. QED
        BY <1>1, <2>1, <2>3, <2>4
<1>4. Nat \subseteq More
    <2>. HIDE DEF More
    <2>. QED
        BY <1>2, <1>3, AllNat
<1>5. b - a \in Nat /\ a + (b - a) = b
    OBVIOUS
<1>. QED
    BY <1>4, <1>5

LEMMA SumSub ==
    ASSUME NEW s \in Seq(Block), NEW f, Runs(s, f), NEW a \in Nat, NEW b \in Nat,
           a <= b, b <= Len(s)
    PROVE  /\ SizesOf(SubSeq(s, a + 1, b)) = f[b] - f[a]
           /\ SubSeq(s, a + 1, b) \in Seq(Block)
           /\ Len(SubSeq(s, a + 1, b)) = b - a
           /\ \A n \in 1 .. b - a : SubSeq(s, a + 1, b)[n] = s[a + n]
<1> DEFINE t == SubSeq(s, a + 1, b)
<1>1. Len(s) \in Nat /\ Sized(s) /\ \A n \in 1 .. Len(s) : s[n] \in Block
    BY Blocks9
<1>2. /\ t \in Seq(Block) /\ Len(t) = b - a
      /\ \A n \in 1 .. b - a : t[n] = s[a + n]
    <2>1. \A n \in a + 1 .. b : s[n] \in Block
        BY <1>1
    <2>2. a + 1 \in Int /\ b \in Int /\ b - (a + 1) + 1 = b - a /\ (~(a + 1 <= b) => b - a = 0)
        OBVIOUS
    <2>3. /\ SubSeq(s, a + 1, b) \in Seq(Block)
          /\ Len(SubSeq(s, a + 1, b)) = IF a + 1 <= b THEN b - (a + 1) + 1 ELSE 0
          /\ \A n \in 1 .. b - (a + 1) + 1 : SubSeq(s, a + 1, b)[n] = s[a + 1 + n - 1]
        BY <2>1, <2>2, SubSeqProperties
    <2>4. \A n \in 1 .. b - a : a + 1 + n - 1 = a + n
        OBVIOUS
    <2>. QED
        BY <2>2, <2>3, <2>4
<1>. HIDE DEF t
<1>3. Sized(t) /\ SizesOf(t) \in Nat
    BY <1>2, Blocks9, SumNat
<1>4. a + (b - a) = b
    OBVIOUS
<1>5. a + Len(t) = b
    BY <1>2, <1>4
<1>6. f[a + Len(t)] = f[a] + SizesOf(t)
    <2>1. a + Len(t) <= Len(s) /\ \A n \in 1 .. Len(t) : t[n].size = s[a + n].size
        BY <1>2, <1>5
    <2>. QED
        BY ZenonT(40), <1>1, <1>3, <2>1, Window
<1>7. f[a] \in Nat /\ f[b] \in Nat
    BY <1>1, RunsSum
<1>8. SizesOf(t) = f[b] - f[a]
    BY <1>3, <1>5, <1>6, <1>7
<1>. QED
    BY <1>2, <1>8 DEF t

LEMMA SuffixIs ==
    ASSUME NEW p, PageOK(p), NEW f, Runs(p.slots, f), NEW k \in 0 .. Len(p.slots)
    PROVE  /\ Suffix(p, k) = f[Len(p.slots)] - f[k] + 2 * (Len(p.slots) - k)
           /\ Suffix(p, k) \in Nat
<1>1. p.slots \in Seq(Block) /\ Len(p.slots) \in Nat /\ Sized(p.slots)
    BY Blocks9 DEF PageOK, Page
<1>2. k \in Nat /\ k <= Len(p.slots)
    BY <1>1
<1>3. SizesOf(SubSeq(p.slots, k + 1, Len(p.slots))) = f[Len(p.slots)] - f[k]
    BY <1>1, <1>2, SumSub
<1>4. f[k] <= f[Len(p.slots)] /\ f[k] \in Nat /\ f[Len(p.slots)] \in Nat
    BY <1>1, <1>2, Monotone, RunsSum
<1>. QED
    BY SMTT(40), <1>1, <1>2, <1>3, <1>4, Numbers DEF Suffix

(* ... and puts them into the upper one, from the last on. *)
LEMMA UpperKeeps ==
    ASSUME NEW p, PageOK(p), NEW k \in 0 .. Len(p.slots),
           Suffix(p, k) + 2 * (Len(p.slots) - k) + 20 <= PageSize
    PROVE  LET q == Upper(p, k) IN
           /\ PageOK(q) /\ q.next = 0 /\ q.prev = 0
           /\ Len(q.slots) = Len(p.slots) - k
           /\ \A n \in 1 .. Len(p.slots) - k : q.slots[n].size = p.slots[k + n].size
           /\ q.freeSize = PageSize - HeaderSize - Suffix(p, k)
<1> DEFINE s == p.slots
           len == Len(p.slots)
           x(i) == SizesOf(SubSeq(s, k + i, len))
           t == [i \in 1 .. len - k |-> [s[k + i] EXCEPT !.at = PageSize - x(i)]]
           q == Upper(p, k)
           w == Suffix(p, k)
<1>0. s \in Seq(Block) /\ len \in Nat /\ Sized(s) /\ k \in Nat /\ k <= len /\ len - k \in Nat
    BY Blocks9 DEF PageOK, Page
<1>1. PICK f : Runs(s, f)
    BY <1>0, Runs1
<1>2. w = f[len] - f[k] + 2 * (len - k) /\ w \in Nat
    BY <1>1, SuffixIs
<1>3. f[len] \in Nat /\ f[k] \in Nat /\ f[k] <= f[len]
    BY <1>0, <1>1, Monotone, RunsSum
<1>4. ASSUME NEW i \in 1 .. len - k
      PROVE  /\ k + i \in 1 .. len /\ s[k + i] \in Block
             /\ s[k + i].size \in Nat
             /\ f[k + i] \in Nat /\ f[k + i - 1] \in Nat
             /\ f[k + i] = f[k + i - 1] + s[k + i].size
             /\ x(i) = f[len] - f[k + i - 1] /\ x(i) \in Nat
             /\ s[k + i].size <= x(i) /\ x(i) <= w
    <2>1. /\ k + i \in 1 .. len /\ k + i \in Nat /\ k + i - 1 \in Nat /\ k + i <= len
          /\ k + i - 1 <= len /\ (k + i - 1) + 1 = k + i /\ k <= k + i - 1
        BY <1>0
    <2>2. s[k + i] \in Block /\ s[k + i].size \in Nat
        BY <1>0, <2>1, Blocks9
    <2>3. f[k + i] \in Nat /\ f[k + i - 1] \in Nat /\ f[k + i] = f[k + i - 1] + s[k + i].size
        BY <1>0, <1>1, <2>1, RunsSum
    <2>4. x(i) = f[len] - f[k + i - 1]
        <3>1. SizesOf(SubSeq(s, (k + i - 1) + 1, len)) = f[len] - f[k + i - 1]
            <4>1. PICK a \in Nat, b \in Nat : a = k + i - 1 /\ b = len
                BY <1>0, <2>1
            <4>2. a <= b /\ b <= Len(s)
                BY <2>1, <4>1
            <4>3. SizesOf(SubSeq(s, a + 1, b)) = f[b] - f[a]
                BY <1>0, <1>1, <4>2, SumSub
            <4>. QED
                BY <4>1, <4>3
        <3>. QED
            BY <2>1, <3>1
    <2>5. f[k + i] <= f[len] /\ f[k] <= f[k + i - 1]
        BY <1>0, <1>1, <2>1, Monotone
    <2>. HIDE DEF x
    <2>6. /\ x(i) \in Nat /\ s[k + i].size <= x(i) /\ x(i) <= w
        <3>1. PICK fl \in Nat, fk \in Nat, fi \in Nat, z \in Nat, d \in Nat :
                 /\ fl = f[len] /\ fk = f[k] /\ fi = f[k + i - 1] /\ z = s[k + i].size
                 /\ d = len - k
            BY <1>0, <1>3, <2>2, <2>3
        <3>2. x(i) = fl - fi /\ fi + z <= fl /\ fk <= fi /\ w = fl - fk + 2 * d
            BY <1>2, <2>3, <2>4, <2>5, <3>1
        <3>3. fl - fi \in Nat /\ z <= fl - fi /\ fl - fi <= fl - fk + 2 * d
            BY <3>2
        <3>. QED
            BY <3>1, <3>2, <3>3
    <2>. QED
        BY <2>1, <2>2, <2>3, <2>4, <2>6
<1>. HIDE DEF x
<1>5. ASSUME NEW i \in 1 .. len - k
      PROVE  t[i] \in Block /\ t[i].at = PageSize - x(i) /\ t[i].size = s[k + i].size
    <2>1. PICK y \in Int : y = PageSize - x(i)
        BY <1>4, Numbers
    <2>2. PICK b \in Block : b = s[k + i]
        BY <1>4
    <2>3. t[i] = [b EXCEPT !.at = y]
        BY <2>1, <2>2
    <2>4. t[i] \in Block /\ t[i].size = b.size /\ t[i].at = y
        <3>. HIDE DEF t
        <3>. QED
            BY <2>3 DEF Block
    <2>. QED
        BY <2>1, <2>2, <2>4
<1>6. t \in Seq(Block) /\ Len(t) = len - k
    <2>1. t \in [1 .. len - k -> Block]
        <3>1. DOMAIN t = 1 .. len - k /\ t = [i \in 1 .. len - k |-> t[i]]
            OBVIOUS
        <3>. HIDE DEF t
        <3>. QED
            BY <1>5, <3>1
    <2>. HIDE DEF t
    <2>. QED
        BY SMTT(40), <1>0, <2>1, IsASeq
<1>7. q = [NewPage EXCEPT !.slots = t, !.freeSize = @ - w, !.bottom = w]
    BY DEF Upper, x
<1>. HIDE DEF t
<1>8. NewPage.freeSize = PageSize - 20 /\ PageSize - 20 - w \in Nat
    BY SMTT(40), <1>0, <1>2, Numbers DEF NewPage
<1>9. /\ q \in Page /\ q.slots = t /\ q.free = <<>> /\ q.freeSize = PageSize - 20 - w
      /\ q.bottom = w /\ q.next = 0 /\ q.prev = 0
    <2>1. NewPage.freeSize - w = PageSize - 20 - w
        BY <1>8
    <2>2. q = [NewPage EXCEPT !.slots = t, !.freeSize = PageSize - 20 - w, !.bottom = w]
        BY <1>7, <2>1
    <2>3. q = [slots |-> t, free |-> <<>>, freeSize |-> PageSize - 20 - w,
               bottom |-> w, next |-> 0, prev |-> 0]
        BY <2>2 DEF NewPage
    <2>4. <<>> \in Seq(Hole)
        OBVIOUS
    <2>. HIDE DEF q, w
    <2>. QED
        BY <1>2, <1>6, <1>8, <2>3, <2>4 DEF Page
<1>. HIDE DEF q, w
<1>10. Packed(t, <<>>, PageSize - w)
    <2>1. ASSUME NEW i \in 1 .. Len(t) PROVE Within(t[i], PageSize - w)
        <3>1. /\ t[i].at = PageSize - x(i) /\ t[i].size \in Nat /\ x(i) \in Nat
              /\ t[i].size <= x(i) /\ x(i) <= w
            BY <1>4, <1>5, <1>6
        <3>. QED
            BY <1>2, <3>1, WithinFromEnd
    <2>2. ASSUME NEW i \in 1 .. Len(t), NEW j \in 1 .. Len(t), i < j
          PROVE  Apart(t[i], t[j]) /\ Apart(t[j], t[i])
        <3>1. i \in 1 .. len - k /\ j \in 1 .. len - k
            BY <1>6
        <3>2. /\ k + i \in Nat /\ k + j - 1 \in Nat /\ k + i <= k + j - 1 /\ k + j - 1 <= len
            BY <1>0, <2>2, <3>1
        <3>3. f[k + i] <= f[k + j - 1]
            BY <1>0, <1>1, <3>2, Monotone
        <3>4. PICK z \in Nat, fi \in Nat, fj \in Nat, fl \in Nat, xi \in Nat, xj \in Nat :
                 /\ z = s[k + i].size /\ fi = f[k + i - 1] /\ fj = f[k + j - 1]
                 /\ fl = f[len] /\ xi = x(i) /\ xj = x(j)
            BY <1>3, <1>4, <3>1
        <3>5. f[k + i] = fi + z /\ xi = fl - fi /\ xj = fl - fj
            BY <1>4, <3>1, <3>4
        <3>6. xj + z <= xi
            <4>1. fi + z <= fj
                BY <3>3, <3>4, <3>5
            <4>2. xi = fl - fi /\ xj = fl - fj
                BY <3>5
            <4>. QED
                BY <4>1, <4>2
        <3>7. /\ t[i].at = PageSize - xi /\ t[j].at = PageSize - xj
              /\ t[i].size = z /\ t[j].size \in Nat
            BY <1>4, <1>5, <3>1, <3>4
        <3>8. xj + t[i].size <= xi /\ t[i].size \in Nat
            BY <3>6, <3>7
        <3>. QED
            BY <3>7, <3>8, ApartFromEnd
    <2>3. \A i, j \in 1 .. Len(t) : i # j => i < j \/ j < i
        OBVIOUS
    <2>4. \A i, j \in 1 .. Len(t) : i # j => Apart(t[i], t[j])
        BY <2>2, <2>3
    <2>5. Len(<<>>) = 0
        OBVIOUS
    <2>. QED
        BY <2>1, <2>4, <2>5 DEF Packed
<1>11. SizesOf(t) = f[len] - f[k]
    <2>1. Sized(t) /\ SizesOf(t) \in Nat
        BY <1>6, Blocks9, SumNat
    <2>2. k + Len(t) = len /\ k + Len(t) <= Len(s) /\ \A n \in 1 .. Len(t) : t[n].size = s[k + n].size
        BY <1>0, <1>5, <1>6
    <2>3. f[k + Len(t)] = f[k] + SizesOf(t)
        <3>1. Sized(s) /\ Runs(s, f) /\ k \in Nat
            BY <1>0, <1>1
        <3>2. k + Len(t) <= Len(s) /\ \A n \in 1 .. Len(t) : t[n].size = s[k + n].size
            BY <2>2
        <3>. HIDE DEF s, len
        <3>. QED
            BY <2>1, <3>1, <3>2, Window
    <2>. QED
        BY <1>3, <2>1, <2>2, <2>3
<1>n. PICK ps \in Nat, wv \in Nat, fl \in Nat, fk \in Nat, d \in Nat :
         /\ ps = PageSize /\ wv = w /\ fl = f[len] /\ fk = f[k] /\ d = len - k
    BY <1>0, <1>2, <1>3, Numbers
<1>m. wv = fl - fk + 2 * d /\ wv + 2 * d + 20 <= ps
    BY <1>2, <1>n DEF w
<1>12. Exact(q)
    <2>1. (ps - 20 - wv) + (fl - fk) + 2 * d + 20 = ps
        BY <1>m
    <2>. QED
        BY <1>6, <1>9, <1>11, <1>n, <2>1, Numbers DEF Exact
<1>13. q.bottom + SlotSize * Len(q.slots) + HeaderSize <= PageSize
    BY <1>6, <1>9, <1>m, <1>n, Numbers
<1>14. PageOK(q)
    BY <1>9, <1>10, <1>12, <1>13 DEF PageOK
<1>. QED
    BY <1>5, <1>6, <1>9, <1>14, Numbers DEF q, w

(* The greatest of some naturals. *)
LEMMA MaxOf ==
    ASSUME NEW n \in Nat, NEW S \in SUBSET (0 .. n), S # {}
    PROVE  Max(S) \in S /\ \A y \in S : Max(S) >= y
<1> DEFINE Above == {m \in Nat : \A y \in S : y <= m}
<1>1. n \in Above
    OBVIOUS
<1>2. PICK m \in Above : \A i \in Above : m <= i
    <2>. HIDE DEF Above
    <2>1. Above \in SUBSET Nat
        BY DEF Above
    <2>. QED
        BY <1>1, <2>1, LeastNat
<1>3. m \in S
    <2>. SUFFICES ASSUME m \notin S PROVE FALSE
        OBVIOUS
    <2>1. \A y \in S : y \in Nat /\ y < m
        BY <1>2
    <2>2. m > 0
        <3>1. PICK y \in S : TRUE
            OBVIOUS
        <3>2. y \in Nat /\ y < m
            BY <2>1
        <3>3. m \in Nat
            OBVIOUS
        <3>. HIDE DEF Above
        <3>. QED
            BY <3>2, <3>3
    <2>3. m - 1 \in Nat /\ \A y \in S : y <= m - 1
        BY <1>2, <2>1, <2>2
    <2>4. m - 1 \in Above
        BY <2>3
    <2>. QED
        BY <1>2, <2>4
<1>4. \A y \in S : m >= y
    BY <1>2
<1>5. \E x \in S : \A y \in S : x >= y
    BY <1>3, <1>4
<1>. QED
    BY <1>5 DEF Max

(* Where split() stops: the upper page has two blocks, or no more than a   *)
(* half of the bytes.  Its bottom, which counts the slots, leaves room for *)
(* them above.                                                             *)
LEMMA LowerNumFits ==
    ASSUME NEW p, PageOK(p), Len(p.slots) >= MinNum
    PROVE  /\ LowerNum(p) \in 2 .. Len(p.slots) - 1
           /\ Suffix(p, LowerNum(p)) + 2 * (Len(p.slots) - LowerNum(p)) + 20 <= PageSize
           /\ \/ Len(p.slots) - LowerNum(p) <= 2
              \/ 2 * Suffix(p, LowerNum(p)) <= SizesOf(p.slots)
           /\ LowerNum(p) = 2 \/ 2 * Suffix(p, LowerNum(p) - 1) > SizesOf(p.slots)
<1> DEFINE s == p.slots
           len == Len(p.slots)
           S == {k \in 2 .. len - 1 : StopsAt(p, k)}
           k == LowerNum(p)
<1>0. /\ s \in Seq(Block) /\ len \in Nat /\ Sized(s) /\ len >= 4 /\ p.freeSize \in Nat
      /\ SizesOf(s) \in Nat
      /\ p.freeSize + SizesOf(s) + 2 * len + 20 = PageSize
    BY Blocks9, SumNat, Numbers DEF PageOK, Page, Exact
<1>1. UsedSize(p) = SizesOf(s)
    <2>1. PICK ps \in Nat, fs \in Nat, ss \in Nat, l \in Nat :
             ps = PageSize /\ fs = p.freeSize /\ ss = SizesOf(s) /\ l = len
        BY <1>0, Numbers
    <2>2. fs + ss + 2 * l + 20 = ps
        BY <1>0, <2>1
    <2>3. ps - fs - 2 * l - 20 = ss
        BY <2>2
    <2>. QED
        BY <2>1, <2>3, Numbers DEF UsedSize
<1>2. MinNum \div 2 = 2
    BY Numbers
<1>3. k = Max(S)
    BY <1>2 DEF LowerNum
<1>4. k \in S /\ \A y \in S : k >= y
    <2>1. len - 1 \in Nat /\ S \in SUBSET (0 .. len - 1) /\ 2 \in 2 .. len - 1
        BY SMTT(40), <1>0
    <2>2. 2 \in S
        BY <1>2, <2>1 DEF StopsAt
    <2>. HIDE DEF S, k
    <2>. QED
        BY <1>3, <2>1, <2>2, MaxOf
<1>. HIDE DEF k
<1>5. k \in 2 .. len - 1 /\ k \in Nat /\ k >= 2 /\ k < len
    BY <1>0, <1>4
<1>6. k = 2 \/ Suffix(p, k - 1) > SizesOf(s) \div 2
    BY <1>1, <1>2, <1>4 DEF StopsAt
<1>7. len - k <= 2 \/ Suffix(p, k) <= SizesOf(s) \div 2
    <2>. SUFFICES ASSUME len - k > 2 PROVE Suffix(p, k) <= SizesOf(s) \div 2
        BY SMTT(40), <1>0, <1>5
    <2>1. k + 1 \in 2 .. len - 1 /\ ~(k >= k + 1) /\ k + 1 # 2 /\ len - (k + 1) >= 2 /\ (k + 1) - 1 = k
        BY SMTT(40), <1>0, <1>5
    <2>2. k + 1 \notin S
        BY <1>4, <2>1
    <2>3. ~StopsAt(p, k + 1)
        BY <2>1, <2>2
    <2>4. ~(Suffix(p, k) > SizesOf(s) \div 2)
        BY <1>1, <1>2, <2>1, <2>3 DEF StopsAt
    <2>5. Suffix(p, k) \in Nat
        <3>1. PICK f : Runs(s, f)
            BY <1>0, Runs1
        <3>2. k \in 0 .. Len(p.slots)
            BY <1>5
        <3>. QED
            BY <3>1, <3>2, SuffixIs
    <2>6. SizesOf(s) \div 2 \in Nat
        BY <1>0
    <2>. QED
        BY <2>4, <2>5, <2>6
<1>8. PICK f : Runs(s, f)
    BY <1>0, Runs1
<1>9. /\ Suffix(p, k) = f[len] - f[k] + 2 * (len - k) /\ Suffix(p, k) \in Nat
      /\ Suffix(p, k - 1) \in Nat
    <2>1. k \in 0 .. Len(p.slots) /\ k - 1 \in 0 .. Len(p.slots)
        BY <1>5
    <2>. QED
        BY <1>8, <2>1, SuffixIs
<1>n. PICK ps \in Nat, ss \in Nat, w \in Nat, v \in Nat, l \in Nat, h \in Nat, m \in Nat :
         /\ ps = PageSize /\ ss = SizesOf(s) /\ w = Suffix(p, k) /\ v = Suffix(p, k - 1)
         /\ l = len /\ h = SizesOf(s) \div 2 /\ m = MaxBlock
    <2>1. SizesOf(s) \div 2 \in Nat
        BY <1>0
    <2>. QED
        BY <1>0, <1>9, <2>1, Numbers
<1>10. 2 * h <= ss /\ ss < 2 * h + 2
    BY SMTT(40), <1>0, <1>n
<1>11. w + 2 * (l - k) + 20 <= ps
    <2>1. CASE w <= h
        <3>1. PICK fl \in Nat, fk \in Nat : fl = f[len] /\ fk = f[k] /\ fk <= fl
            <4>1. f[len] \in Nat /\ f[k] \in Nat
                BY <1>0, <1>5, <1>8, RunsSum
            <4>2. k <= Len(s) /\ len <= Len(s) /\ k <= len
                BY <1>0, <1>5
            <4>3. f[k] <= f[len]
                BY <1>0, <1>5, <1>8, <4>2, Monotone
            <4>. QED
                BY <4>1, <4>3
        <3>2. w = fl - fk + 2 * (l - k)
            BY <1>9, <1>n, <3>1
        <3>3. ss + 20 <= ps
            <4>1. PICK fs \in Nat : fs = p.freeSize
                BY <1>0
            <4>2. fs + ss + 2 * l + 20 = ps
                BY <1>0, <1>n, <4>1
            <4>. QED
                BY <4>2
        <3>4. 2 * (l - k) <= w
            BY SMTT(40), <1>5, <3>1, <3>2
        <3>. QED
            BY <1>5, <1>10, <2>1, <3>3, <3>4
    <2>2. CASE len - k <= 2
        <3>1. \A n \in 1 .. len : s[n].size \in Nat /\ s[n].size <= MaxBlock
            BY <1>0, Blocks9
        <3>2. /\ \A n \in Nat : f[n] \in Nat
              /\ \A n \in 1 .. len : f[n] = f[n - 1] + s[n].size
            BY <1>0, <1>8, RunsSum
        <3>3. \A n \in 1 .. len : f[n] <= f[n - 1] + MaxBlock
            <4>1. ASSUME NEW n \in 1 .. len PROVE f[n] <= f[n - 1] + MaxBlock
                <5>1. PICK y \in Nat, z \in Nat : y = f[n - 1] /\ z = s[n].size
                    BY <3>1, <3>2
                <5>2. f[n] = y + z /\ z <= m
                    BY <1>n, <3>1, <3>2, <5>1
                <5>3. y + z <= y + m
                    BY <5>2
                <5>. QED
                    BY <1>n, <5>1, <5>2, <5>3
            <4>. QED
                BY <4>1
        <3>4. len \in 1 .. len /\ len - 1 \in 1 .. len /\ len - 1 \in Nat
            BY SMTT(40), <1>0
        <3>5. PICK fl \in Nat, fk \in Nat, fm \in Nat : fl = f[len] /\ fk = f[k] /\ fm = f[len - 1]
            BY SMTT(40), <3>2, <3>4, <1>5
        <3>6. fl <= fm + m
            BY <1>n, <3>3, <3>4, <3>5
        <3>7. k = l - 1 \/ k = l - 2
            BY SMTT(40), <1>5, <1>n, <2>2
        <3>8. fl <= fk + 2 * m
            <4>1. CASE k = l - 1
                <5>1. fk = fm
                    BY <1>n, <3>5, <4>1
                <5>. QED
                    BY <3>6, <5>1
            <4>2. CASE k = l - 2
                <5>1. (len - 1) - 1 = k
                    BY <1>n, <4>2
                <5>2. fm <= fk + m
                    BY <1>n, <3>3, <3>4, <3>5, <5>1
                <5>. QED
                    BY <3>6, <5>2
            <4>. QED
                BY <3>7, <4>1, <4>2
        <3>9. w = fl - fk + 2 * (l - k)
            BY <1>9, <1>n, <3>5
        <3>10. 4 * m + 20 <= ps /\ m >= 9
            BY <1>n, Numbers
        <3>11. w <= 2 * m + 4
            BY <1>5, <3>7, <3>8, <3>9
        <3>. QED
            BY <1>5, <3>7, <3>10, <3>11
    <2>. QED
        BY <1>7, <1>n, <2>1, <2>2
<1>12. len - k <= 2 \/ 2 * w <= ss
    BY SMTT(40), <1>7, <1>10, <1>n
<1>13. k = 2 \/ 2 * v > ss
    BY SMTT(40), <1>6, <1>10, <1>n
<1>. QED
    BY <1>5, <1>n, <1>11, <1>12, <1>13 DEF k

LEMMA SumConcat ==
    ASSUME NEW s \in Seq(Block), NEW t \in Seq(Block)
    PROVE  /\ SizesOf(s \o t) = SizesOf(s) + SizesOf(t)
           /\ s \o t \in Seq(Block) /\ Len(s \o t) = Len(s) + Len(t)
           /\ \A n \in 1 .. Len(s) : (s \o t)[n] = s[n]
           /\ \A n \in 1 .. Len(t) : (s \o t)[Len(s) + n] = t[n]
<1> DEFINE u == s \o t
<1>1. Len(s) \in Nat /\ Len(t) \in Nat /\ Sized(s) /\ Sized(t)
      /\ SizesOf(s) \in Nat /\ SizesOf(t) \in Nat
    BY Blocks9, SumNat
<1>2. /\ u \in Seq(Block) /\ Len(u) = Len(s) + Len(t)
      /\ \A n \in 1 .. Len(s) + Len(t) : u[n] = IF n <= Len(s) THEN s[n] ELSE t[n - Len(s)]
    BY ConcatProperties
<1>. HIDE DEF u
<1>3. \A n \in 1 .. Len(s) : u[n] = s[n]
    <2>1. \A n \in 1 .. Len(s) : n \in 1 .. Len(s) + Len(t) /\ n <= Len(s)
        BY <1>1
    <2>. QED
        BY <1>2, <2>1
<1>4. \A n \in 1 .. Len(t) : u[Len(s) + n] = t[n]
    <2>1. \A n \in 1 .. Len(t) : /\ Len(s) + n \in 1 .. Len(s) + Len(t) /\ ~(Len(s) + n <= Len(s))
                                 /\ (Len(s) + n) - Len(s) = n
        BY <1>1
    <2>. QED
        BY <1>2, <2>1
<1>5. Sized(u)
    BY <1>2, Blocks9
<1>6. PICK f : Runs(u, f)
    BY <1>5, Runs1
<1>7. f[0] = 0 /\ SizesOf(u) = f[Len(u)]
    BY <1>5, <1>6, RunsSum
<1>8. f[0 + Len(s)] = f[0] + SizesOf(s)
    <2>1. /\ 0 \in Nat /\ 0 + Len(s) <= Len(u)
          /\ \A n \in 1 .. Len(s) : s[n].size = u[0 + n].size
        <3>1. \A n \in 1 .. Len(s) : 0 + n = n
            BY <1>1
        <3>. QED
            BY <1>1, <1>2, <1>3, <3>1
    <2>. QED
        BY ZenonT(40), <1>1, <1>5, <1>6, <2>1, Window
<1>9. f[Len(s) + Len(t)] = f[Len(s)] + SizesOf(t)
    <2>1. /\ Len(s) \in Nat /\ Len(s) + Len(t) <= Len(u)
          /\ \A n \in 1 .. Len(t) : t[n].size = u[Len(s) + n].size
        BY <1>1, <1>2, <1>4
    <2>. QED
        BY <1>1, <1>5, <1>6, <2>1, Window
<1>10. 0 + Len(s) = Len(s) /\ 0 + SizesOf(s) = SizesOf(s)
    BY <1>1
<1>11. SizesOf(u) = SizesOf(s) + SizesOf(t)
    BY <1>2, <1>7, <1>8, <1>9, <1>10
<1>. QED
    BY <1>2, <1>3, <1>4, <1>11 DEF u

LEMMA PrefixIs ==
    ASSUME NEW r \in Seq(Block), NEW g, Runs(r, g), NEW i \in 1 .. Len(r)
    PROVE  /\ r[i] \in Block /\ r[i].size \in Nat
           /\ SizesOf(SubSeq(r, 1, i)) = g[i]
           /\ g[i] \in Nat /\ g[i - 1] \in Nat /\ g[i] = g[i - 1] + r[i].size
           /\ g[i] <= SizesOf(r)
<1>0. Len(r) \in Nat /\ Sized(r) /\ r[i] \in Block /\ r[i].size \in Nat
    BY Blocks9
<1>1. i \in Nat /\ i <= Len(r) /\ i - 1 \in Nat /\ Len(r) <= Len(r)
    BY <1>0
<1>2. g[i] \in Nat /\ g[i - 1] \in Nat /\ g[i] = g[i - 1] + r[i].size /\ g[0] = 0
      /\ SizesOf(r) = g[Len(r)]
    BY <1>0, <1>1, RunsSum
<1>3. g[i] <= g[Len(r)]
    BY <1>0, <1>1, Monotone
<1>4. SizesOf(SubSeq(r, 1, i)) = g[i]
    <2>1. PICK a \in Nat : a = 0
        OBVIOUS
    <2>2. a <= i
        BY <1>1, <2>1
    <2>3. SizesOf(SubSeq(r, a + 1, i)) = g[i] - g[a]
        BY <1>1, <2>2, SumSub
    <2>4. a + 1 = 1 /\ g[i] - g[a] = g[i]
        BY <1>2, <2>1
    <2>. QED
        BY <2>3, <2>4
<1>. QED
    BY <1>0, <1>2, <1>3, <1>4

(* merge() *)
LEMMA MergedKeeps ==
    ASSUME NEW p, PageOK(p), NEW q, PageOK(q), SpaceReq(q) <= p.freeSize
    PROVE  LET u == Merged(p, q) IN
           /\ PageOK(u) /\ u.next = q.next /\ u.prev = p.prev
<1> DEFINE s == p.slots
           d == Defragment(p)
           r == q.slots
           x(i) == SizesOf(SubSeq(r, 1, i))
           t == [i \in 1 .. Len(r) |-> [r[i] EXCEPT !.at = PageSize - d.bottom - x(i)]]
           u == Merged(p, q)
<1>0. /\ p.slots \in Seq(Block) /\ Len(s) \in Nat /\ Sized(s) /\ SizesOf(s) \in Nat
      /\ r \in Seq(Block) /\ Len(r) \in Nat /\ Sized(r) /\ SizesOf(r) \in Nat
      /\ DOMAIN r = 1 .. Len(r)
      /\ p.freeSize \in Nat /\ q.freeSize \in Nat /\ q.next \in Nat /\ p.prev \in Nat
      /\ p.freeSize + SizesOf(s) + 2 * Len(s) + 20 = PageSize
      /\ q.freeSize + SizesOf(r) + 2 * Len(r) + 20 = PageSize
    BY Blocks9, SumNat, Elements, Numbers DEF PageOK, Page, Exact
<1>1. /\ PageOK(d) /\ d.free = <<>> /\ Len(d.slots) = Len(s) /\ SizesOf(d.slots) = SizesOf(s)
      /\ d.bottom = SizesOf(s) /\ d.freeSize = p.freeSize /\ d.prev = p.prev
    BY DefragmentKeeps
<1>2. d \in Page /\ d.slots \in Seq(Block) /\ Packed(d.slots, <<>>, PageSize - d.bottom)
    BY <1>1 DEF PageOK, Page
<1>3. u = [d EXCEPT !.slots = @ \o t, !.bottom = @ + SizesOf(r),
                    !.freeSize = @ - SpaceReq(q), !.next = q.next]
    BY <1>0 DEF Merged
<1>. HIDE DEF u, d
<1>4. PICK g : Runs(r, g)
    BY <1>0, Runs1
<1>n. PICK ps \in Nat, fs \in Nat, ss \in Nat, ls \in Nat, fr \in Nat, sr \in Nat, lr \in Nat :
         /\ ps = PageSize /\ fs = p.freeSize /\ ss = SizesOf(s) /\ ls = Len(s)
         /\ fr = q.freeSize /\ sr = SizesOf(r) /\ lr = Len(r)
    BY <1>0, Numbers
<1>m. fs + ss + 2 * ls + 20 = ps /\ fr + sr + 2 * lr + 20 = ps
    BY <1>0, <1>n
<1>5. SpaceReq(q) = sr + 2 * lr /\ sr + 2 * lr <= fs
    <2>1. SpaceReq(q) = ps - fr - 20
        BY <1>n, Numbers DEF SpaceReq
    <2>2. ps - fr - 20 = sr + 2 * lr
        BY <1>m
    <2>. QED
        BY <1>n, <2>1, <2>2
<1>6. ASSUME NEW i \in 1 .. Len(r)
      PROVE  /\ r[i] \in Block /\ r[i].size \in Nat /\ x(i) = g[i]
             /\ g[i] \in Nat /\ g[i - 1] \in Nat /\ g[i] = g[i - 1] + r[i].size /\ g[i] <= sr
    BY ZenonT(40), <1>0, <1>4, <1>n, PrefixIs
<1>. HIDE DEF x
<1>7. ASSUME NEW i \in 1 .. Len(r)
      PROVE  t[i] \in Block /\ t[i].at = PageSize - (ss + g[i]) /\ t[i].size = r[i].size
    <2>1. PICK gi \in Nat : gi = g[i]
        BY <1>6
    <2>2. PageSize - d.bottom - x(i) = ps - ss - gi
        BY <1>1, <1>6, <1>n, <2>1
    <2>3. ps - ss - gi = ps - (ss + gi) /\ ps - (ss + gi) \in Int
        OBVIOUS
    <2>4. PICK b \in Block : b = r[i]
        BY <1>6
    <2>5. t[i] = [b EXCEPT !.at = ps - (ss + gi)]
        BY <2>2, <2>3, <2>4
    <2>6. t[i] \in Block /\ t[i].size = b.size /\ t[i].at = ps - (ss + gi)
        <3>. HIDE DEF t
        <3>. QED
            BY <2>3, <2>5 DEF Block
    <2>. QED
        BY <1>n, <2>1, <2>4, <2>6
<1>8. t \in Seq(Block) /\ Len(t) = Len(r)
    <2>1. t \in [1 .. Len(r) -> Block]
        <3>1. t = [i \in 1 .. Len(r) |-> t[i]]
            OBVIOUS
        <3>. HIDE DEF t
        <3>. QED
            BY <1>7, <3>1
    <2>2. PICK l \in Nat : l = Len(r)
        BY <1>0
    <2>3. t \in [1 .. l -> Block]
        BY <2>1, <2>2
    <2>. HIDE DEF t
    <2>4. t \in Seq(Block) /\ Len(t) = l
        BY <2>3, IsASeq
    <2>. QED
        BY <2>2, <2>4
<1>. HIDE DEF t
<1> DEFINE v == d.slots \o t
<1>9. /\ SizesOf(v) = SizesOf(d.slots) + SizesOf(t) /\ v \in Seq(Block)
      /\ Len(v) = ls + lr
      /\ \A n \in 1 .. ls : v[n] = d.slots[n]
      /\ \A n \in 1 .. lr : v[ls + n] = t[n]
    <2>1. /\ SizesOf(v) = SizesOf(d.slots) + SizesOf(t) /\ v \in Seq(Block)
          /\ Len(v) = Len(d.slots) + Len(t)
          /\ \A n \in 1 .. Len(d.slots) : v[n] = d.slots[n]
          /\ \A n \in 1 .. Len(t) : v[Len(d.slots) + n] = t[n]
        BY <1>2, <1>8, SumConcat
    <2>2. Len(d.slots) = ls /\ Len(t) = lr
        BY <1>1, <1>8, <1>n
    <2>. HIDE DEF v
    <2>. QED
        BY <2>1, <2>2
<1>10. SizesOf(t) = SizesOf(r)
    <2>1. Sized(t)
        BY <1>8, Blocks9
    <2>. QED
        BY <1>0, <1>7, <1>8, <2>1, SameSizes
<1>. HIDE DEF v
<1>11. /\ u \in Page /\ u.slots = v /\ u.free = <<>> /\ u.freeSize = fs - (sr + 2 * lr)
       /\ u.bottom = ss + sr /\ u.next = q.next /\ u.prev = p.prev
    <2>1. d.bottom + SizesOf(r) = ss + sr /\ d.freeSize - SpaceReq(q) = fs - (sr + 2 * lr)
        BY <1>1, <1>5, <1>n
    <2>2. ss + sr \in Nat /\ fs - (sr + 2 * lr) \in Nat
        BY <1>5
    <2>3. u = [d EXCEPT !.slots = v, !.bottom = ss + sr,
                        !.freeSize = fs - (sr + 2 * lr), !.next = q.next]
        BY <1>3, <2>1 DEF v
    <2>. QED
        BY <1>0, <1>1, <1>2, <1>9, <2>2, <2>3 DEF Page
<1>12. Exact(u)
    <2>1. (fs - (sr + 2 * lr)) + (ss + sr) + 2 * (ls + lr) + 20 = ps
        BY <1>m
    <2>. QED
        BY <1>1, <1>9, <1>10, <1>11, <1>n, <2>1, Numbers DEF Exact
<1>13. u.bottom + SlotSize * Len(u.slots) + HeaderSize <= PageSize
    <2>1. (ss + sr) + 2 * (ls + lr) + 20 <= ps
        BY <1>m, <1>5
    <2>. QED
        BY <1>9, <1>11, <1>n, <2>1, Numbers
<1>14. ASSUME NEW n \in 1 .. ls
       PROVE  /\ Within(v[n], PageSize - ss) /\ Within(v[n], PageSize - (ss + sr))
              /\ v[n].at \in Int /\ v[n].size \in Nat
    <2>1. n \in 1 .. Len(d.slots) /\ v[n] = d.slots[n]
        BY <1>1, <1>9, <1>n
    <2>2. Within(v[n], PageSize - ss)
        BY <1>1, <1>2, <1>n, <2>1 DEF Packed
    <2>3. v[n].at \in Int /\ v[n].size \in Nat
        BY <1>2, <2>1, Blocks9
    <2>4. Within(v[n], PageSize - (ss + sr))
        <3>1. PICK y \in Int : y = v[n].at
            BY <2>3
        <3>2. y >= ps - ss => y >= ps - (ss + sr)
            OBVIOUS
        <3>. QED
            BY <1>n, <2>2, <3>1, <3>2 DEF Within
    <2>. QED
        BY <2>2, <2>3, <2>4
<1>15. ASSUME NEW n \in 1 .. lr
       PROVE  /\ v[ls + n].at = PageSize - (ss + g[n]) /\ v[ls + n].size = r[n].size
              /\ r[n].size \in Nat /\ ss + g[n] \in Nat /\ r[n].size <= g[n]
              /\ g[n] <= sr /\ g[n] \in Nat
    <2>1. n \in 1 .. Len(r) /\ v[ls + n] = t[n]
        BY <1>9, <1>n
    <2>2. PICK y \in Nat, z \in Nat, gn \in Nat : y = g[n - 1] /\ z = r[n].size /\ gn = g[n]
        BY <1>6, <2>1
    <2>3. gn = y + z /\ gn <= sr
        BY <1>6, <2>1, <2>2
    <2>. QED
        <3>1. z <= gn /\ ss + gn \in Nat
            BY <2>3
        <3>2. v[ls + n].at = PageSize - (ss + gn) /\ v[ls + n].size = z
            BY <1>7, <2>1, <2>2
        <3>. QED
            BY <2>2, <2>3, <3>1, <3>2
<1>16. ASSUME NEW n \in 1 .. lr PROVE Within(v[ls + n], PageSize - (ss + sr))
    <2>1. ss + sr \in Nat
        OBVIOUS
    <2>2. PICK y \in Nat, z \in Nat : y = g[n] /\ z = r[n].size
        BY <1>15
    <2>3. z <= ss + y /\ ss + y <= ss + sr /\ ss + y \in Nat
        BY <1>15, <2>2
    <2>4. /\ v[ls + n].at = PageSize - (ss + y) /\ v[ls + n].size \in Nat
          /\ v[ls + n].size <= ss + y
        BY <1>15, <2>2, <2>3
    <2>. QED
        BY <2>1, <2>3, <2>4, WithinFromEnd
<1>17. ASSUME NEW m \in 1 .. ls, NEW n \in 1 .. lr
       PROVE  Apart(v[m], v[ls + n]) /\ Apart(v[ls + n], v[m])
    <2>1. PICK y \in Nat, z \in Nat, a \in Int, w \in Nat :
             y = g[n] /\ z = r[n].size /\ a = v[m].at /\ w = v[m].size
        BY <1>14, <1>15
    <2>2. a >= ps - ss /\ z <= y
        BY <1>14, <1>15, <1>n, <2>1 DEF Within
    <2>3. ps - (ss + y) + z <= a
        BY <2>2
    <2>4. v[ls + n].at = ps - (ss + y) /\ v[ls + n].size = z
        BY <1>15, <1>n, <2>1
    <2>. QED
        BY <2>1, <2>3, <2>4 DEF Apart
<1>18. ASSUME NEW m \in 1 .. lr, NEW n \in 1 .. lr, m < n
       PROVE  Apart(v[ls + m], v[ls + n]) /\ Apart(v[ls + n], v[ls + m])
    <2>1. m \in Nat /\ n - 1 \in Nat /\ m <= n - 1 /\ n - 1 <= Len(r)
        BY <1>18, <1>n
    <2>2. g[m] <= g[n - 1]
        BY <1>0, <1>4, <2>1, Monotone
    <2>3. n \in 1 .. Len(r)
        BY <1>n
    <2>4. PICK gm \in Nat, gn \in Nat, gp \in Nat, z \in Nat :
             gm = g[m] /\ gn = g[n] /\ gp = g[n - 1] /\ z = r[n].size
        BY <1>6, <1>15, <2>3
    <2>5. gn = gp + z /\ gm <= gp
        BY <1>6, <2>2, <2>3, <2>4
    <2>6. (ss + gm) + z <= ss + gn /\ ss + gm \in Nat /\ ss + gn \in Nat
        BY <2>5
    <2>7. /\ v[ls + n].at = PageSize - (ss + gn) /\ v[ls + m].at = PageSize - (ss + gm)
          /\ v[ls + n].size = z /\ v[ls + m].size \in Nat
        BY <1>15, <2>4
    <2>. QED
        BY <2>6, <2>7, ApartFromEnd
<1>19. ASSUME NEW i \in 1 .. ls + lr
       PROVE  i \in 1 .. ls \/ \E n \in 1 .. lr : i = ls + n
    <2>1. CASE i <= ls
        BY <2>1
    <2>2. CASE ~(i <= ls)
        <3>1. i - ls \in 1 .. lr /\ i = ls + (i - ls)
            BY <2>2
        <3>. QED
            BY <3>1
    <2>. QED
        BY <2>1, <2>2
<1>20. ASSUME NEW i \in 1 .. ls + lr, NEW j \in 1 .. ls + lr, i # j
       PROVE  Apart(v[i], v[j])
    <2>1. CASE i \in 1 .. ls /\ j \in 1 .. ls
        <3>1. Apart(d.slots[i], d.slots[j])
            BY <1>1, <1>2, <1>20, <1>n, <2>1 DEF Packed
        <3>. QED
            BY <1>9, <2>1, <3>1
    <2>2. CASE i \in 1 .. ls /\ \E n \in 1 .. lr : j = ls + n
        BY <1>17, <2>2
    <2>3. CASE j \in 1 .. ls /\ \E n \in 1 .. lr : i = ls + n
        BY <1>17, <2>3
    <2>4. CASE (\E m \in 1 .. lr : i = ls + m) /\ (\E n \in 1 .. lr : j = ls + n)
        <3>1. PICK m \in 1 .. lr : i = ls + m
            BY <2>4
        <3>2. PICK n \in 1 .. lr : j = ls + n
            BY <2>4
        <3>3. m < n \/ n < m
            BY <1>20, <3>1, <3>2
        <3>. QED
            BY <1>18, <3>1, <3>2, <3>3
    <2>. QED
        BY <1>19, <2>1, <2>2, <2>3, <2>4
<1>21. Packed(v, <<>>, PageSize - (ss + sr))
    <2>1. \A i \in 1 .. ls + lr : Within(v[i], PageSize - (ss + sr))
        BY <1>14, <1>16, <1>19
    <2>2. Len(<<>>) = 0
        OBVIOUS
    <2>. QED
        BY <1>9, <1>20, <2>1, <2>2 DEF Packed
<1>22. PageOK(u)
    BY <1>11, <1>12, <1>13, <1>21 DEF PageOK
<1>. QED
    BY <1>11, <1>22 DEF u

-----------------------------------------------------------------------------
(* Overflow pages. *)
OvType == [1 .. MaxOv -> [size : 0 .. OvSize, next : 0 .. MaxOv]]

(* So many pages take the bytes, and one less does not. *)
LEMMA CeilDiv ==
    ASSUME NEW r \in Nat, NEW o \in Nat \ {0}
    PROVE  /\ (r + o - 1) \div o \in Nat
           /\ r > 0 => (r + o - 1) \div o >= 1
           /\ \A i \in 1 .. (r + o - 1) \div o : r - (i - 1) * o \in Nat \ {0}
           /\ r <= ((r + o - 1) \div o) * o
<1> DEFINE q == (r + o - 1) \div o
<1>1. q \in Int /\ o * q <= r + o - 1 /\ r + o - 1 < o * q + o
    OBVIOUS
<1>2. q >= 0
    <2>. SUFFICES ASSUME q < 0 PROVE FALSE
        BY <1>1
    <2>1. o * q <= 0 - o
        BY <1>1
    <2>. HIDE DEF q
    <2>. QED
        BY <1>1, <2>1
<1>3. r > 0 => q >= 1
    <2>. SUFFICES ASSUME r > 0, ~(q >= 1) PROVE FALSE
        OBVIOUS
    <2>1. q = 0
        BY <1>1, <1>2
    <2>. HIDE DEF q
    <2>2. o * q = 0
        BY <2>1
    <2>. QED
        BY <1>1, <2>2
<1>. HIDE DEF q
<1>4. ASSUME NEW i \in 1 .. q PROVE r - (i - 1) * o \in Nat \ {0}
    <2>1. i \in Int /\ i - 1 <= q - 1 /\ i - 1 >= 0
        BY <1>1
    <2>2. (i - 1) * o <= (q - 1) * o
        BY <1>1, <2>1
    <2>3. (q - 1) * o = o * q - o
        BY <1>1
    <2>4. (i - 1) * o \in Int /\ (q - 1) * o \in Int /\ o * q \in Int
        BY <1>1, <2>1
    <2>. QED
        BY <1>1, <2>2, <2>3, <2>4
<1>5. r <= q * o
    BY <1>1
<1>. QED
    BY <1>1, <1>2, <1>3, <1>4, <1>5 DEF q

LEMMA MinOfTwo ==
    ASSUME NEW a \in Int, NEW b \in Int
    PROVE  Min({a, b}) \in {a, b} /\ Min({a, b}) <= a /\ Min({a, b}) <= b
<1> DEFINE P(x) == \A y \in {a, b} : x <= y
<1>1. Min({a, b}) = CHOOSE x \in {a, b} : P(x)
    BY DEF Min
<1>2. \E x \in {a, b} : P(x)
    <2>1. CASE a <= b
        BY <2>1
    <2>2. CASE ~(a <= b)
        BY <2>2
    <2>. QED
        BY <2>1, <2>2
<1>. HIDE DEF P
<1>3. Min({a, b}) \in {a, b} /\ P(Min({a, b}))
    BY <1>1, <1>2
<1>. QED
    BY <1>3 DEF P

(* What an item takes of the page and of the overflow pages. *)
LEMMA RemainIs ==
    ASSUME NEW d \in Nat \ {0}
    PROVE  /\ SizeRequired(d) \in 9 .. MaxBlock
           /\ OvSize \in Nat /\ OvSize > 0 /\ Remain(d) \in Nat /\ OvPages(d) \in Nat
           /\ Overflows(d) => OvPages(d) >= 1
           /\ \A i \in 1 .. OvPages(d) : Remain(d) - (i - 1) * OvSize \in Nat \ {0}
           /\ ~Overflows(d) => OvPages(d) = 0
           /\ Remain(d) <= OvPages(d) * OvSize
<1>1. d \in Nat /\ d > 0
    OBVIOUS
<1>2. OvSize \in Nat \ {0}
    BY Numbers DEF OvSize
<1>3. Overflows(d) \in BOOLEAN
    BY DEF Overflows
<1>4. SizeRequired(d) \in 9 .. MaxBlock
    BY <1>1, Numbers DEF SizeRequired, Overflows
<1>5. Remain(d) \in Nat /\ (Overflows(d) => Remain(d) > 0)
    BY <1>1, Numbers DEF Remain, Overflows
<1>6. OvPages(d) = (Remain(d) + OvSize - 1) \div OvSize
    BY DEF OvPages
<1>7. /\ OvPages(d) \in Nat
      /\ Remain(d) > 0 => OvPages(d) >= 1
      /\ \A i \in 1 .. OvPages(d) : Remain(d) - (i - 1) * OvSize \in Nat \ {0}
      /\ Remain(d) <= OvPages(d) * OvSize
    BY <1>2, <1>5, <1>6, CeilDiv
<1>8. ~Overflows(d) => OvPages(d) = 0
    <2>. SUFFICES ASSUME Remain(d) = 0, OvPages(d) >= 1 PROVE FALSE
        BY <1>7 DEF Remain
    <2>1. 1 \in 1 .. OvPages(d)
        BY <1>7
    <2>2. Remain(d) - (1 - 1) * OvSize \in Nat \ {0}
        BY <1>7, <2>1
    <2>. QED
        BY <1>2, <2>2
<1>. QED
    BY <1>2, <1>3, <1>4, <1>5, <1>7, <1>8

LEMMA FreshIs ==
    ASSUME NEW d \in Nat \ {0}, OvPages(d) <= Cardinality(FreeOv)
    PROVE  /\ Fresh(d) \in [1 .. OvPages(d) -> FreeOv]
           /\ \A i, j \in 1 .. OvPages(d) : Fresh(d)[i] = Fresh(d)[j] => i = j
<1>1. IsFiniteSet(FreeOv)
    <2>1. IsFiniteSet(1 .. MaxOv)
        BY FS_Interval, Numbers
    <2>2. FreeOv \in SUBSET (1 .. MaxOv)
        BY DEF FreeOv
    <2>. QED
        BY <2>1, <2>2, FS_Subset
<1>2. Cardinality(FreeOv) \in Nat /\ ExistsBijection(1 .. Cardinality(FreeOv), FreeOv)
    BY <1>1, FS_CardinalityType
<1>3. PICK g : g \in Bijection(1 .. Cardinality(FreeOv), FreeOv)
    BY <1>2 DEF ExistsBijection
<1>4. g \in [1 .. Cardinality(FreeOv) -> FreeOv] /\ IsInjective(g)
    BY <1>3 DEF Bijection, Injection
<1>5. OvPages(d) \in Nat
    BY RemainIs
<1>6. \A i \in 1 .. OvPages(d) : i \in 1 .. Cardinality(FreeOv)
    BY <1>2, <1>5
<1> DEFINE h == [i \in 1 .. OvPages(d) |-> g[i]]
<1>7. h \in [1 .. OvPages(d) -> FreeOv]
    BY <1>4, <1>6
<1>8. IsInjective(h)
    BY <1>4, <1>6 DEF IsInjective
<1>9. h \in Injection(1 .. OvPages(d), FreeOv)
    BY <1>7, <1>8 DEF Injection
<1>10. Fresh(d) \in Injection(1 .. OvPages(d), FreeOv)
    BY <1>9 DEF Fresh
<1>11. Fresh(d) \in [1 .. OvPages(d) -> FreeOv] /\ IsInjective(Fresh(d))
    BY <1>10 DEF Injection
<1>. QED
    BY <1>11 DEF IsInjective

(* Chains are written and freed within the overflow pages. *)
LEMMA ChainTypes ==
    ASSUME NEW d \in Nat \ {0}, OvPages(d) <= Cardinality(FreeOv), ov \in OvType
    PROVE  WithChain(d) \in OvType /\ FirstOv(d) \in 0 .. MaxOv
<1> DEFINE n == OvPages(d)
           s == Fresh(d)
<1>1. /\ n \in Nat /\ OvSize \in Nat /\ Remain(d) \in Nat
      /\ Overflows(d) => n >= 1
      /\ \A i \in 1 .. n : Remain(d) - (i - 1) * OvSize \in Nat
    BY RemainIs
<1>2. s \in [1 .. n -> FreeOv]
    BY FreshIs
<1>3. FreeOv \subseteq 1 .. MaxOv /\ MaxOv \in Nat
    BY Numbers DEF FreeOv
<1>4. \A i \in 1 .. n : s[i] \in 0 .. MaxOv
    <2>1. \A i \in 1 .. n : s[i] \in FreeOv
        BY <1>2
    <2>2. \A o \in FreeOv : o \in 0 .. MaxOv
        BY <1>3
    <2>. HIDE DEF n, s
    <2>. QED
        BY <2>1, <2>2
<1>5. FirstOv(d) \in 0 .. MaxOv
    <2>1. CASE Overflows(d)
        <3>1. 1 \in 1 .. n
            BY <1>1, <2>1
        <3>. QED
            BY <3>1, <2>1, <1>4 DEF FirstOv
    <2>2. CASE ~Overflows(d)
        BY <2>2, Numbers DEF FirstOv
    <2>. QED
        BY <2>1, <2>2
<1> DEFINE at(o) == CHOOSE j \in 1 .. n : s[j] = o
           size(i) == Min({OvSize, Remain(d) - (i - 1) * OvSize})
           next(i) == IF i < n THEN s[i + 1] ELSE 0
           b(o) == [size |-> size(at(o)), next |-> next(at(o))]
           T == [size : 0 .. OvSize, next : 0 .. MaxOv]
<1>6. \A i \in 1 .. n : size(i) \in 0 .. OvSize
    <2>. SUFFICES ASSUME NEW i \in 1 .. n PROVE size(i) \in 0 .. OvSize
        OBVIOUS
    <2> DEFINE r == Remain(d) - (i - 1) * OvSize
    <2>1. r \in Nat
        BY <1>1
    <2>. HIDE DEF r
    <2>2. Min({OvSize, r}) \in {OvSize, r} /\ Min({OvSize, r}) <= OvSize
        <3>1. OvSize \in Int /\ r \in Int
            BY <2>1, <1>1
        <3>. QED
            BY <3>1, MinOfTwo
    <2>3. Min({OvSize, r}) \in 0 .. OvSize
        BY <2>1, <2>2, <1>1
    <2>. QED
        BY <2>3 DEF r
<1>7. \A i \in 1 .. n : next(i) \in 0 .. MaxOv
    <2>. SUFFICES ASSUME NEW i \in 1 .. n PROVE next(i) \in 0 .. MaxOv
        OBVIOUS
    <2>1. i < n => i + 1 \in 1 .. n
        BY <1>1
    <2>. HIDE DEF n, s
    <2>2. 0 \in 0 .. MaxOv
        BY Numbers
    <2>. QED
        BY <2>1, <2>2, <1>4
<1>8. \A o \in Range(s) : at(o) \in 1 .. n
    <2>. SUFFICES ASSUME NEW o \in Range(s) PROVE at(o) \in 1 .. n
        OBVIOUS
    <2>1. \E j \in 1 .. n : s[j] = o
        BY <1>2 DEF Range
    <2>. HIDE DEF n, s
    <2>. QED
        BY <2>1
<1>9. \A o \in Range(s) : b(o) \in T
    <2>. HIDE DEF at, size, next, n
    <2>. QED
        BY <1>6, <1>7, <1>8
<1>10. DOMAIN ov = 1 .. MaxOv /\ \A o \in 1 .. MaxOv : ov[o] \in T
    BY DEF OvType
<1>11. WithChain(d) = [o \in 1 .. MaxOv |-> IF o \in Range(s) THEN b(o) ELSE ov[o]]
    BY <1>10 DEF WithChain
<1>. HIDE DEF b, s, T
<1>12. WithChain(d) \in [1 .. MaxOv -> T]
    BY <1>9, <1>10, <1>11
<1>. QED
    BY <1>5, <1>12 DEF OvType, T

LEMMA FreedType ==
    ASSUME NEW first, ov \in OvType
    PROVE  ChainFreed(first) \in OvType
<1>1. DOMAIN ov = 1 .. MaxOv
    BY DEF OvType
<1>2. Unused \in [size : 0 .. OvSize, next : 0 .. MaxOv]
    BY Numbers DEF Unused, OvSize
<1>3. \A o \in 1 .. MaxOv : ov[o] \in [size : 0 .. OvSize, next : 0 .. MaxOv]
    BY DEF OvType
<1>. QED
    BY <1>1, <1>2, <1>3 DEF ChainFreed, OvType
-----------------------------------------------------------------------------
(* The inductive invariant: pages are laid out, and their links make a     *)
(* list, of which rank tells that it does not return.                      *)
LiveOf(g) == {p \in 1 .. MaxPage : g[p] # NoPage}

Ranked(g, rank) ==
    /\ rank \in [1 .. MaxPage -> Int]
    /\ \A p \in LiveOf(g) : g[p].next # 0 => rank[p] < rank[g[p].next]

Linked(g) ==
    /\ \A p \in LiveOf(g) : /\ g[p].next \in LiveOf(g) \cup {0}
                            /\ g[p].prev \in LiveOf(g) \cup {0}
    /\ \A p \in LiveOf(g) : g[p].next # 0 => g[g[p].next].prev = p
    /\ \A p \in LiveOf(g) : g[p].prev # 0 => g[g[p].prev].next = p
    /\ \E rank : Ranked(g, rank)

Pages == [1 .. MaxPage -> Page \cup {NoPage}]

IInv ==
    /\ data \in Trees
    /\ page \in Pages
    /\ \A p \in Live : PageOK(page[p])
    /\ Linked(page)
    /\ ov \in OvType

LEMMA NoPageIsNone == NoPage \notin Page
<1>1. DOMAIN NoPage = {"slots"}
    BY DEF NoPage
<1>2. \A p \in Page : DOMAIN p = {"slots", "free", "freeSize", "bottom", "next", "prev"}
    BY DEF Page
<1>3. "free" # "slots"
    OBVIOUS
<1>. QED
    BY <1>1, <1>2, <1>3

LEMMA LiveIs ==
    /\ Live = LiveOf(page)
    /\ Live' = LiveOf(page')
    /\ 0 \notin Live
    /\ Live \subseteq 1 .. MaxPage
BY DEF Live, LiveOf

(* A page stays laid out whatever its links are. *)
LEMMA Relinked ==
    ASSUME NEW p, PageOK(p), NEW q, q \in Page, q.slots = p.slots, q.free = p.free,
           q.freeSize = p.freeSize, q.bottom = p.bottom
    PROVE  PageOK(q)
BY DEF PageOK, Exact

LEMMA NewPageOK == PageOK(NewPage) /\ NewPage.next = 0 /\ NewPage.prev = 0
<1>1. <<>> \in Seq(Block) /\ <<>> \in Seq(Hole) /\ Len(<<>>) = 0
    OBVIOUS
<1>2. PageSize - HeaderSize \in Nat /\ PageSize - HeaderSize + 20 = PageSize
    BY Numbers
<1>3. NewPage \in Page
    BY <1>1, <1>2 DEF NewPage, Page
<1>4. /\ NewPage.slots = <<>> /\ NewPage.free = <<>> /\ NewPage.bottom = 0
      /\ NewPage.freeSize = PageSize - HeaderSize /\ NewPage.next = 0 /\ NewPage.prev = 0
    BY DEF NewPage
<1>5. SizesOf(<<>>) = 0
    <2>1. PICK f : Runs(<<>>, f)
        BY Runs1, <1>1 DEF Sized
    <2>2. SizesOf(<<>>) = f[0]
        BY <2>1, <1>1, RunsSum DEF Sized
    <2>. QED
        BY <2>1, <2>2 DEF Runs, Running
<1>6. Exact(NewPage)
    BY <1>1, <1>2, <1>4, <1>5, Numbers DEF Exact
<1>7. Packed(<<>>, <<>>, PageSize - 0)
    BY <1>1 DEF Packed
<1>. QED
    BY <1>1, <1>3, <1>4, <1>6, <1>7, Numbers DEF PageOK

LEMMA InitIInv == Init => IInv
<1>. SUFFICES ASSUME Init PROVE IInv
    OBVIOUS
<1>1. /\ data \in Trees /\ MaxPage \in Nat
      /\ page = [p \in 1 .. MaxPage |-> IF p = 1 THEN NewPage ELSE NoPage]
      /\ ov = [o \in 1 .. MaxOv |-> Unused]
    BY Numbers DEF Init
<1>2. NewPage \in Page /\ NewPage # NoPage
    BY NewPageOK, NoPageIsNone DEF PageOK
<1>3. page \in Pages
    BY <1>1, <1>2 DEF Pages
<1>4. \A p \in LiveOf(page) : p = 1 /\ page[p] = NewPage
    BY <1>1 DEF LiveOf
<1>5. \A p \in Live : PageOK(page[p])
    BY <1>4, NewPageOK, LiveIs
<1>6. Linked(page)
    <2>1. \A p \in LiveOf(page) : page[p].next = 0 /\ page[p].prev = 0
        BY <1>4, NewPageOK
    <2>2. Ranked(page, [p \in 1 .. MaxPage |-> 0])
        BY <2>1 DEF Ranked
    <2>. QED
        BY <2>1, <2>2 DEF Linked
<1>7. ov \in OvType
    <2>1. Unused \in [size : 0 .. OvSize, next : 0 .. MaxOv]
        BY Numbers DEF Unused, OvSize
    <2>. QED
        BY <2>1, <1>1 DEF OvType
<1>. QED
    BY <1>1, <1>3, <1>5, <1>6, <1>7 DEF IInv

(* Steps that leave the links as they are. *)
LEMMA SameLinks ==
    ASSUME NEW g, NEW h, Linked(g),
           \A p \in 1 .. MaxPage :
              \/ h[p] = g[p]
              \/ /\ p \in LiveOf(g) /\ h[p] # NoPage
                 /\ h[p].next = g[p].next /\ h[p].prev = g[p].prev
    PROVE  LiveOf(h) = LiveOf(g) /\ Linked(h)
<1>1. LiveOf(h) = LiveOf(g)
    BY DEF LiveOf
<1>2. \A p \in LiveOf(g) : h[p].next = g[p].next /\ h[p].prev = g[p].prev
    BY DEF LiveOf
<1>3. PICK rank : Ranked(g, rank)
    BY DEF Linked
<1>4. Ranked(h, rank)
    BY <1>1, <1>2, <1>3 DEF Ranked
<1>5. \A p \in LiveOf(g) : /\ g[p].next \in LiveOf(g) \cup {0}
                           /\ g[p].prev \in LiveOf(g) \cup {0}
    BY DEF Linked
<1>6. \A p \in LiveOf(g) : g[p].next # 0 => h[h[p].next].prev = p
    BY <1>2, <1>5 DEF Linked
<1>7. \A p \in LiveOf(g) : g[p].prev # 0 => h[h[p].prev].next = p
    BY <1>2, <1>5 DEF Linked
<1>. QED
    BY <1>1, <1>2, <1>4, <1>5, <1>6, <1>7 DEF Linked

LEMMA InPlace ==
    ASSUME IInv, page' = [p \in 1 .. MaxPage |-> page'[p]],
           \A p \in 1 .. MaxPage :
              \/ page'[p] = page[p]
              \/ /\ p \in Live /\ PageOK(page'[p])
                 /\ page'[p].next = page[p].next /\ page'[p].prev = page[p].prev,
           ov' \in OvType, data' = data
    PROVE  IInv'
<1>1. page \in Pages /\ data \in Trees /\ Linked(page) /\ \A p \in Live : PageOK(page[p])
    BY DEF IInv
<1>2. \A q : PageOK(q) => q \in Page /\ q # NoPage
    BY NoPageIsNone DEF PageOK
<1>3. \A p \in 1 .. MaxPage : page[p] \in Page \cup {NoPage}
    BY <1>1 DEF Pages
<1>4. \A p \in 1 .. MaxPage : page'[p] \in Page \cup {NoPage}
    BY <1>2, <1>3
<1>5. page' \in Pages
    BY <1>4 DEF Pages
<1>6. LiveOf(page') = LiveOf(page) /\ Linked(page')
    <2>1. \A p \in 1 .. MaxPage :
              \/ page'[p] = page[p]
              \/ /\ p \in LiveOf(page) /\ page'[p] # NoPage
                 /\ page'[p].next = page[p].next /\ page'[p].prev = page[p].prev
        BY <1>2, LiveIs
    <2>. QED
        BY <2>1, <1>1, SameLinks
<1>7. \A p \in Live' : PageOK(page'[p])
    BY <1>1, <1>6, LiveIs
<1>. QED
    BY <1>1, <1>5, <1>6, <1>7 DEF IInv, OvType

(* Blocks of a page and what stays free in it. *)
LEMMA Free ==
    ASSUME NEW p, PageOK(p)
    PROVE  /\ p.freeSize \in Nat /\ Len(p.slots) \in Nat /\ SizesOf(p.slots) \in Nat
           /\ p.bottom \in Nat /\ p.next \in Nat /\ p.prev \in Nat
           /\ p.freeSize + SizesOf(p.slots) + 2 * Len(p.slots) + 20 = PageSize
           /\ p.bottom + 2 * Len(p.slots) + 20 <= PageSize
           /\ p.slots \in Seq(Block) /\ p.free \in Seq(Hole)
           /\ Sized(p.slots) /\ DOMAIN p.slots = 1 .. Len(p.slots)
<1>1. p \in Page /\ Exact(p)
    BY DEF PageOK
<1>2. /\ p.slots \in Seq(Block) /\ p.free \in Seq(Hole) /\ p.freeSize \in Nat
      /\ p.bottom \in Nat /\ p.next \in Nat /\ p.prev \in Nat
    BY <1>1 DEF Page
<1>3. Len(p.slots) \in Nat /\ Sized(p.slots) /\ DOMAIN p.slots = 1 .. Len(p.slots)
    BY <1>2, Blocks9
<1>4. SizesOf(p.slots) \in Nat
    BY <1>3, SumNat
<1>. QED
    BY <1>1, <1>2, <1>3, <1>4, Numbers DEF PageOK, Exact

(* A page of few blocks has room for two of them and their slots. *)
LEMMA FewBlocks ==
    ASSUME NEW p, PageOK(p)
    PROVE  /\ Len(p.slots) <= 1 => p.freeSize >= PageSize - 22 - MaxBlock
           /\ Len(p.slots) <= 2 => p.freeSize >= PageSize - 24 - 2 * MaxBlock
           /\ Len(p.slots) = 0 => p.freeSize = PageSize - 20
<1>1. PICK f : Runs(p.slots, f)
    BY Free, Runs1
<1>2. SizesOf(p.slots) = f[Len(p.slots)]
    BY <1>1, Free, RunsSum
<1>3. \A n \in 1 .. Len(p.slots) : p.slots[n].size \in Nat /\ p.slots[n].size <= MaxBlock
    BY Free, Blocks9
<1>4. /\ f[0] = 0
      /\ \A n \in 1 .. Len(p.slots) : f[n] = f[n - 1] + p.slots[n].size
    <2>1. \A n \in 1 .. Len(p.slots) : n \in All
        BY Free DEF All
    <2>2. Running(p.slots, All, f)
        BY <1>1 DEF Runs
    <2>. QED
        BY <2>1, <2>2 DEF Running
<1>5. Len(p.slots) >= 1 => f[1] <= MaxBlock /\ f[1] \in Nat
    <2>1. Len(p.slots) >= 1 => 1 \in 1 .. Len(p.slots) /\ 1 - 1 = 0
        BY Free
    <2>2. Len(p.slots) >= 1 => f[1] = f[0] + p.slots[1].size
        BY <2>1, <1>4
    <2>3. Len(p.slots) >= 1 => p.slots[1].size \in Nat /\ p.slots[1].size <= MaxBlock
        BY <2>1, <1>3
    <2>. QED
        BY <2>2, <2>3, <1>4
<1>6. Len(p.slots) >= 2 => f[2] <= 2 * MaxBlock /\ f[2] \in Nat
    <2>1. Len(p.slots) >= 2 => 2 \in 1 .. Len(p.slots) /\ 2 - 1 = 1
        BY Free
    <2>2. Len(p.slots) >= 2 => f[2] = f[1] + p.slots[2].size
        BY <2>1, <1>4
    <2>3. Len(p.slots) >= 2 => p.slots[2].size \in Nat /\ p.slots[2].size <= MaxBlock
        BY <2>1, <1>3
    <2>4. Len(p.slots) >= 2 => Len(p.slots) >= 1
        BY Free
    <2>5. ASSUME Len(p.slots) >= 2 PROVE f[2] <= 2 * MaxBlock /\ f[2] \in Nat
        <3>1. PICK x \in Nat, y \in Nat, m \in Nat :
                 x = f[1] /\ y = p.slots[2].size /\ m = MaxBlock
            BY <1>5, <2>3, <2>4, <2>5, Numbers
        <3>2. f[2] = x + y /\ x <= m /\ y <= m
            BY <1>5, <2>2, <2>3, <2>4, <2>5, <3>1
        <3>3. x + y <= 2 * m /\ x + y \in Nat
            BY <3>2
        <3>. QED
            BY <3>1, <3>2, <3>3
    <2>. QED
        BY <2>5
<1>7. PICK l \in Nat, z \in Nat, fr \in Nat : l = Len(p.slots) /\ z = SizesOf(p.slots) /\ fr = p.freeSize
    BY Free
<1>8. fr + z + 2 * l + 20 = PageSize
    BY <1>7, Free
<1>9. /\ l = 0 => z = 0
      /\ l = 1 => z <= MaxBlock
      /\ l = 2 => z <= 2 * MaxBlock
    <2>1. z = f[l]
        BY <1>2, <1>7
    <2>2. l = 1 => f[1] <= MaxBlock
        BY <1>5, <1>7
    <2>3. l = 2 => f[2] <= 2 * MaxBlock
        BY <1>6, <1>7
    <2>. QED
        BY <2>1, <2>2, <2>3, <1>4
<1>10. l <= 2 => l = 0 \/ l = 1 \/ l = 2
    OBVIOUS
<1>11. /\ l <= 1 => fr >= PageSize - 22 - MaxBlock
       /\ l <= 2 => fr >= PageSize - 24 - 2 * MaxBlock
       /\ l = 0 => fr = PageSize - 20
    BY <1>8, <1>9, <1>10, Numbers
<1>. QED
    BY <1>7, <1>11

(* A page that underflows, and one that cannot lend. *)
LEMMA UnderflowRoom ==
    ASSUME NEW p, PageOK(p), Underflow(p)
    PROVE  4 * p.freeSize + 68 >= 3 * PageSize
<1>1. p.freeSize \in Nat /\ Len(p.slots) \in Nat
    BY Free
<1>2. p.freeSize > FreeMax \/ Len(p.slots) <= 1
    BY <1>1, Numbers DEF Underflow
<1>3. CASE p.freeSize > FreeMax
    <2>1. PICK fr \in Nat : fr = p.freeSize
        BY <1>1
    <2>2. fr > FreeMax
        BY <2>1, <1>3
    <2>3. 4 * fr + 68 >= 3 * PageSize
        BY <2>2, Numbers
    <2>. QED
        BY <2>1, <2>3
<1>4. CASE Len(p.slots) <= 1
    <2>1. PICK fr \in Nat : fr = p.freeSize
        BY <1>1
    <2>2. fr >= PageSize - 22 - MaxBlock
        BY <2>1, <1>4, FewBlocks
    <2>3. 4 * fr + 68 >= 3 * PageSize
        BY <2>2, Numbers
    <2>. QED
        BY <2>1, <2>3
<1>. QED
    BY <1>2, <1>3, <1>4

LEMMA NoLendRoom ==
    ASSUME NEW p, PageOK(p), NEW pos, p.slots # <<>> => pos \in 1 .. Len(p.slots),
           ~CanLend(p, pos)
    PROVE  2 * p.freeSize + 28 >= PageSize
<1>1. p.freeSize \in Nat /\ Len(p.slots) \in Nat
    BY Free
<1>2. PICK fr \in Nat, l \in Nat : fr = p.freeSize /\ l = Len(p.slots)
    BY <1>1
<1>3. CASE l <= 2
    <2>1. fr >= PageSize - 24 - 2 * MaxBlock
        BY <1>2, <1>3, FewBlocks
    <2>2. 2 * fr + 28 >= PageSize
        BY <2>1, Numbers
    <2>. QED
        BY <1>2, <2>2
<1>4. CASE ~(l <= 2)
    <2>1. p.slots # <<>>
        BY <1>4, <1>2
    <2>2. UnderflowIfRemove(p, pos) /\ pos \in 1 .. Len(p.slots)
        BY <2>1 DEF CanLend
    <2>3. p.slots[pos].size \in Nat
        BY <2>2, Free, Blocks9
    <2>4. PICK z \in Nat : z = p.slots[pos].size
        BY <2>3
    <2>5. fr - z - 2 > FreeMax \/ l - 1 < 2
        BY <2>2, <2>4, <1>2, Numbers DEF UnderflowIfRemove
    <2>6. 2 * fr + 28 >= PageSize
        BY SMTT(40), <2>5, <1>4, Numbers
    <2>. QED
        BY <1>2, <2>6
<1>. QED
    BY <1>3, <1>4
(* What leaves the links alone: a block put into one page, taken out of    *)
(* one, moved from one to the other.                                       *)
LEMMA InsertStep ==
    ASSUME IInv, NEW p \in Live,
           NEW pos \in Places(Len(page[p].slots)) \cap 1 .. Len(page[p].slots) + 1,
           NEW d \in data, Insert(p, pos, d)
    PROVE  IInv'
<1> DEFINE b == [size |-> SizeRequired(d), ov |-> FirstOv(d)]
           q == Inserted(page[p], pos, b)
<1>1. PageOK(page[p]) /\ data \in Trees /\ page \in Pages /\ ov \in OvType
    BY DEF IInv
<1>2. d \in Nat \ {0}
    BY <1>1, VariantAssumption DEF VariantAssumption
<1>3. /\ OvPages(d) <= Cardinality(FreeOv) /\ Accepts(page[p], SizeRequired(d))
      /\ page' = [page EXCEPT ![p] = q] /\ ov' = WithChain(d) /\ data' = data
    BY DEF Insert
<1>4. SizeRequired(d) \in 9 .. MaxBlock /\ FirstOv(d) \in 0 .. MaxOv /\ ov' \in OvType
    BY <1>1, <1>2, <1>3, RemainIs, ChainTypes
<1>5. b.size = SizeRequired(d) /\ b.ov = FirstOv(d)
    OBVIOUS
<1>6. Room(page[p], b.size)
    BY <1>1, <1>3, <1>4, <1>5 DEF Room
<1>7. pos \in 1 .. Len(page[p].slots) + 1
    OBVIOUS
<1>8. PageOK(q) /\ q.next = page[p].next /\ q.prev = page[p].prev
    <2>1. b.ov \in 0 .. MaxOv
        BY <1>4, <1>5
    <2>. HIDE DEF b
    <2>. QED
        BY <1>6, <1>7, <2>1, InsertedKeeps
<1>. HIDE DEF q
<1>9. DOMAIN page = 1 .. MaxPage /\ p \in 1 .. MaxPage
    BY <1>1, LiveIs DEF Pages
<1>. QED
    BY <1>3, <1>4, <1>8, <1>9, InPlace

LEMMA EraseStep ==
    ASSUME IInv, NEW p \in Live, NEW pos \in DOMAIN page[p].slots, Erase(p, pos)
    PROVE  IInv'
<1> DEFINE q == Erased(page[p], pos)
<1>1. PageOK(page[p]) /\ page \in Pages /\ ov \in OvType
    BY DEF IInv
<1>2. page' = [page EXCEPT ![p] = q] /\ ov' \in OvType /\ data' = data
    BY <1>1, FreedType DEF Erase
<1>3. pos \in 1 .. Len(page[p].slots)
    BY <1>1, Free
<1>4. PageOK(q) /\ q.next = page[p].next /\ q.prev = page[p].prev
    BY <1>1, <1>3, ErasedKeeps
<1>. HIDE DEF q
<1>5. DOMAIN page = 1 .. MaxPage /\ p \in 1 .. MaxPage
    BY <1>1, LiveIs DEF Pages
<1>. QED
    BY <1>2, <1>4, <1>5, InPlace

LEMMA MoveStep ==
    ASSUME IInv, NEW p \in Live, NEW q \in Live, p # q, Underflow(page[p]),
           NEW src \in 1 .. Len(page[q].slots), NEW dest \in 1 .. Len(page[p].slots) + 1,
           MoveFrom(q, src, p, dest)
    PROVE  IInv'
<1> DEFINE b == page[q].slots[src]
           c == [size |-> b.size, ov |-> b.ov]
           u == Inserted(page[p], dest, c)
           v == Erased(page[q], src)
<1>1. PageOK(page[p]) /\ PageOK(page[q]) /\ page \in Pages /\ ov \in OvType
    BY DEF IInv
<1>2. page' = [page EXCEPT ![p] = u, ![q] = v] /\ ov' = ov /\ data' = data
    BY DEF MoveFrom
<1>3. b.size \in 9 .. MaxBlock /\ b.ov \in 0 .. MaxOv
    <2>1. b \in Block
        BY <1>1, Free, Blocks9
    <2>. HIDE DEF b
    <2>. QED
        BY <2>1, Numbers DEF Block
<1>4. Accepts(page[p], b.size)
    <2>1. 4 * page[p].freeSize + 68 >= 3 * PageSize /\ page[p].freeSize \in Nat
        BY <1>1, UnderflowRoom, Free
    <2>2. PICK fr \in Nat, z \in 9 .. MaxBlock : fr = page[p].freeSize /\ z = b.size
        BY <2>1, <1>3
    <2>3. 4 * fr + 68 >= 3 * PageSize
        BY <2>1, <2>2
    <2>4. fr >= z + 2
        BY <2>3, Numbers
    <2>. QED
        BY <2>2, <2>4, Numbers DEF Accepts
<1>5. PageOK(u) /\ u.next = page[p].next /\ u.prev = page[p].prev
    <2>1. c.size = b.size /\ c.ov = b.ov
        OBVIOUS
    <2>2. Room(page[p], c.size) /\ c.ov \in 0 .. MaxOv
        BY <1>1, <1>3, <1>4, <2>1 DEF Room
    <2>. HIDE DEF c
    <2>. QED
        BY <2>2, InsertedKeeps
<1>6. PageOK(v) /\ v.next = page[q].next /\ v.prev = page[q].prev
    BY <1>1, ErasedKeeps
<1>. HIDE DEF u, v
<1>7. DOMAIN page = 1 .. MaxPage /\ p \in 1 .. MaxPage /\ q \in 1 .. MaxPage
    BY <1>1, LiveIs DEF Pages
<1>8. \A r \in 1 .. MaxPage :
        \/ page'[r] = page[r]
        \/ /\ r \in Live /\ PageOK(page'[r])
           /\ page'[r].next = page[r].next /\ page'[r].prev = page[r].prev
    <2>1. page'[p] = u /\ page'[q] = v
          /\ \A r \in 1 .. MaxPage : r # p /\ r # q => page'[r] = page[r]
        BY <1>2, <1>7
    <2>. QED
        BY <2>1, <1>5, <1>6
<1>. QED
    BY <1>1, <1>2, <1>7, <1>8, InPlace

(* A neighbour is another page. *)
LEMMA Neighbours ==
    ASSUME IInv, NEW p \in Live
    PROVE  /\ page[p].next # 0 =>
                  /\ page[p].next \in Live /\ page[p].next # p
                  /\ page[page[p].next].prev = p
           /\ page[p].prev # 0 =>
                  /\ page[p].prev \in Live /\ page[p].prev # p
                  /\ page[page[p].prev].next = p
<1>1. Linked(page) /\ p \in LiveOf(page)
    BY LiveIs DEF IInv
<1>2. PICK rank : Ranked(page, rank)
    BY <1>1 DEF Linked
<1>3. rank \in [1 .. MaxPage -> Int] /\ p \in 1 .. MaxPage
    BY <1>2, LiveIs DEF Ranked
<1>4. rank[p] \in Int
    BY <1>3
<1>5. page[p].next # 0 => rank[p] < rank[page[p].next]
    BY <1>1, <1>2 DEF Ranked
<1>6. page[p].next # 0 => page[p].next # p
    BY <1>4, <1>5
<1>7. page[p].prev # 0 => page[page[p].prev].next = p /\ page[p].prev \in Live
    BY <1>1, LiveIs DEF Linked
<1>8. p # 0
    BY LiveIs
<1>9. page[p].prev # 0 => page[p].prev # p
    BY <1>6, <1>7, <1>8
<1>. QED
    BY <1>1, <1>6, <1>7, <1>9, LiveIs DEF Linked

(* What a page takes from a neighbour. *)
Lends(q, src, p, dest) ==
    /\ q \in Live /\ q # p /\ q # 0 /\ Underflow(page[p])
    /\ src \in 1 .. Len(page[q].slots) /\ dest \in 1 .. Len(page[p].slots) + 1
    /\ MoveFrom(q, src, p, dest)

LEMMA Takes ==
    ASSUME IInv, NEW p \in Live
    PROVE  /\ TakeNext(p) => Lends(page[p].next, 1, p, Len(page[p].slots) + 1)
           /\ TakePrev(p) => Lends(page[p].prev, Len(page[page[p].prev].slots), p, 1)
<1>1. \A r \in Live : PageOK(page[r])
    BY DEF IInv
<1>2. PICK n \in Nat : n = Len(page[p].slots)
    BY <1>1, Free
<1>3. \A r \in Live : page[r].slots # <<>> => Len(page[r].slots) \in Nat \ {0}
    BY <1>1, Free, EmptySeq
<1>4. ASSUME TakeNext(p) PROVE Lends(page[p].next, 1, p, Len(page[p].slots) + 1)
    <2>1. PICK q : q = page[p].next
        OBVIOUS
    <2>2. /\ q # 0 /\ Underflow(page[p]) /\ page[q].slots # <<>>
          /\ MoveFrom(q, 1, p, Len(page[p].slots) + 1)
        BY <1>4, <2>1 DEF TakeNext, CanLend
    <2>3. q \in Live /\ q # p
        BY <2>1, <2>2, Neighbours
    <2>4. 1 \in 1 .. Len(page[q].slots) /\ n + 1 \in 1 .. n + 1
        BY <1>3, <2>2, <2>3
    <2>. QED
        BY <1>2, <2>1, <2>2, <2>3, <2>4 DEF Lends
<1>5. ASSUME TakePrev(p) PROVE Lends(page[p].prev, Len(page[page[p].prev].slots), p, 1)
    <2>1. PICK q : q = page[p].prev
        OBVIOUS
    <2>2. /\ q # 0 /\ Underflow(page[p]) /\ page[q].slots # <<>>
          /\ MoveFrom(q, Len(page[q].slots), p, 1)
        BY <1>5, <2>1 DEF TakePrev, CanLend
    <2>3. q \in Live /\ q # p
        BY <2>1, <2>2, Neighbours
    <2>4. Len(page[q].slots) \in 1 .. Len(page[q].slots) /\ 1 \in 1 .. n + 1
        BY <1>3, <2>2, <2>3
    <2>. QED
        BY <1>2, <2>1, <2>2, <2>3, <2>4 DEF Lends
<1>. QED
    BY <1>4, <1>5

LEMMA TakeStep ==
    ASSUME IInv, NEW p \in Live, TakeNext(p) \/ TakePrev(p)
    PROVE  IInv'
<1>1. ASSUME NEW q, NEW src, NEW dest, Lends(q, src, p, dest) PROVE IInv'
    BY <1>1, MoveStep DEF Lends
<1>. QED
    BY <1>1, Takes

(* A page is linked in behind another. *)
LEMMA LinkedIn ==
    ASSUME NEW g, NEW h, Linked(g), MaxPage \in Nat,
           NEW p \in LiveOf(g), NEW n \in 1 .. MaxPage, n \notin LiveOf(g),
           NEW nx, nx = g[p].next,
           h[n] # NoPage /\ h[n].next = nx /\ h[n].prev = p,
           h[p] # NoPage /\ h[p].next = n /\ h[p].prev = g[p].prev,
           nx # 0 => h[nx] # NoPage /\ h[nx].next = g[nx].next /\ h[nx].prev = n,
           \A r \in 1 .. MaxPage : r # p /\ r # n /\ r # nx => h[r] = g[r]
    PROVE  LiveOf(h) = LiveOf(g) \cup {n} /\ Linked(h)
<1> DEFINE L == LiveOf(g)
<1>1. L \subseteq 1 .. MaxPage /\ 0 \notin L /\ n # 0 /\ p # n /\ p # 0 /\ p \in L /\ n \notin L
    BY DEF LiveOf
<1>2. nx \in L \cup {0} /\ g[p].prev \in L \cup {0}
    BY DEF Linked
<1>3. PICK rank : Ranked(g, rank)
    BY DEF Linked
<1>4. rank \in [1 .. MaxPage -> Int] /\ (nx # 0 => rank[p] < rank[nx])
    BY <1>3 DEF Ranked
<1>5. \A r \in 1 .. MaxPage : rank[r] \in Int
    BY <1>4
<1>6. nx # p /\ nx # n
    BY <1>1, <1>2, <1>4, <1>5
<1>7. LiveOf(h) = L \cup {n}
    <2>1. \A r \in 1 .. MaxPage : h[r] # NoPage <=> r \in L \cup {n}
        <3>. TAKE r \in 1 .. MaxPage
        <3>1. r \in L <=> g[r] # NoPage
            BY DEF LiveOf
        <3>. HIDE DEF L
        <3>2. CASE r = p
            BY <3>2, <1>1
        <3>3. CASE r = n
            BY <3>3
        <3>4. CASE r = nx
            BY <3>4, <1>1, <1>2
        <3>5. CASE r # p /\ r # n /\ r # nx
            BY <3>5, <3>1
        <3>. QED
            BY <3>2, <3>3, <3>4, <3>5
    <2>. HIDE DEF L
    <2>. QED
        BY <2>1, <1>1 DEF LiveOf
<1>8. \A r \in L : /\ g[r].next \in L \cup {0} /\ g[r].prev \in L \cup {0}
                   /\ g[r].next # 0 => g[g[r].next].prev = r
                   /\ g[r].prev # 0 => g[g[r].prev].next = r
    BY DEF Linked
<1>. HIDE DEF L
<1>9. \A r \in L : r # p => h[r].next = g[r].next
    BY <1>1, <1>2
<1>10. \A r \in L : r # nx => h[r].prev = g[r].prev
    BY <1>1, <1>2
<1>11. \A r \in L : g[r].next = nx /\ nx # 0 => r = p
    BY <1>1, <1>8
<1>12. nx # 0 => g[nx].prev = p
    BY <1>1, <1>8
<1>13. \A r \in L \cup {n} : h[r].next \in L \cup {0, n} /\ h[r].prev \in L \cup {0, n}
    <2>1. \A r \in L : h[r].next \in L \cup {0, n}
        BY <1>8, <1>9
    <2>2. \A r \in L : h[r].prev \in L \cup {0, n}
        <3>1. ASSUME NEW r \in L, r = nx PROVE h[r].prev = n
            BY <3>1, <1>1
        <3>2. ASSUME NEW r \in L, r # nx PROVE h[r].prev \in L \cup {0}
            BY <3>2, <1>8, <1>10
        <3>. QED
            BY <3>1, <3>2
    <2>3. h[n].next \in L \cup {0, n} /\ h[n].prev \in L \cup {0, n}
        BY <1>1, <1>2
    <2>. QED
        BY <2>1, <2>2, <2>3
<1>14. \A r \in L \cup {n} : h[r].next # 0 => h[h[r].next].prev = r
    <2>1. ASSUME NEW r \in L, r # p, g[r].next # 0 PROVE h[h[r].next].prev = r
        <3>1. h[r].next = g[r].next /\ g[r].next \in L /\ g[r].next # nx
            BY <2>1, <1>8, <1>9, <1>11
        <3>. QED
            BY <3>1, <2>1, <1>8, <1>10
    <2>2. h[h[p].next].prev = p
        OBVIOUS
    <2>3. nx # 0 => h[h[n].next].prev = n
        OBVIOUS
    <2>. QED
        BY <2>1, <2>2, <2>3, <1>9
<1>15. \A r \in L \cup {n} : h[r].prev # 0 => h[h[r].prev].next = r
    <2>1. ASSUME NEW r \in L, r # nx, g[r].prev # 0 PROVE h[h[r].prev].next = r
        <3>1. h[r].prev = g[r].prev /\ g[r].prev \in L /\ g[g[r].prev].next = r
            BY <2>1, <1>8, <1>10
        <3>2. g[r].prev # p
            BY <3>1, <2>1
        <3>. QED
            BY <3>1, <3>2, <1>9
    <2>2. h[h[n].prev].next = n
        OBVIOUS
    <2>3. nx # 0 => h[h[nx].prev].next = nx
        OBVIOUS
    <2>4. nx = 0 => nx \notin L
        BY <1>1
    <2>. QED
        BY <2>1, <2>2, <2>3, <2>4, <1>10
<1> DEFINE up(r) == IF rank[r] > rank[p] THEN rank[r] + 1 ELSE rank[r]
           new == [r \in 1 .. MaxPage |-> IF r = n THEN rank[p] + 1 ELSE up(r)]
<1>16. \A r \in 1 .. MaxPage : up(r) \in Int
    BY <1>5
<1>17. new \in [1 .. MaxPage -> Int] /\ p \in 1 .. MaxPage
    BY <1>1, <1>5
<1>18. \A r \in L : h[r].next # 0 => new[r] < new[h[r].next]
    <2>1. new[p] = rank[p] /\ new[n] = rank[p] + 1
        BY <1>1, <1>5, <1>17
    <2>2. h[p].next # 0 => new[p] < new[h[p].next]
        BY <2>1, <1>5, <1>17
    <2>3. ASSUME NEW r \in L, r # p, h[r].next # 0 PROVE new[r] < new[h[r].next]
        <3>1. h[r].next = g[r].next /\ g[r].next \in L /\ rank[r] < rank[g[r].next]
            BY <2>3, <1>3, <1>8, <1>9 DEF Ranked, L
        <3>2. r # n /\ g[r].next # n /\ r \in 1 .. MaxPage /\ g[r].next \in 1 .. MaxPage
            BY <3>1, <1>1, <2>3 DEF L
        <3>3. new[r] = up(r) /\ new[g[r].next] = up(g[r].next)
            BY <3>2
        <3>4. rank[r] \in Int /\ rank[g[r].next] \in Int /\ rank[p] \in Int
            BY <3>2, <1>5, <1>17
        <3>5. up(r) < up(g[r].next)
            BY <3>1, <3>4
        <3>. QED
            BY <3>1, <3>3, <3>5
    <2>. QED
        BY <2>2, <2>3
<1>19. h[n].next # 0 => new[n] < new[h[n].next]
    <2>. SUFFICES ASSUME nx # 0 PROVE new[n] < new[nx]
        OBVIOUS
    <2>1. nx \in 1 .. MaxPage /\ rank[nx] \in Int /\ rank[p] \in Int /\ rank[p] < rank[nx]
        BY <1>1, <1>2, <1>4, <1>5, <1>17
    <2>2. new[n] = rank[p] + 1 /\ new[nx] = rank[nx] + 1
        BY <2>1, <1>6
    <2>. QED
        BY <2>1, <2>2
<1>20. Ranked(h, new)
    <2>. HIDE DEF new
    <2>. QED
        BY <1>7, <1>17, <1>18, <1>19 DEF Ranked
<1>. HIDE DEF new
<1>21. \A r \in LiveOf(h) : /\ h[r].next \in LiveOf(h) \cup {0}
                            /\ h[r].prev \in LiveOf(h) \cup {0}
    BY <1>7, <1>13
<1>. QED
    BY <1>7, <1>14, <1>15, <1>20, <1>21 DEF Linked, L

(* The page behind another is taken out. *)
LEMMA LinkedOut ==
    ASSUME NEW g, NEW h, Linked(g), MaxPage \in Nat,
           NEW p \in LiveOf(g), NEW q, q = g[p].next, q # 0, NEW nx, nx = g[q].next,
           h[p] # NoPage /\ h[p].next = nx /\ h[p].prev = g[p].prev,
           h[q] = NoPage,
           nx # 0 => h[nx] # NoPage /\ h[nx].next = g[nx].next /\ h[nx].prev = p,
           \A r \in 1 .. MaxPage : r # p /\ r # q /\ r # nx => h[r] = g[r]
    PROVE  LiveOf(h) = LiveOf(g) \ {q} /\ Linked(h)
<1> DEFINE L == LiveOf(g)
<1>1. L \subseteq 1 .. MaxPage /\ 0 \notin L /\ p \in L
    BY DEF LiveOf
<1>2. q \in L /\ nx \in L \cup {0}
    BY DEF Linked
<1>3. PICK rank : Ranked(g, rank)
    BY DEF Linked
<1>4. rank \in [1 .. MaxPage -> Int] /\ rank[p] < rank[q] /\ (nx # 0 => rank[q] < rank[nx])
    BY <1>2, <1>3 DEF Ranked
<1>5. \A r \in 1 .. MaxPage : rank[r] \in Int
    BY <1>4
<1>6. rank[p] \in Int /\ rank[q] \in Int /\ (nx # 0 => rank[nx] \in Int) /\ p # 0
    BY <1>1, <1>2, <1>5
<1>7. p # q /\ nx # p /\ nx # q
    BY <1>4, <1>6
<1>8. \A r \in L : /\ g[r].next \in L \cup {0} /\ g[r].prev \in L \cup {0}
                   /\ g[r].next # 0 => g[g[r].next].prev = r
                   /\ g[r].prev # 0 => g[g[r].prev].next = r
    BY DEF Linked
<1>9. LiveOf(h) = L \ {q}
    <2>1. \A r \in 1 .. MaxPage : h[r] # NoPage <=> r \in L /\ r # q
        <3>. TAKE r \in 1 .. MaxPage
        <3>1. r \in L <=> g[r] # NoPage
            BY DEF LiveOf
        <3>. HIDE DEF L
        <3>2. CASE r = p
            BY <3>2, <1>1, <1>7
        <3>3. CASE r = q
            BY <3>3
        <3>4. CASE r = nx
            BY <3>4, <1>1, <1>2, <1>7
        <3>5. CASE r # p /\ r # q /\ r # nx
            BY <3>5, <3>1
        <3>. QED
            BY <3>2, <3>3, <3>4, <3>5
    <2>. HIDE DEF L
    <2>. QED
        BY <2>1, <1>1 DEF LiveOf
<1>. HIDE DEF L
<1>10. \A r \in L : r # p /\ r # q => h[r].next = g[r].next
    BY <1>1, <1>2
<1>11. \A r \in L : r # nx /\ r # q => h[r].prev = g[r].prev
    BY <1>1, <1>2
<1>12. p \in L
    BY DEF L
<1>13. \A r \in L : /\ g[r].next = q => r = p
                    /\ g[r].next = nx /\ nx # 0 => r = q
                    /\ g[r].prev = q => r = nx
    BY <1>1, <1>2, <1>8, <1>12
<1>14. \A r \in L \ {q} : /\ h[r].next \in (L \ {q}) \cup {0}
                          /\ h[r].prev \in (L \ {q}) \cup {0}
    <2>1. ASSUME NEW r \in L, r # q PROVE h[r].next \in (L \ {q}) \cup {0}
        <3>1. r # p => h[r].next = g[r].next /\ g[r].next # q /\ g[r].next \in L \cup {0}
            BY <2>1, <1>8, <1>10, <1>13
        <3>. QED
            BY <3>1, <1>2, <1>7
    <2>2. ASSUME NEW r \in L, r # q PROVE h[r].prev \in (L \ {q}) \cup {0}
        <3>1. r # nx => h[r].prev = g[r].prev /\ g[r].prev # q /\ g[r].prev \in L \cup {0}
            BY <2>2, <1>8, <1>11, <1>13
        <3>2. r = nx => h[r].prev = p
            BY <1>1
        <3>. QED
            BY <3>1, <3>2, <1>12, <1>7
    <2>. QED
        BY <2>1, <2>2
<1>15. \A r \in L \ {q} : h[r].next # 0 => h[h[r].next].prev = r
    <2>1. ASSUME NEW r \in L, r # q, r # p, h[r].next # 0 PROVE h[h[r].next].prev = r
        <3>1. h[r].next = g[r].next /\ g[r].next \in L /\ g[r].next # q /\ g[r].next # nx
            BY <2>1, <1>8, <1>10, <1>13
        <3>. QED
            BY <3>1, <2>1, <1>8, <1>11
    <2>2. h[p].next # 0 => h[h[p].next].prev = p
        OBVIOUS
    <2>. QED
        BY <2>1, <2>2
<1>16. \A r \in L \ {q} : h[r].prev # 0 => h[h[r].prev].next = r
    <2>1. ASSUME NEW r \in L, r # q, r # nx, h[r].prev # 0 PROVE h[h[r].prev].next = r
        <3>1. h[r].prev = g[r].prev /\ g[r].prev \in L /\ g[r].prev # q /\ g[g[r].prev].next = r
            BY <2>1, <1>8, <1>11, <1>13
        <3>2. g[r].prev # p
            BY <3>1, <2>1
        <3>. QED
            BY <3>1, <3>2, <1>10
    <2>2. nx # 0 => h[h[nx].prev].next = nx
        OBVIOUS
    <2>3. nx = 0 => nx \notin L
        BY <1>1
    <2>. QED
        BY <2>1, <2>2, <2>3
<1>17. \A r \in L \ {q} : h[r].next # 0 => rank[r] < rank[h[r].next]
    <2>1. h[p].next # 0 => rank[p] < rank[h[p].next]
        BY <1>4, <1>6
    <2>2. ASSUME NEW r \in L, r # q, r # p, h[r].next # 0 PROVE rank[r] < rank[h[r].next]
        BY <2>2, <1>3, <1>10 DEF Ranked, L
    <2>. QED
        BY <2>1, <2>2
<1>18. Ranked(h, rank)
    BY <1>4, <1>9, <1>17 DEF Ranked
<1>. QED
    BY <1>9, <1>14, <1>15, <1>16, <1>18 DEF Linked, L
LEMMA MinOf ==
    ASSUME NEW S \in SUBSET Nat, S # {}
    PROVE  Min(S) \in S
<1>1. \E m \in S : \A k \in S : m <= k
    BY LeastNat
<1>2. Min(S) = CHOOSE m \in S : \A k \in S : m <= k
    BY DEF Min
<1>. QED
    BY <1>1, <1>2

(* The pages after a page is linked in or out: the one behind gets its new *)
(* neighbour.                                                              *)
LEMMA BackIs ==
    ASSUME page \in Pages, \A r \in Live : PageOK(page[r]),
           NEW nx \in Live \cup {0}, NEW x \in Nat
    PROVE  LET g == LinkedBack(page, nx, x) IN
           /\ g \in Pages
           /\ nx # 0 => /\ PageOK(g[nx]) /\ g[nx].next = page[nx].next /\ g[nx].prev = x
           /\ \A r \in 1 .. MaxPage : r # nx => g[r] = page[r]
<1> DEFINE g == LinkedBack(page, nx, x)
<1>1. DOMAIN page = 1 .. MaxPage /\ \A r \in 1 .. MaxPage : page[r] \in Page \cup {NoPage}
    BY DEF Pages
<1>2. CASE nx = 0
    <2>1. g = page
        BY <1>2 DEF LinkedBack
    <2>. QED
        BY <1>2, <2>1
<1>3. CASE nx # 0
    <2> DEFINE u == [page[nx] EXCEPT !.prev = x]
    <2>1. g = [page EXCEPT ![nx] = u]
        BY <1>3 DEF LinkedBack
    <2>2. nx \in 1 .. MaxPage /\ PageOK(page[nx]) /\ page[nx] \in Page
        BY <1>3, LiveIs DEF PageOK
    <2>3. /\ u \in Page /\ u.slots = page[nx].slots /\ u.free = page[nx].free
          /\ u.freeSize = page[nx].freeSize /\ u.bottom = page[nx].bottom
          /\ u.next = page[nx].next /\ u.prev = x
        BY <2>2 DEF Page
    <2>4. PageOK(u)
        BY <2>2, <2>3, Relinked
    <2>. HIDE DEF u
    <2>5. g \in Pages
        BY <1>1, <2>1, <2>3 DEF Pages
    <2>6. g[nx] = u /\ \A r \in 1 .. MaxPage : r # nx => g[r] = page[r]
        BY <1>1, <2>1, <2>2
    <2>. QED
        BY <2>3, <2>4, <2>5, <2>6
<1>. QED
    BY <1>2, <1>3

LEMMA BackSlots ==
    ASSUME IInv, NEW nx \in Live \cup {0}, NEW x
    PROVE  LET g == LinkedBack(page, nx, x) IN
           /\ DOMAIN g = 1 .. MaxPage
           /\ \A r \in Live : g[r].slots = page[r].slots
           /\ \A r \in 1 .. MaxPage : r \notin Live => g[r] = page[r]
<1>1. DOMAIN page = 1 .. MaxPage /\ Live \subseteq 1 .. MaxPage /\ 0 \notin Live
      /\ \A r \in Live : page[r] \in Page
    BY LiveIs DEF IInv, Pages, PageOK
<1>2. CASE nx = 0
    BY <1>1, <1>2 DEF LinkedBack
<1>3. CASE nx # 0
    <2> DEFINE u == [page[nx] EXCEPT !.prev = x]
    <2>1. LinkedBack(page, nx, x) = [page EXCEPT ![nx] = u]
        BY <1>3 DEF LinkedBack
    <2>2. nx \in Live
        BY <1>3
    <2>3. u.slots = page[nx].slots
        BY <1>1, <2>2 DEF Page
    <2>. HIDE DEF u
    <2>. QED
        BY <1>1, <2>1, <2>2, <2>3
<1>. QED
    BY <1>2, <1>3

(* The pages h after p was split: x is new.                                *)
SplitTo(h, p, x) ==
    /\ x \in 1 .. MaxPage /\ x \notin LiveOf(page)
    /\ LiveOf(h) = LiveOf(page) \cup {x} /\ h \in Pages /\ Linked(h)
    /\ \A r \in LiveOf(h) : PageOK(h[r])
    /\ h[x].next = page[p].next /\ h[x].prev = p
    /\ h[p].next = x /\ h[p].prev = page[p].prev
    /\ page[p].next # 0 => /\ h[page[p].next].next = page[page[p].next].next
                           /\ h[page[p].next].prev = x
    /\ \A r \in 1 .. MaxPage : r # p /\ r # x /\ r # page[p].next => h[r] = page[r]
    /\ \A r \in 1 .. MaxPage : r # p /\ r # x => h[r].slots = page[r].slots
    /\ h[p].slots = Lower(page[p], LowerNum(page[p])).slots
    /\ h[x].slots = Upper(page[p], LowerNum(page[p])).slots

LEMMA SplitPages ==
    ASSUME IInv, NEW p \in Live, Split(p)
    PROVE  \E x : SplitTo(page', p, x)
<1> DEFINE n == Min((1 .. MaxPage) \ Live)
           k == LowerNum(page[p])
           nx == page[p].next
           g == LinkedBack(page, nx, n)
           u == [Upper(page[p], k) EXCEPT !.next = nx, !.prev = p]
           l == [Lower(page[p], k) EXCEPT !.next = n]
           h == [g EXCEPT ![n] = u, ![p] = l]
<1>1. /\ PageOK(page[p]) /\ page \in Pages /\ Linked(page) /\ ov \in OvType /\ data \in Trees
      /\ \A r \in Live : PageOK(page[r])
    BY DEF IInv
<1>2. /\ Len(page[p].slots) >= MinNum /\ Live # 1 .. MaxPage
      /\ page' = h /\ data' = data /\ ov' = ov
    BY DEF Split
<1>3. n \in 1 .. MaxPage /\ n \notin Live /\ n \in Nat /\ p \in 1 .. MaxPage /\ p \in Nat /\ p # n
    <2>1. (1 .. MaxPage) \ Live \in SUBSET Nat /\ (1 .. MaxPage) \ Live # {}
        <3>1. Live \subseteq 1 .. MaxPage
            BY LiveIs
        <3>2. 1 .. MaxPage \subseteq Nat
            BY Numbers
        <3>. QED
            BY <3>1, <3>2, <1>2
    <2>2. n \in (1 .. MaxPage) \ Live
        BY <2>1, MinOf
    <2>. QED
        BY <2>2, LiveIs
<1>4. nx \in Live \cup {0}
    BY Neighbours
<1>. HIDE DEF n
<1>5. /\ g \in Pages
      /\ nx # 0 => PageOK(g[nx]) /\ g[nx].next = page[nx].next /\ g[nx].prev = n
      /\ \A r \in 1 .. MaxPage : r # nx => g[r] = page[r]
    <2>. HIDE DEF nx
    <2>. QED
        BY <1>1, <1>3, <1>4, BackIs
<1>s. \A r \in 1 .. MaxPage : g[r].slots = page[r].slots
    <2>. HIDE DEF nx
    <2>. QED
        BY <1>4, BackSlots, LiveIs
<1>6. k \in 2 .. Len(page[p].slots) - 1
      /\ Suffix(page[p], k) + 2 * (Len(page[p].slots) - k) + 20 <= PageSize
    BY <1>1, <1>2, LowerNumFits
<1>7. k \in 0 .. Len(page[p].slots)
    BY <1>1, <1>6, Free
<1>. HIDE DEF k
<1>8. nx \in Nat /\ nx # p /\ (nx # 0 => nx \in Live)
    BY <1>1, <1>3, Free, Neighbours
<1>. HIDE DEF nx
<1>9. PageOK(u) /\ u.next = nx /\ u.prev = p /\ u.slots = Upper(page[p], k).slots
    <2>1. PageOK(Upper(page[p], k))
        BY <1>1, <1>6, <1>7, UpperKeeps
    <2>2. PICK w : w = Upper(page[p], k)
        OBVIOUS
    <2>3. w \in Page /\ u = [w EXCEPT !.next = nx, !.prev = p]
        BY <2>1, <2>2 DEF PageOK
    <2>4. /\ u \in Page /\ u.slots = w.slots /\ u.free = w.free /\ u.freeSize = w.freeSize
          /\ u.bottom = w.bottom /\ u.next = nx /\ u.prev = p
        <3>. HIDE DEF u
        <3>. QED
            BY <2>3, <1>3, <1>8 DEF Page
    <2>. HIDE DEF u
    <2>. QED
        BY <2>1, <2>2, <2>4, Relinked
<1>10. PageOK(l) /\ l.next = n /\ l.prev = page[p].prev /\ l.slots = Lower(page[p], k).slots
    <2>1. PageOK(Lower(page[p], k)) /\ Lower(page[p], k).prev = page[p].prev
        BY <1>1, <1>7, LowerKeeps
    <2>2. PICK w : w = Lower(page[p], k)
        OBVIOUS
    <2>3. w \in Page /\ l = [w EXCEPT !.next = n]
        BY <2>1, <2>2 DEF PageOK
    <2>4. /\ l \in Page /\ l.slots = w.slots /\ l.free = w.free /\ l.freeSize = w.freeSize
          /\ l.bottom = w.bottom /\ l.next = n /\ l.prev = w.prev
        <3>. HIDE DEF l
        <3>. QED
            BY <2>3, <1>3 DEF Page
    <2>. HIDE DEF l
    <2>. QED
        BY <2>1, <2>2, <2>4, Relinked
<1>. HIDE DEF u, l, g
<1>11. \A r : PageOK(r) => r \in Page /\ r # NoPage
    BY NoPageIsNone DEF PageOK
<1>12. /\ h \in Pages /\ h[n] = u /\ h[p] = l
       /\ \A r \in 1 .. MaxPage : r # p /\ r # n => h[r] = g[r]
    BY <1>3, <1>5, <1>9, <1>10, <1>11 DEF Pages
<1>. HIDE DEF h
<1>13. nx # 0 => nx \in 1 .. MaxPage /\ nx # n
    BY <1>3, <1>8, LiveIs
<1>14. nx # 0 => PageOK(h[nx]) /\ h[nx].next = page[nx].next /\ h[nx].prev = n
    BY <1>5, <1>8, <1>12, <1>13
<1>15. \A r \in 1 .. MaxPage : r # p /\ r # n /\ r # nx => h[r] = page[r]
    BY <1>5, <1>12
<1>16. LiveOf(h) = LiveOf(page) \cup {n} /\ Linked(h)
    <2>1. MaxPage \in Nat /\ p \in LiveOf(page) /\ n \notin LiveOf(page) /\ nx = page[p].next
        BY Numbers, LiveIs, <1>3 DEF nx
    <2>2. /\ h[n] # NoPage /\ h[n].next = nx /\ h[n].prev = p
          /\ h[p] # NoPage /\ h[p].next = n /\ h[p].prev = page[p].prev
        BY <1>9, <1>10, <1>11, <1>12
    <2>3. nx # 0 => h[nx] # NoPage /\ h[nx].next = page[nx].next /\ h[nx].prev = n
        BY <1>11, <1>14
    <2>. QED
        BY <1>1, <1>3, <1>15, <2>1, <2>2, <2>3, LinkedIn
<1>17. \A r \in LiveOf(h) : PageOK(h[r])
    <2>1. ASSUME NEW r \in Live \cup {n} PROVE PageOK(h[r])
        <3>1. r \in 1 .. MaxPage
            BY <1>3, LiveIs
        <3>2. r # p /\ r # n /\ r # nx => h[r] = page[r] /\ PageOK(page[r])
            BY <1>1, <1>15, <3>1
        <3>3. r = nx => nx # 0
            BY <3>1
        <3>. QED
            BY <1>9, <1>10, <1>12, <1>14, <3>2, <3>3
    <2>. QED
        BY <2>1, <1>16, LiveIs
<1>x. \A r \in 1 .. MaxPage : r # p /\ r # n => h[r].slots = page[r].slots
    BY <1>12, <1>s
<1>18. PICK w : w = page'
    OBVIOUS
<1>19. /\ n \in 1 .. MaxPage /\ n \notin LiveOf(page)
       /\ w[n].next = nx /\ w[n].prev = p /\ w[p].next = n /\ w[p].prev = page[p].prev
       /\ w[p].slots = Lower(page[p], k).slots /\ w[n].slots = Upper(page[p], k).slots
    BY <1>2, <1>3, <1>9, <1>10, <1>12, <1>18, LiveIs
<1>20. nx # 0 => w[nx].next = page[nx].next /\ w[nx].prev = n
    BY <1>2, <1>14, <1>18
<1>21. nx = page[p].next /\ k = LowerNum(page[p])
    BY DEF nx, k
<1>22. SplitTo(w, p, n)
    BY <1>2, <1>12, <1>15, <1>16, <1>17, <1>x, <1>18, <1>19, <1>20, <1>21 DEF SplitTo
<1>. QED
    BY <1>18, <1>22

(* The pages h after the page behind p was merged into it.                 *)
MergedTo(h, p) ==
    LET q == page[p].next
        nx == page[q].next
    IN  /\ q \in LiveOf(page) /\ q # p /\ q # 0
        /\ LiveOf(h) = LiveOf(page) \ {q} /\ h \in Pages /\ Linked(h)
        /\ \A r \in LiveOf(h) : PageOK(h[r])
        /\ h[q] = NoPage
        /\ h[p].next = nx /\ h[p].prev = page[p].prev
        /\ nx # 0 => h[nx].next = page[nx].next /\ h[nx].prev = p
        /\ \A r \in 1 .. MaxPage : r # p /\ r # q /\ r # nx => h[r] = page[r]
        /\ \A r \in 1 .. MaxPage : r # p /\ r # q => h[r].slots = page[r].slots
        /\ h[p].slots = Merged(page[p], page[q]).slots

LEMMA MergePages ==
    ASSUME IInv, NEW p \in Live, Merge(p)
    PROVE  MergedTo(page', p)
<1> DEFINE q == page[p].next
           nx == page[q].next
           g == LinkedBack(page, nx, p)
           u == Merged(page[p], page[q])
           h == [g EXCEPT ![p] = u, ![q] = NoPage]
<1>1. /\ PageOK(page[p]) /\ page \in Pages /\ Linked(page) /\ ov \in OvType /\ data \in Trees
      /\ \A r \in Live : PageOK(page[r])
    BY DEF IInv
<1>2. /\ q # 0 /\ SpaceReq(page[q]) <= page[p].freeSize
      /\ page' = h /\ data' = data /\ ov' = ov
    BY DEF Merge
<1>3. /\ q \in Live /\ q # p /\ q \in 1 .. MaxPage /\ p \in 1 .. MaxPage /\ p \in Nat
      /\ PageOK(page[q]) /\ page[q].prev = p
    BY <1>1, <1>2, Neighbours, LiveIs
<1>4. nx \in Live \cup {0} /\ nx # q /\ nx # p
    <2>1. nx # 0 => nx \in Live /\ nx # q /\ page[nx].prev = q
        BY <1>3, Neighbours
    <2>2. 0 \notin Live
        BY LiveIs
    <2>3. PICK rank : Ranked(page, rank)
        BY <1>1 DEF Linked
    <2>4. rank[p] < rank[q] /\ (nx # 0 => rank[q] < rank[nx])
        BY <1>2, <1>3, <2>3, LiveIs DEF Ranked
    <2>5. rank[p] \in Int /\ rank[q] \in Int
        BY <1>3, <2>3 DEF Ranked
    <2>6. nx # 0 => nx # p
        BY <2>4, <2>5
    <2>. QED
        BY <1>3, <2>1, <2>2, <2>6
<1>5. PageOK(u) /\ u.next = nx /\ u.prev = page[p].prev
    BY <1>1, <1>2, <1>3, MergedKeeps
<1>6. /\ g \in Pages
      /\ nx # 0 => PageOK(g[nx]) /\ g[nx].next = page[nx].next /\ g[nx].prev = p
      /\ \A r \in 1 .. MaxPage : r # nx => g[r] = page[r]
    <2>. HIDE DEF nx
    <2>. QED
        BY <1>1, <1>3, <1>4, BackIs
<1>s. \A r \in 1 .. MaxPage : g[r].slots = page[r].slots
    <2>. HIDE DEF nx
    <2>. QED
        BY <1>4, BackSlots, LiveIs
<1>. HIDE DEF u, g
<1>7. \A r : PageOK(r) => r \in Page /\ r # NoPage
    BY NoPageIsNone DEF PageOK
<1>8. /\ h \in Pages /\ h[p] = u /\ h[q] = NoPage
      /\ \A r \in 1 .. MaxPage : r # p /\ r # q => h[r] = g[r]
    <2>. HIDE DEF q, nx
    <2>. QED
        BY <1>3, <1>5, <1>6, <1>7 DEF Pages
<1>. HIDE DEF h
<1>9. nx # 0 => nx \in 1 .. MaxPage
    BY <1>4, LiveIs
<1>10. nx # 0 => PageOK(h[nx]) /\ h[nx].next = page[nx].next /\ h[nx].prev = p
    BY <1>4, <1>6, <1>8, <1>9
<1>11. \A r \in 1 .. MaxPage : r # p /\ r # q /\ r # nx => h[r] = page[r]
    BY <1>6, <1>8
<1>12. LiveOf(h) = LiveOf(page) \ {q} /\ Linked(h)
    <2>1. MaxPage \in Nat /\ p \in LiveOf(page) /\ q = page[p].next /\ nx = page[q].next
        BY Numbers, LiveIs
    <2>. HIDE DEF q, nx
    <2>2. /\ h[p] # NoPage /\ h[p].next = nx /\ h[p].prev = page[p].prev /\ h[q] = NoPage
        BY <1>5, <1>7, <1>8
    <2>3. nx # 0 => h[nx] # NoPage /\ h[nx].next = page[nx].next /\ h[nx].prev = p
        BY <1>7, <1>10
    <2>. QED
        BY <1>1, <1>2, <1>11, <2>1, <2>2, <2>3, LinkedOut
<1>. HIDE DEF q, nx
<1>13. \A r \in LiveOf(h) : PageOK(h[r])
    <2>1. ASSUME NEW r \in Live \ {q} PROVE PageOK(h[r])
        <3>1. r \in 1 .. MaxPage
            BY LiveIs
        <3>2. r # p /\ r # nx => h[r] = page[r] /\ PageOK(page[r])
            BY <1>1, <1>11, <3>1
        <3>3. r = nx => nx # 0
            BY <3>1
        <3>. QED
            BY <1>5, <1>8, <1>10, <3>2, <3>3
    <2>. QED
        BY <2>1, <1>12, LiveIs
<1>x. \A r \in 1 .. MaxPage : r # p /\ r # q => h[r].slots = page[r].slots
    BY <1>8, <1>s
<1>14. PICK w : w = page'
    OBVIOUS
<1>15. /\ q \in LiveOf(page) /\ q # p /\ q # 0
       /\ w[p].next = nx /\ w[p].prev = page[p].prev
       /\ w[p].slots = Merged(page[p], page[q]).slots
    BY <1>2, <1>3, <1>5, <1>8, <1>14, LiveIs DEF u
<1>16. nx # 0 => w[nx].next = page[nx].next /\ w[nx].prev = p
    BY <1>2, <1>10, <1>14
<1>17. q = page[p].next /\ nx = page[q].next
    BY DEF q, nx
<1>18. MergedTo(w, p)
    BY <1>2, <1>8, <1>11, <1>12, <1>13, <1>x, <1>14, <1>15, <1>16, <1>17 DEF MergedTo
<1>. QED
    BY <1>14, <1>18

LEMMA SplitStep ==
    ASSUME IInv, NEW p \in Live, Split(p)
    PROVE  IInv'
<1>1. PICK h : h = page'
    OBVIOUS
<1>2. PICK x : SplitTo(h, p, x)
    BY <1>1, SplitPages
<1>3. h \in Pages /\ Linked(h) /\ \A r \in LiveOf(h) : PageOK(h[r])
    BY <1>2 DEF SplitTo
<1>. QED
    BY ZenonT(40), <1>1, <1>3, LiveIs DEF Split, IInv, OvType, Pages

LEMMA MergeStep ==
    ASSUME IInv, NEW p \in Live, Merge(p)
    PROVE  IInv'
<1>1. PICK h : h = page' /\ MergedTo(h, p)
    BY MergePages
<1>2. h \in Pages /\ Linked(h) /\ \A r \in LiveOf(h) : PageOK(h[r])
    BY <1>1 DEF MergedTo
<1>. QED
    BY ZenonT(40), <1>1, <1>2, LiveIs DEF Merge, IInv, OvType, Pages

(* Every step keeps the invariant. *)
LEMMA NextIInv == IInv /\ [Next]_vars => IInv'
<1>. SUFFICES ASSUME IInv, [Next]_vars PROVE IInv'
    OBVIOUS
<1>1. CASE Next
    <2>1. PICK p \in Live :
            \/ \E pos \in Places(Len(page[p].slots)) \cap 1 .. Len(page[p].slots) + 1, d \in data :
                    Insert(p, pos, d)
            \/ \E pos \in DOMAIN page[p].slots : Erase(p, pos)
            \/ Split(p) \/ Merge(p) \/ TakeNext(p) \/ TakePrev(p)
        BY <1>1 DEF Next
    <2>2. CASE \E pos \in Places(Len(page[p].slots)) \cap 1 .. Len(page[p].slots) + 1, d \in data :
                    Insert(p, pos, d)
        BY <2>2, InsertStep
    <2>3. CASE \E pos \in DOMAIN page[p].slots : Erase(p, pos)
        BY <2>3, EraseStep
    <2>4. CASE Split(p)
        BY <2>4, SplitStep
    <2>5. CASE Merge(p)
        BY <2>5, MergeStep
    <2>6. CASE TakeNext(p) \/ TakePrev(p)
        BY <2>6, TakeStep
    <2>. QED
        BY <2>1, <2>2, <2>3, <2>4, <2>5, <2>6
<1>2. CASE UNCHANGED vars
    BY <1>2 DEF vars, IInv, Live, OvType, Pages, Linked, LiveOf, Ranked, PageOK, Exact, Packed
<1>. QED
    BY <1>1, <1>2

(* The invariant holds in every state. *)
THEOREM Invariant == Spec => []IInv
BY InitIInv, NextIInv, PTL DEF Spec
-----------------------------------------------------------------------------
(* What follows for the properties of the model. *)
LEMMA InTypeOK == IInv => TypeOK
<1>. SUFFICES ASSUME IInv PROVE TypeOK
    OBVIOUS
<1>1. /\ data \in Trees /\ Linked(page) /\ ov \in OvType
    BY DEF IInv
<1>2. ASSUME NEW p \in Live
      PROVE  /\ \A b \in Range(page[p].slots) : b.size \in BlockHeader + 1 .. MaxBlock
                                                /\ b.ov \in 0 .. MaxOv
             /\ page[p].freeSize \in 0 .. PageSize - HeaderSize
             /\ page[p].bottom \in 0 .. PageSize - HeaderSize
    <2>1. PageOK(page[p])
        BY DEF IInv
    <2>2. /\ page[p].slots \in Seq(Block)
          /\ DOMAIN page[p].slots = 1 .. Len(page[p].slots)
        BY <2>1, Free
    <2>3. \A b \in Range(page[p].slots) : b \in Block
        <3>1. \A i \in 1 .. Len(page[p].slots) : page[p].slots[i] \in Block
            BY <2>2, Blocks9
        <3>. QED
            BY <2>2, <3>1 DEF Range
    <2>4. \A b \in Block : b.size \in BlockHeader + 1 .. MaxBlock /\ b.ov \in 0 .. MaxOv
        BY DEF Block
    <2>5. PICK fr \in Nat, z \in Nat, l \in Nat, b \in Nat :
                fr = page[p].freeSize /\ z = SizesOf(page[p].slots) /\ l = Len(page[p].slots)
                /\ b = page[p].bottom
        BY <2>1, Free
    <2>6. fr + z + 2 * l + 20 = PageSize /\ b + 2 * l + 20 <= PageSize
        BY <2>1, <2>5, Free
    <2>7. fr \in 0 .. PageSize - HeaderSize /\ b \in 0 .. PageSize - HeaderSize
        BY <2>6, Numbers
    <2>. QED
        BY <2>3, <2>4, <2>5, <2>7
<1>3. \A p \in Live : {page[p].next, page[p].prev} \subseteq Live \cup {0}
    BY <1>1, LiveIs DEF Linked
<1>. QED
    BY <1>1, <1>2, <1>3 DEF TypeOK, OvType

LEMMA Concat ==
    ASSUME NEW S, NEW s, s \in Seq(S), NEW t, t \in Seq(S),
           NEW n \in Nat, n = Len(s), NEW m \in Nat, m = Len(t)
    PROVE  /\ s \o t \in Seq(S) /\ Len(s \o t) = n + m /\ DOMAIN (s \o t) = 1 .. n + m
           /\ \A i \in 1 .. n : (s \o t)[i] = s[i]
           /\ \A i \in 1 .. m : (s \o t)[n + i] = t[i]
<1>1. /\ s \o t \in Seq(S) /\ Len(s \o t) = n + m
      /\ \A i \in 1 .. n + m : (s \o t)[i] = IF i <= n THEN s[i] ELSE t[i - n]
    BY ConcatProperties
<1>2. DOMAIN (s \o t) = 1 .. n + m
    BY <1>1
<1>3. PICK u : u = s \o t
    OBVIOUS
<1>4. \A i \in 1 .. n + m : u[i] = IF i <= n THEN s[i] ELSE t[i - n]
    BY <1>1, <1>3
<1>5. \A i \in 1 .. n : i \in 1 .. n + m /\ i <= n
    OBVIOUS
<1>6. \A i \in 1 .. m : n + i \in 1 .. n + m /\ ~(n + i <= n) /\ (n + i) - n = i
    OBVIOUS
<1>7. \A i \in 1 .. n : u[i] = s[i]
    BY <1>4, <1>5
<1>8. \A i \in 1 .. m : u[n + i] = t[i]
    BY ZenonT(40), <1>4, <1>6
<1>. QED
    BY <1>1, <1>2, <1>3, <1>7, <1>8

(* The parts of a page are its slots, its blocks, its free blocks. *)
LEMMA PartsAre ==
    ASSUME NEW p, PageOK(p)
    PROVE  /\ Len(Parts(p)) = 2 * Len(p.slots) + Len(p.free)
           /\ DOMAIN Parts(p) = 1 .. Len(Parts(p))
           /\ \A i \in 1 .. Len(p.slots) :
                Parts(p)[i] = [at |-> HeaderSize + SlotSize * (i - 1), size |-> SlotSize]
           /\ \A i \in 1 .. Len(p.slots) : Parts(p)[Len(p.slots) + i] = p.slots[i]
           /\ \A i \in 1 .. Len(p.free) : Parts(p)[2 * Len(p.slots) + i] = p.free[i]
<1> DEFINE s == p.slots
           f == p.free
           h == [i \in DOMAIN s |-> [at |-> HeaderSize + SlotSize * (i - 1), size |-> SlotSize]]
           S == Range(h) \cup Block \cup Hole
<1>1. s \in Seq(Block) /\ f \in Seq(Hole) /\ DOMAIN s = 1 .. Len(s) /\ Len(s) \in Nat
    BY Free
<1>2. Len(f) \in Nat /\ Len(h) = Len(s) /\ h \in Seq(S)
    BY <1>1 DEF Range
<1>3. \A i \in 1 .. Len(s) : h[i] = [at |-> HeaderSize + SlotSize * (i - 1), size |-> SlotSize]
    BY <1>1
<1>4. s \in Seq(S) /\ f \in Seq(S)
    <2>1. \A i \in 1 .. Len(f) : f[i] \in S
        BY <1>1, Holes
    <2>2. \A i \in 1 .. Len(s) : s[i] \in S
        BY <1>1, Blocks9
    <2>. HIDE DEF S, h
    <2>. QED
        BY SMTT(40), <1>1, <2>1, <2>2
<1>5. Parts(p) = h \o s \o f
    BY DEF Parts
<1>. HIDE DEF S, h, s, f
<1>6. PICK n \in Nat, m \in Nat : n = Len(s) /\ m = Len(f)
    BY ZenonT(40), <1>1, <1>2
<1>7. PICK hs : hs = h \o s
    OBVIOUS
<1>8. /\ hs \in Seq(S) /\ Len(hs) = n + n
      /\ \A i \in 1 .. n : hs[i] = h[i]
      /\ \A i \in 1 .. n : hs[n + i] = s[i]
    <2>1. h \in Seq(S) /\ s \in Seq(S) /\ n = Len(h) /\ n = Len(s) /\ n \in Nat
        BY <1>2, <1>4, <1>6
    <2>2. /\ h \o s \in Seq(S) /\ Len(h \o s) = n + n
          /\ \A i \in 1 .. n : (h \o s)[i] = h[i]
          /\ \A i \in 1 .. n : (h \o s)[n + i] = s[i]
        <3>1. PICK k \in Nat : k = n
            BY <2>1
        <3>4. PICK g : g = h
            OBVIOUS
        <3>2. s \in Seq(S) /\ k = Len(s) /\ g \in Seq(S) /\ n = Len(g)
            BY <2>1, <3>1, <3>4
        <3>3. /\ g \o s \in Seq(S) /\ Len(g \o s) = n + k
              /\ \A i \in 1 .. n : (g \o s)[i] = g[i]
              /\ \A i \in 1 .. k : (g \o s)[n + i] = s[i]
            BY <3>2, Concat
        <3>. QED
            BY <3>1, <3>3, <3>4
    <2>. QED
        BY <2>2, <1>7
<1>9. Parts(p) = hs \o f
    BY <1>5, <1>7
<1>10. PICK l \in Nat : l = 2 * n /\ l = Len(hs)
    BY <1>8
<1>11. /\ Len(hs \o f) = l + m /\ DOMAIN (hs \o f) = 1 .. l + m
       /\ \A i \in 1 .. l : (hs \o f)[i] = hs[i]
       /\ \A i \in 1 .. m : (hs \o f)[l + i] = f[i]
    <2>1. hs \in Seq(S) /\ f \in Seq(S) /\ l = Len(hs) /\ m = Len(f) /\ l \in Nat /\ m \in Nat
        BY <1>4, <1>6, <1>8, <1>10
    <2>. QED
        BY <2>1, Concat
<1>12. \A i \in 1 .. n : i \in 1 .. l /\ n + i \in 1 .. l
    BY <1>10
<1>13. /\ \A i \in 1 .. n : Parts(p)[i] = h[i]
       /\ \A i \in 1 .. n : Parts(p)[n + i] = s[i]
       /\ \A i \in 1 .. m : Parts(p)[l + i] = f[i]
    BY <1>8, <1>9, <1>11, <1>12
<1>14. Len(Parts(p)) = 2 * n + m /\ DOMAIN Parts(p) = 1 .. Len(Parts(p))
    BY <1>9, <1>10, <1>11
<1>. QED
    BY <1>3, <1>6, <1>10, <1>13, <1>14 DEF s, f

LEMMA ApartInPage ==
    ASSUME NEW p, PageOK(p)
    PROVE  \A i, j \in DOMAIN Parts(p) : i < j => Apart(Parts(p)[i], Parts(p)[j])
<1> DEFINE q == Parts(p)
<1>1. PICK n \in Nat, m \in Nat, bot \in Nat :
            n = Len(p.slots) /\ m = Len(p.free) /\ bot = p.bottom
    BY Free, Holes
<1>2. bot + 2 * n + 20 <= PageSize
    BY <1>1, Free
<1>3. /\ DOMAIN q = 1 .. 2 * n + m
      /\ \A i \in 1 .. n : q[i].at = 20 + 2 * (i - 1) /\ q[i].size = 2
      /\ \A i \in 1 .. n : q[n + i] = p.slots[i]
      /\ \A i \in 1 .. m : q[2 * n + i] = p.free[i]
    <2>. HIDE DEF q
    <2>1. /\ DOMAIN q = 1 .. 2 * n + m
          /\ \A i \in 1 .. n : q[i] = [at |-> HeaderSize + SlotSize * (i - 1), size |-> SlotSize]
          /\ \A i \in 1 .. n : q[n + i] = p.slots[i]
          /\ \A i \in 1 .. m : q[2 * n + i] = p.free[i]
        BY <1>1, PartsAre DEF q
    <2>2. \A i \in 1 .. n : q[i].at = HeaderSize + SlotSize * (i - 1) /\ q[i].size = SlotSize
        <3>. TAKE i \in 1 .. n
        <3>1. PICK x : x = HeaderSize + SlotSize * (i - 1)
            OBVIOUS
        <3>2. q[i] = [at |-> x, size |-> SlotSize]
            BY <2>1, <3>1
        <3>3. q[i].at = x /\ q[i].size = SlotSize
            BY <3>2
        <3>. QED
            BY <3>1, <3>3
    <2>3. \A i \in 1 .. n : q[i].at = 20 + 2 * (i - 1) /\ q[i].size = 2
        BY <2>2, Numbers
    <2>. QED
        BY <2>1, <2>3
<1>4. /\ \A i \in 1 .. n : q[i].at + q[i].size <= PageSize - bot
      /\ \A i, j \in 1 .. n : i < j => q[i].at + q[i].size <= q[j].at
    <2>. HIDE DEF q
    <2>1. \A i \in 1 .. n : (20 + 2 * (i - 1)) + 2 <= PageSize - bot
        BY <1>2, Numbers
    <2>2. \A i, j \in 1 .. n : i < j => (20 + 2 * (i - 1)) + 2 <= 20 + 2 * (j - 1)
        OBVIOUS
    <2>. QED
        BY <1>3, <2>1, <2>2
<1>5. \A i, j \in 1 .. n : i < j => Apart(q[i], q[j])
    BY <1>4 DEF Apart
<1>6. Packed(p.slots, p.free, PageSize - bot)
    BY <1>1 DEF PageOK
<1>7. /\ \A i \in 1 .. n : p.slots[i].at >= PageSize - bot /\ p.slots[i].at \in Int
      /\ \A i \in 1 .. m : p.free[i].at >= PageSize - bot /\ p.free[i].at \in Int
    <2>1. /\ \A i \in 1 .. n : p.slots[i].at \in Int
          /\ \A i \in 1 .. m : p.free[i].at \in Int
        BY <1>1, Free, Blocks9, Holes
    <2>. QED
        BY <2>1, <1>1, <1>6 DEF Packed, Within
<1>8. \A i \in 1 .. n : q[i].at + q[i].size \in Int
    BY <1>3
<1>. HIDE DEF q
<1>9. \A i \in 1 .. n, j \in n + 1 .. 2 * n + m : Apart(q[i], q[j])
    <2>. TAKE i \in 1 .. n, j \in n + 1 .. 2 * n + m
    <2>1. q[j].at >= PageSize - bot /\ q[j].at \in Int
        <3>1. CASE j <= 2 * n
            <4>1. j - n \in 1 .. n /\ n + (j - n) = j
                BY <3>1
            <4>. QED
                BY ZenonT(40), <4>1, <1>3, <1>7
        <3>2. CASE ~(j <= 2 * n)
            <4>1. j - 2 * n \in 1 .. m /\ 2 * n + (j - 2 * n) = j
                BY <3>2
            <4>. QED
                BY ZenonT(40), <4>1, <1>3, <1>7
        <3>. QED
            BY <3>1, <3>2
    <2>2. q[i].at + q[i].size <= q[j].at
        BY <2>1, <1>4, <1>8, Numbers
    <2>. QED
        BY <2>2 DEF Apart
<1>10. \A i, j \in n + 1 .. 2 * n + m : i < j => Apart(q[i], q[j])
    <2>. SUFFICES ASSUME NEW i \in n + 1 .. 2 * n + m, NEW j \in n + 1 .. 2 * n + m, i < j
                  PROVE  Apart(q[i], q[j])
        OBVIOUS
    <2>1. CASE j <= 2 * n
        <3>1. /\ i - n \in 1 .. n /\ n + (i - n) = i /\ j - n \in 1 .. n /\ n + (j - n) = j
              /\ i - n # j - n
            BY <2>1
        <3>2. q[i] = p.slots[i - n] /\ q[j] = p.slots[j - n]
            BY <3>1, <1>3
        <3>. QED
            BY <3>1, <3>2, <1>1, <1>6 DEF Packed
    <2>2. CASE i <= 2 * n /\ ~(j <= 2 * n)
        <3>1. /\ i - n \in 1 .. n /\ n + (i - n) = i
              /\ j - 2 * n \in 1 .. m /\ 2 * n + (j - 2 * n) = j
            BY <2>2
        <3>2. q[i] = p.slots[i - n] /\ q[j] = p.free[j - 2 * n]
            BY <3>1, <1>3
        <3>. QED
            BY <3>1, <3>2, <1>1, <1>6 DEF Packed
    <2>3. CASE ~(i <= 2 * n)
        <3>1. /\ i - 2 * n \in 1 .. m /\ 2 * n + (i - 2 * n) = i
              /\ j - 2 * n \in 1 .. m /\ 2 * n + (j - 2 * n) = j
              /\ i - 2 * n # j - 2 * n
            BY <2>3
        <3>2. q[i] = p.free[i - 2 * n] /\ q[j] = p.free[j - 2 * n]
            BY <3>1, <1>3
        <3>. QED
            BY <3>1, <3>2, <1>1, <1>6 DEF Packed
    <2>. QED
        BY <2>1, <2>2, <2>3
<1>11. \A i \in DOMAIN q : i \in 1 .. n \/ i \in n + 1 .. 2 * n + m
    BY <1>3
<1>12. \A i \in n + 1 .. 2 * n + m, j \in 1 .. n : ~(i < j)
    OBVIOUS
<1>13. \A i, j \in DOMAIN q : i < j => Apart(q[i], q[j])
    BY <1>5, <1>9, <1>10, <1>11, <1>12
<1>. QED
    BY <1>13 DEF q

LEMMA AtTheBottom ==
    ASSUME NEW p, PageOK(p), NEW b \in Range(p.slots \o p.free)
    PROVE  b.at >= PageSize - p.bottom /\ b.at + b.size <= PageSize
<1>1. p.slots \in Seq(Block) /\ p.free \in Seq(Hole)
    BY Free
<1>2. PICK i \in DOMAIN (p.slots \o p.free) : b = (p.slots \o p.free)[i]
    BY DEF Range
<1>3. PICK n \in Nat, m \in Nat : n = Len(p.slots) /\ m = Len(p.free)
    BY <1>1, Free, Holes
<1>4. i \in 1 .. n + m /\ b = IF i <= n THEN p.slots[i] ELSE p.free[i - n]
    <2> DEFINE S == Block \cup Hole
    <2>1. p.slots \in Seq(S) /\ p.free \in Seq(S)
        <3>1. \A j \in 1 .. Len(p.slots) : p.slots[j] \in S
            BY <1>1, Blocks9
        <3>2. \A j \in 1 .. Len(p.free) : p.free[j] \in S
            BY <1>1, Holes
        <3>. HIDE DEF S
        <3>. QED
            BY SMTT(40), <1>1, <3>1, <3>2
    <2>. HIDE DEF S
    <2>2. i \in 1 .. n + m /\ (p.slots \o p.free)[i] = IF i <= n THEN p.slots[i] ELSE p.free[i - n]
        <3>1. DOMAIN (p.slots \o p.free) = 1 .. n + m
            BY <2>1, <1>3, Concat
        <3>2. i \in 1 .. Len(p.slots) + Len(p.free)
            BY <3>1, <1>3
        <3>. QED
            BY <3>2, <2>1, <1>3, ConcatProperties
    <2>. QED
        BY <2>2, <1>2
<1>5. Packed(p.slots, p.free, PageSize - p.bottom)
    BY DEF PageOK
<1>6. i <= n => i \in 1 .. Len(p.slots)
    BY <1>3, <1>4
<1>7. ~(i <= n) => i - n \in 1 .. Len(p.free)
    <2>1. i \in 1 .. n + m
        BY <1>4
    <2>2. ~(i <= n) => i - n \in 1 .. m
        BY <2>1
    <2>. QED
        BY <1>3, <2>2
<1>8. Within(b, PageSize - p.bottom)
    BY <1>4, <1>5, <1>6, <1>7 DEF Packed
<1>. QED
    BY <1>8 DEF Within

(* In every state the pages of the chain are laid out: what is in one lies *)
(* apart, blocks at the bottom, and free_size is what is left, through     *)
(* allocation, packing, splits, merges and moves.                          *)
THEOREM LayoutKept == Spec => []Layout
<1>1. IInv => Layout
    <2>. SUFFICES ASSUME IInv PROVE Layout
        OBVIOUS
    <2>1. \A p \in Live : PageOK(page[p])
        BY DEF IInv
    <2>2. Disjoint
        BY <2>1, ApartInPage, AtTheBottom DEF Disjoint
    <2>3. ASSUME NEW p \in Live
          PROVE  page[p].freeSize = PageSize - HeaderSize - SizesOf(page[p].slots)
                                        - SlotSize * Len(page[p].slots)
        <3>1. PICK fr \in Nat, z \in Nat, l \in Nat :
                    fr = page[p].freeSize /\ z = SizesOf(page[p].slots) /\ l = Len(page[p].slots)
            BY <2>1, Free
        <3>2. fr + z + 2 * l + 20 = PageSize
            BY <3>1, <2>1, Free
        <3>3. fr = PageSize - HeaderSize - z - SlotSize * l
            BY <3>2, Numbers
        <3>. QED
            BY <3>1, <3>3
    <2>4. FreeSizeExact
        BY <2>3 DEF FreeSizeExact
    <2>. QED
        BY <2>2, <2>4, InTypeOK DEF Layout
<1>. QED
    BY <1>1, Invariant, PTL

(* Whenever a page underflows and its neighbour cannot lend, the two fit   *)
(* in one, whatever sizes their blocks have: the assertion after merge()   *)
(* in erase_try_merge().                                                   *)
THEOREM MergeAlwaysFits == Spec => []MergeFits
<1>1. IInv => MergeFits
    <2>. SUFFICES ASSUME IInv, NEW p \in Live, page[p].next # 0,
                         NeedsMerge(p, page[p].next)
                  PROVE  SpaceReq(page[page[p].next]) <= page[p].freeSize
        BY DEF MergeFits
    <2>1. PICK q : q = page[p].next
        OBVIOUS
    <2>2. q \in Live
        BY <2>1, Neighbours
    <2>3. PageOK(page[p]) /\ PageOK(page[q])
        BY <2>2 DEF IInv
    <2>4. PICK a \in Nat, b \in Nat : a = page[p].freeSize /\ b = page[q].freeSize
        BY <2>3, Free
    <2>5. /\ page[q].slots # <<>> => 1 \in 1 .. Len(page[q].slots)
          /\ page[p].slots # <<>> => Len(page[p].slots) \in 1 .. Len(page[p].slots)
        <3>1. /\ page[q].slots \in Seq(Block) /\ page[p].slots \in Seq(Block)
            BY <2>3, Free
        <3>. QED
            BY <3>1
    <2>6. \/ 4 * a + 68 >= 3 * PageSize /\ 2 * b + 28 >= PageSize
          \/ 4 * b + 68 >= 3 * PageSize /\ 2 * a + 28 >= PageSize
        <3>1. CASE Underflow(page[p]) /\ ~CanLend(page[q], 1)
            BY <3>1, <2>3, <2>4, <2>5, UnderflowRoom, NoLendRoom
        <3>2. CASE Underflow(page[q]) /\ ~CanLend(page[p], Len(page[p].slots))
            BY <3>2, <2>3, <2>4, <2>5, UnderflowRoom, NoLendRoom
        <3>. QED
            BY <3>1, <3>2, <2>1 DEF NeedsMerge
    <2>7. PageSize - b - HeaderSize <= a
        BY <2>6, Numbers
    <2>. QED
        BY <2>1, <2>4, <2>7 DEF SpaceReq
<1>. QED
    BY <1>1, Invariant, PTL
-----------------------------------------------------------------------------
(* Blocks of one size.  Kind says of what sizes the blocks of a page are.  *)
Kind(p, S) == \A n \in 1 .. Len(p.slots) : p.slots[n].size \in S

Kinds == {SizeRequired(d) : d \in data}

LEMMA AllocateKind ==
    ASSUME NEW p, PageOK(p), NEW sz, NEW S, Kind(p, S)
    PROVE  \A n \in 1 .. Len(p.slots) : Allocate(p, sz).page.slots[n].size \in S
<1>1. PICK u : u = IF NeedsPacking(p, sz) THEN Defragment(p) ELSE p
    OBVIOUS
<1>2. PageOK(u) /\ \A n \in 1 .. Len(p.slots) : u.slots[n].size = p.slots[n].size
    BY <1>1, DefragmentKeeps
<1>3. u \in Page
    BY <1>2 DEF PageOK
<1>4. PICK q : q = Allocate(p, sz).page
    OBVIOUS
<1>5. q.slots = u.slots
    <2>1. CASE HeadFits(u, sz)
        <3>1. q = [u EXCEPT !.free = RestOfHead(Head(u.free), sz) \o Tail(u.free),
                            !.freeSize = u.freeSize - sz]
            BY <1>1, <1>4, <2>1 DEF Allocate
        <3>. QED
            BY <1>3, <3>1 DEF Page
    <2>2. CASE ~HeadFits(u, sz)
        <3>1. q = [u EXCEPT !.bottom = u.bottom + sz, !.freeSize = u.freeSize - sz]
            BY <1>1, <1>4, <2>2 DEF Allocate
        <3>. QED
            BY <1>3, <3>1 DEF Page
    <2>. QED
        BY <2>1, <2>2
<1>. QED
    BY <1>2, <1>4, <1>5 DEF Kind

LEMMA InsertedKind ==
    ASSUME NEW p, NEW block, Room(p, block.size), block.ov \in 0 .. MaxOv,
           NEW pos \in 1 .. Len(p.slots) + 1, NEW S, Kind(p, S), block.size \in S
    PROVE  Kind(Inserted(p, pos, block), S)
<1>1. PICK q, a : q = Inserted(p, pos, block) /\ a = Allocate(p, block.size).page.slots
    OBVIOUS
<1>2. PICK l \in Nat : l = Len(p.slots)
    BY Free DEF Room
<1>3. /\ Len(q.slots) = l + 1 /\ Without(q.slots, a, pos) /\ q.slots[pos].size = block.size
    BY <1>1, <1>2, InsertedKeeps
<1>4. Len(a) = l
    <2>1. PICK b : b = [at |-> Allocate(p, block.size).at, size |-> block.size]
        OBVIOUS
    <2>2. b.at = Allocate(p, block.size).at /\ b.size = block.size
        BY <2>1
    <2>. QED
        BY <2>2, <1>1, <1>2, AllocateFinds
<1>5. \A n \in 1 .. l : a[n].size \in S
    BY <1>1, <1>2, AllocateKind DEF Room
<1>6. ASSUME NEW n \in 1 .. l + 1 PROVE q.slots[n].size \in S
    <2>1. pos \in 1 .. l + 1
        BY <1>2
    <2>2. CASE n < pos
        <3>1. n \in 1 .. l
            BY <2>1, <2>2
        <3>. QED
            BY <3>1, <2>2, <1>3, <1>4, <1>5 DEF Without
    <2>3. CASE n = pos
        BY <2>3, <1>3
    <2>4. CASE n > pos
        <3>1. n - 1 \in 1 .. l /\ n - 1 >= pos /\ (n - 1) + 1 = n
            BY <2>1, <2>4
        <3>2. a[n - 1] = q.slots[n]
            BY <3>1, <1>3, <1>4 DEF Without
        <3>. QED
            BY <3>1, <3>2, <1>5
    <2>. QED
        BY <2>1, <2>2, <2>3, <2>4
<1>. QED
    BY <1>1, <1>3, <1>6 DEF Kind

LEMMA ErasedKind ==
    ASSUME NEW p, PageOK(p), NEW pos \in 1 .. Len(p.slots), NEW S, Kind(p, S)
    PROVE  Kind(Erased(p, pos), S)
<1>1. PICK q : q = Erased(p, pos)
    OBVIOUS
<1>2. PageOK(q) /\ Without(p.slots, q.slots, pos)
    BY <1>1, ErasedKeeps
<1>3. PICK l \in Nat, m \in Nat : l = Len(p.slots) /\ m = Len(q.slots)
    BY <1>2, Free
<1>4. l = m + 1
    BY <1>2, <1>3 DEF Without
<1>5. \A n \in 1 .. m : n \in 1 .. l /\ n + 1 \in 1 .. l
    BY <1>4
<1>6. pos \in 1 .. l
    BY <1>3
<1>7. ASSUME NEW n \in 1 .. m PROVE q.slots[n].size \in S
    <2>1. CASE n < pos
        BY <2>1, <1>2, <1>3, <1>5 DEF Without, Kind
    <2>2. CASE n >= pos
        BY <2>2, <1>2, <1>3, <1>5 DEF Without, Kind
    <2>. QED
        BY <2>1, <2>2, <1>6
<1>. QED
    BY <1>1, <1>3, <1>7 DEF Kind

LEMMA SplitKind ==
    ASSUME NEW p, PageOK(p), NEW k \in 0 .. Len(p.slots), NEW S, Kind(p, S),
           Suffix(p, k) + 2 * (Len(p.slots) - k) + 20 <= PageSize
    PROVE  Kind(Lower(p, k), S) /\ Kind(Upper(p, k), S)
<1>1. PICK l \in Nat : l = Len(p.slots)
    BY Free
<1>2. /\ Len(Lower(p, k).slots) = k
      /\ \A n \in 1 .. k : Lower(p, k).slots[n] = p.slots[n]
    BY LowerKeeps
<1>3. /\ Len(Upper(p, k).slots) = l - k
      /\ \A n \in 1 .. l - k : Upper(p, k).slots[n].size = p.slots[k + n].size
    BY ZenonT(40), <1>1, UpperKeeps
<1>4. k \in 0 .. l
    BY <1>1
<1>5. (\A n \in 1 .. k : n \in 1 .. l) /\ (\A n \in 1 .. l - k : k + n \in 1 .. l)
    BY <1>4
<1>6. \A n \in 1 .. l : p.slots[n].size \in S
    BY <1>1 DEF Kind
<1>7. \A n \in 1 .. k : Lower(p, k).slots[n].size \in S
    BY <1>2, <1>5, <1>6
<1>8. \A n \in 1 .. l - k : Upper(p, k).slots[n].size \in S
    BY <1>3, <1>5, <1>6
<1>. QED
    BY <1>2, <1>3, <1>7, <1>8 DEF Kind

LEMMA MergedKind ==
    ASSUME NEW p, PageOK(p), NEW q, PageOK(q), NEW S, Kind(p, S), Kind(q, S)
    PROVE  Kind(Merged(p, q), S)
<1> DEFINE d == Defragment(p)
           x(i) == PageSize - d.bottom - SizesOf(SubSeq(q.slots, 1, i))
           t == [i \in DOMAIN q.slots |-> [q.slots[i] EXCEPT !.at = x(i)]]
           T == Range(d.slots) \cup Range(t)
<1>1. /\ PageOK(d) /\ Len(d.slots) = Len(p.slots)
      /\ \A n \in 1 .. Len(p.slots) : d.slots[n].size = p.slots[n].size
    BY DefragmentKeeps
<1>. HIDE DEF d
<1>2. /\ d.slots \in Seq(Block) /\ q.slots \in Seq(Block) /\ d \in Page
      /\ DOMAIN q.slots = 1 .. Len(q.slots)
    BY <1>1, Free DEF PageOK
<1>3. PICK n \in Nat, m \in Nat : n = Len(d.slots) /\ m = Len(q.slots)
    BY <1>1, Free
<1>. HIDE DEF x
<1>4. \A i \in 1 .. m : t[i].size = q.slots[i].size
    <2>. SUFFICES ASSUME NEW i \in 1 .. m PROVE t[i].size = q.slots[i].size
        OBVIOUS
    <2>1. q.slots[i] \in Block
        BY <1>2, <1>3, Blocks9
    <2>2. t[i] = [q.slots[i] EXCEPT !.at = x(i)]
        BY <1>2, <1>3
    <2>3. PICK b : b = q.slots[i] /\ b \in Block
        BY <2>1
    <2>4. [b EXCEPT !.at = x(i)].size = b.size
        BY <2>3 DEF Block
    <2>. QED
        BY <2>2, <2>3, <2>4
<1>5. DOMAIN t = 1 .. m /\ Len(t) = m /\ \A i \in 1 .. m : t[i] \in T
    <2>1. DOMAIN t = 1 .. m
        BY <1>2, <1>3
    <2>2. \A i \in 1 .. m : t[i] \in T
        BY <2>1 DEF Range
    <2>3. t = [i \in 1 .. m |-> t[i]]
        BY <1>2, <1>3
    <2>. HIDE DEF t
    <2>4. Len(t) = m
        BY <2>3
    <2>. QED
        BY <2>1, <2>2, <2>4
<1>6. t \in Seq(T) /\ d.slots \in Seq(T)
    <2>1. t \in Seq(T)
        <3>1. t = [i \in 1 .. m |-> t[i]]
            BY <1>2, <1>3
        <3>. HIDE DEF t, T
        <3>2. t \in [1 .. m -> T]
            BY <1>5, <3>1
        <3>. QED
            BY <3>2
    <2>2. \A i \in 1 .. n : d.slots[i] \in T
        BY <1>2, <1>3 DEF Range
    <2>. HIDE DEF T
    <2>3. d.slots \in Seq(T)
        BY <2>2, <1>2, <1>3
    <2>. QED
        BY <2>1, <2>3
<1>7. Merged(p, q).slots = d.slots \o t
    <2>1. PICK u : u = Merged(p, q)
        OBVIOUS
    <2>2. u = [d EXCEPT !.slots = d.slots \o t, !.bottom = d.bottom + SizesOf(q.slots),
                        !.freeSize = d.freeSize - SpaceReq(q), !.next = q.next]
        BY <2>1 DEF Merged, d, x
    <2>. HIDE DEF t
    <2>. QED
        BY <1>2, <2>1, <2>2 DEF Page
<1>. HIDE DEF t, T
<1>8. /\ Len(d.slots \o t) = n + m
      /\ \A i \in 1 .. n : (d.slots \o t)[i] = d.slots[i]
      /\ \A i \in 1 .. m : (d.slots \o t)[n + i] = t[i]
    <2>1. m = Len(t)
        BY <1>5
    <2>. QED
        BY <1>3, <1>6, <2>1, Concat
<1>9. PICK s : s = d.slots \o t
    OBVIOUS
<1>10. (\A i \in 1 .. n : s[i].size \in S) /\ (\A i \in 1 .. m : s[n + i].size \in S)
    <2>1. \A i \in 1 .. n : s[i].size \in S
        BY <1>1, <1>3, <1>8, <1>9 DEF Kind
    <2>2. \A i \in 1 .. m : s[n + i].size \in S
        BY ZenonT(40), <1>3, <1>4, <1>8, <1>9 DEF Kind
    <2>. QED
        BY <2>1, <2>2
<1>11. \A i \in 1 .. n + m : s[i].size \in S
    <2>. SUFFICES ASSUME NEW i \in 1 .. n + m PROVE s[i].size \in S
        OBVIOUS
    <2>1. CASE i <= n
        BY <2>1, <1>10
    <2>2. CASE ~(i <= n)
        <3>1. i - n \in 1 .. m /\ n + (i - n) = i
            BY <2>2
        <3>. QED
            BY <3>1, <1>10
    <2>. QED
        BY <2>1, <2>2
<1>. QED
    BY <1>7, <1>8, <1>9, <1>11 DEF Kind
(* The blocks of a tree are as long as its items make them. *)
OfData == \A p \in Live : Kind(page[p], Kinds)

LEMMA InitOfData == Init => OfData
<1>. SUFFICES ASSUME Init, NEW p \in Live PROVE Kind(page[p], Kinds)
    BY DEF OfData
<1>1. page[p] = NewPage
    BY DEF Init, Live
<1>2. Len(page[p].slots) = 0
    BY <1>1 DEF NewPage
<1>. QED
    BY <1>2 DEF Kind

LEMMA SomeKinds ==
    ASSUME IInv, OfData, data' = data,
           \A r \in Live' :
              \/ r \in Live /\ page'[r].slots = page[r].slots
              \/ Kind(page'[r], Kinds)
    PROVE  OfData'
<1>1. \A r \in Live' : Kind(page'[r], Kinds)
    BY DEF OfData, Kind
<1>2. Kinds' = Kinds
    BY DEF Kinds
<1>. QED
    BY <1>1, <1>2 DEF OfData, Kind

LEMMA MoveOfData ==
    ASSUME IInv, OfData, NEW p \in Live, NEW q \in Live, p # q, Underflow(page[p]),
           NEW src \in 1 .. Len(page[q].slots), NEW dest \in 1 .. Len(page[p].slots) + 1,
           MoveFrom(q, src, p, dest)
    PROVE  OfData'
<1> DEFINE b == page[q].slots[src]
           c == [size |-> b.size, ov |-> b.ov]
           u == Inserted(page[p], dest, c)
           v == Erased(page[q], src)
<1>1. PageOK(page[p]) /\ PageOK(page[q]) /\ Kind(page[p], Kinds) /\ Kind(page[q], Kinds)
    BY DEF IInv, OfData
<1>2. page' = [page EXCEPT ![p] = u, ![q] = v] /\ data' = data
    BY DEF MoveFrom
<1>3. b.size \in 9 .. MaxBlock /\ b.ov \in 0 .. MaxOv
    <2>1. b \in Block
        BY <1>1, Free, Blocks9
    <2>. HIDE DEF b
    <2>. QED
        BY <2>1, Numbers DEF Block
<1>4. Accepts(page[p], b.size)
    <2>1. 4 * page[p].freeSize + 68 >= 3 * PageSize /\ page[p].freeSize \in Nat
        BY <1>1, UnderflowRoom, Free
    <2>2. PICK fr \in Nat, z \in 9 .. MaxBlock : fr = page[p].freeSize /\ z = b.size
        BY <2>1, <1>3
    <2>3. 4 * fr + 68 >= 3 * PageSize
        BY <2>1, <2>2
    <2>4. fr >= z + 2
        BY <2>3, Numbers
    <2>. QED
        BY <2>2, <2>4, Numbers DEF Accepts
<1>5. b.size \in Kinds
    BY <1>1 DEF Kind
<1>6. Kind(u, Kinds)
    <2>1. c.size = b.size /\ c.ov = b.ov
        OBVIOUS
    <2>2. Room(page[p], c.size) /\ c.ov \in 0 .. MaxOv /\ c.size \in Kinds
        BY <1>1, <1>3, <1>4, <1>5, <2>1 DEF Room
    <2>. HIDE DEF c
    <2>. QED
        BY <1>1, <2>2, InsertedKind
<1>7. Kind(v, Kinds)
    BY <1>1, ErasedKind
<1>. HIDE DEF u, v
<1>8. DOMAIN page = 1 .. MaxPage /\ Live \subseteq 1 .. MaxPage
    BY LiveIs DEF IInv, Pages
<1>9. \A r \in 1 .. MaxPage : page'[r] = IF r = q THEN v ELSE IF r = p THEN u ELSE page[r]
    BY <1>2, <1>8
<1>10. \A r \in Live' : (r \in Live /\ page'[r].slots = page[r].slots) \/ Kind(page'[r], Kinds)
    BY <1>6, <1>7, <1>9 DEF Live
<1>. QED
    BY <1>2, <1>10, SomeKinds

LEMMA StepOfData == IInv /\ IInv' /\ OfData /\ [Next]_vars => OfData'
<1>. SUFFICES ASSUME IInv, IInv', OfData, [Next]_vars PROVE OfData'
    OBVIOUS
<1>1. /\ page \in Pages /\ DOMAIN page = 1 .. MaxPage /\ \A r \in Live : PageOK(page[r])
      /\ \A r \in Live : Kind(page[r], Kinds)
      /\ Live' \subseteq 1 .. MaxPage
    BY LiveIs DEF IInv, OfData, Pages, Live
<1>2. CASE UNCHANGED vars
    BY <1>2 DEF vars, OfData, Kind, Kinds, Live
<1>3. CASE \E p \in Live : \E pos \in Places(Len(page[p].slots)) \cap 1 .. Len(page[p].slots) + 1,
                             d \in data : Insert(p, pos, d)
    <2>0. PICK p \in Live : \E pos \in 1 .. Len(page[p].slots) + 1, d \in data : Insert(p, pos, d)
        BY <1>3
    <2>1. PICK pos \in 1 .. Len(page[p].slots) + 1, d \in data : Insert(p, pos, d)
        BY <2>0
    <2> DEFINE b == [size |-> SizeRequired(d), ov |-> FirstOv(d)]
               q == Inserted(page[p], pos, b)
    <2>2. d \in Nat \ {0} /\ data' = data /\ page' = [page EXCEPT ![p] = q]
          /\ OvPages(d) <= Cardinality(FreeOv) /\ Accepts(page[p], SizeRequired(d))
        BY <2>1, VariantAssumption DEF Insert, IInv, VariantAssumption
    <2>3. b.size \in Kinds /\ b.size = SizeRequired(d) /\ b.ov = FirstOv(d)
        BY <2>1 DEF Kinds
    <2>4. b.size \in 9 .. MaxBlock /\ b.ov \in 0 .. MaxOv
        BY <2>2, <2>3, RemainIs, ChainTypes DEF IInv
    <2>5. Room(page[p], b.size)
        BY <1>1, <2>2, <2>3, <2>4 DEF Room
    <2>6. Kind(q, Kinds)
        <3>. HIDE DEF b
        <3>. QED
            BY <1>1, <2>1, <2>3, <2>4, <2>5, InsertedKind
    <2>. HIDE DEF q
    <2>7. \A r \in 1 .. MaxPage : page'[r] = IF r = p THEN q ELSE page[r]
        BY <1>1, <2>2
    <2>8. \A r \in Live' : (r \in Live /\ page'[r].slots = page[r].slots) \/ Kind(page'[r], Kinds)
        BY <1>1, <2>6, <2>7 DEF Live
    <2>. QED
        BY <2>2, <2>8, SomeKinds
<1>4. CASE \E p \in Live : \E pos \in DOMAIN page[p].slots : Erase(p, pos)
    <2>1. PICK p \in Live : \E pos \in DOMAIN page[p].slots : Erase(p, pos)
        BY <1>4
    <2>2. PICK pos \in DOMAIN page[p].slots : Erase(p, pos)
        BY <2>1
    <2> DEFINE q == Erased(page[p], pos)
    <2>3. page' = [page EXCEPT ![p] = q] /\ data' = data /\ pos \in 1 .. Len(page[p].slots)
        BY <1>1, <2>2, Free DEF Erase
    <2>4. Kind(q, Kinds)
        BY <1>1, <2>3, ErasedKind
    <2>. HIDE DEF q
    <2>5. \A r \in 1 .. MaxPage : page'[r] = IF r = p THEN q ELSE page[r]
        BY <1>1, <2>3
    <2>6. \A r \in Live' : (r \in Live /\ page'[r].slots = page[r].slots) \/ Kind(page'[r], Kinds)
        BY <1>1, <2>4, <2>5 DEF Live
    <2>. QED
        BY <2>3, <2>6, SomeKinds
<1>5. ASSUME NEW p \in Live, Split(p) PROVE OfData'
    <2>1. PICK h : h = page'
        OBVIOUS
    <2>2. PICK x : SplitTo(h, p, x)
        BY <1>5, <2>1, SplitPages
    <2>3. PICK k : k = LowerNum(page[p])
        OBVIOUS
    <2>4. /\ LiveOf(h) = LiveOf(page) \cup {x}
          /\ \A r \in 1 .. MaxPage : r # p /\ r # x => h[r].slots = page[r].slots
          /\ h[p].slots = Lower(page[p], k).slots /\ h[x].slots = Upper(page[p], k).slots
        BY <2>2, <2>3 DEF SplitTo
    <2>5. /\ k \in 0 .. Len(page[p].slots)
          /\ Suffix(page[p], k) + 2 * (Len(page[p].slots) - k) + 20 <= PageSize
        <3>1. k \in 2 .. Len(page[p].slots) - 1
              /\ Suffix(page[p], k) + 2 * (Len(page[p].slots) - k) + 20 <= PageSize
            BY <1>1, <1>5, <2>3, LowerNumFits DEF Split
        <3>2. Len(page[p].slots) \in Nat
            BY <1>1, Free
        <3>. QED
            BY <3>1, <3>2
    <2>6. Kind(Lower(page[p], k), Kinds) /\ Kind(Upper(page[p], k), Kinds)
        BY <1>1, <2>5, SplitKind
    <2>7. Kind(h[p], Kinds) /\ Kind(h[x], Kinds)
        BY <2>4, <2>6 DEF Kind
    <2>8. \A r \in Live' : (r \in Live /\ page'[r].slots = page[r].slots) \/ Kind(page'[r], Kinds)
        BY <1>1, <2>1, <2>4, <2>7, LiveIs
    <2>. QED
        BY <1>5, <2>8, SomeKinds DEF Split
<1>6. ASSUME NEW p \in Live, Merge(p) PROVE OfData'
    <2>1. PICK h, q : h = page' /\ q = page[p].next
        OBVIOUS
    <2>2. /\ q \in LiveOf(page) /\ LiveOf(h) = LiveOf(page) \ {q}
          /\ \A r \in 1 .. MaxPage : r # p /\ r # q => h[r].slots = page[r].slots
          /\ h[p].slots = Merged(page[p], page[q]).slots
        BY <1>6, <2>1, MergePages DEF MergedTo
    <2>3. Kind(Merged(page[p], page[q]), Kinds)
        BY <1>1, <2>2, LiveIs, MergedKind
    <2>4. Kind(h[p], Kinds)
        BY <2>2, <2>3 DEF Kind
    <2>5. \A r \in Live' : (r \in Live /\ page'[r].slots = page[r].slots) \/ Kind(page'[r], Kinds)
        BY <1>1, <2>1, <2>2, <2>4, LiveIs
    <2>. QED
        BY <1>6, <2>5, SomeKinds DEF Merge
<1>7. ASSUME NEW p \in Live, TakeNext(p) \/ TakePrev(p) PROVE OfData'
    <2>1. ASSUME NEW q, NEW src, NEW dest, Lends(q, src, p, dest) PROVE OfData'
        BY <2>1, MoveOfData DEF Lends
    <2>. QED
        BY <1>7, <2>1, Takes
<1>. QED
    BY <1>2, <1>3, <1>4, <1>5, <1>6, <1>7 DEF Next

(* Blocks of one size make a sum that is a product. *)
LEMMA SumOfSame ==
    ASSUME NEW s, Sized(s), NEW z \in Nat, \A n \in 1 .. Len(s) : s[n].size = z
    PROVE  SizesOf(s) = Len(s) * z
<1>1. PICK f : Runs(s, f)
    BY Runs1
<1> DEFINE Multiple == {n \in Nat : n <= Len(s) => f[n] = n * z}
<1>2. 0 \in Multiple
    <2>1. f[0] = 0
        BY <1>1, RunsSum
    <2>. QED
        BY <2>1
<1>3. ASSUME NEW n \in Nat, n \in Multiple PROVE n + 1 \in Multiple
    <2>. SUFFICES ASSUME n + 1 <= Len(s) PROVE f[n + 1] = (n + 1) * z
        OBVIOUS
    <2>1. Len(s) \in Nat /\ n <= Len(s) /\ n + 1 \in 1 .. Len(s) /\ (n + 1) - 1 = n
        BY DEF Sized
    <2>2. f[n + 1] = f[n] + z /\ f[n] = n * z
        BY ZenonT(40), <1>1, <1>3, <2>1, RunsSum
    <2>3. (n + 1) * z = n * z + z
        OBVIOUS
    <2>. QED
        BY <2>2, <2>3
<1>4. Nat \subseteq Multiple
    <2>. HIDE DEF Multiple
    <2>. QED
        BY <1>2, <1>3, AllNat
<1>5. Len(s) \in Nat /\ SizesOf(s) = f[Len(s)]
    BY <1>1, RunsSum DEF Sized
<1>. QED
    BY <1>4, <1>5

(* Four blocks of any size the tree has go into a page.  With PAGE_SIZE    *)
(* 4096 that leaves out rows that make blocks of 1018 and 1019 bytes:      *)
(* PAGE_BLOCK_MAX_SIZE counts 12 bytes of header where there are 20.       *)
FourFit == \A t \in Trees : \A d \in t :
                MinNum * (SizeRequired(d) + SlotSize) <= PageSize - HeaderSize

LEMMA RoomInParts ==
    ASSUME NEW len \in Nat, NEW z \in Nat, NEW ps \in Nat, NEW k \in 2 .. len - 1,
           len * z + 2 * len + 20 <= ps
    PROVE  /\ k * z + 2 * k + 20 + z + 2 <= ps
           /\ (len - k) * z + 2 * (len - k) + 20 + z + 2 <= ps
<1>1. k \in Nat /\ (k + 1) <= len /\ (len - k) + 1 <= len /\ len - k \in Nat
    OBVIOUS
<1>2. (k + 1) * z <= len * z /\ ((len - k) + 1) * z <= len * z
    <2>1. PICK a \in Nat, b \in Nat : len = (k + 1) + a /\ len = ((len - k) + 1) + b
        <3>1. len - (k + 1) \in Nat /\ len = (k + 1) + (len - (k + 1))
              /\ k - 1 \in Nat /\ len = ((len - k) + 1) + (k - 1)
            OBVIOUS
        <3>. QED
            BY <3>1
    <2>2. ((k + 1) + a) * z = (k + 1) * z + a * z
          /\ (((len - k) + 1) + b) * z = ((len - k) + 1) * z + b * z
        BY <1>1
    <2>3. a * z \in Nat /\ b * z \in Nat /\ (k + 1) * z \in Nat /\ ((len - k) + 1) * z \in Nat
        BY <1>1
    <2>. QED
        BY <2>1, <2>2, <2>3
<1>3. (k + 1) * z = k * z + z /\ ((len - k) + 1) * z = (len - k) * z + z
    BY <1>1
<1>4. PICK x \in Nat, y \in Nat, w \in Nat : x = k * z /\ y = (len - k) * z /\ w = len * z
    BY <1>1
<1>. QED
    BY <1>1, <1>2, <1>3, <1>4
LEMMA OfDataKept == Spec => []OfData
<1>1. Init => OfData
    BY InitOfData
<1>2. IInv /\ IInv' /\ OfData /\ [Next]_vars => OfData'
    BY StepOfData
<1>. QED
    BY <1>1, <1>2, Invariant, PTL DEF Spec

(* Pages of one size of blocks, of which four fit, can be split when they  *)
(* refuse another, and either part then has room for it: the assertions    *)
(* of insert_leaf().                                                       *)
THEOREM SplitAlwaysMakesRoom ==
    ASSUME FourFit
    PROVE  Spec => []SplitMakesRoom
<1>1. IInv /\ OfData => SplitMakesRoom
    <2>. SUFFICES ASSUME IInv, OfData, NEW d \in data, NEW p \in Live,
                         Cardinality({SizeRequired(e) : e \in data}) = 1,
                         ~Accepts(page[p], SizeRequired(d))
                  PROVE  /\ Len(page[p].slots) >= MinNum
                         /\ LET k == LowerNum(page[p]) IN
                               /\ Accepts(Lower(page[p], k), SizeRequired(d))
                               /\ Accepts(Upper(page[p], k), SizeRequired(d))
        BY DEF SplitMakesRoom
    <2>1. PageOK(page[p]) /\ Kind(page[p], Kinds) /\ data \in Trees
        BY DEF IInv, OfData
    <2>2. \A e \in data : e \in Nat \ {0} /\ SizeRequired(e) \in 9 .. MaxBlock
        BY <2>1, VariantAssumption, RemainIs DEF VariantAssumption
    <2>3. PICK z \in 9 .. MaxBlock : z = SizeRequired(d)
        BY <2>2
    <2>4. Kinds = {z}
        <3>1. Kinds \in SUBSET (9 .. MaxBlock) /\ z \in Kinds
            BY <2>2, <2>3 DEF Kinds
        <3>2. IsFiniteSet(9 .. MaxBlock)
            BY FS_Interval, Numbers
        <3>3. IsFiniteSet(Kinds) /\ Cardinality(Kinds) = 1
            BY <3>1, <3>2, FS_Subset DEF Kinds
        <3>4. PICK x : Kinds = {x}
            BY <3>3, FS_Singleton
        <3>. QED
            BY <3>1, <3>4
    <2>5. PICK fr \in Nat, len \in Nat, ps \in Nat :
                fr = page[p].freeSize /\ len = Len(page[p].slots) /\ ps = PageSize
        BY <2>1, Free, Numbers
    <2>6. z \in Nat /\ SizesOf(page[p].slots) = len * z
        <3>1. \A n \in 1 .. Len(page[p].slots) : page[p].slots[n].size = z
            BY <2>1, <2>4 DEF Kind
        <3>2. Sized(page[p].slots) /\ z \in Nat
            BY <2>1, Free
        <3>. QED
            BY <3>1, <3>2, <2>5, SumOfSame
    <2>7. fr + len * z + 2 * len + 20 = ps
        BY <2>1, <2>5, <2>6, Free
    <2>8. ~(fr >= z + 2)
        BY <2>3, <2>5, Numbers DEF Accepts
    <2>9. 4 * (z + 2) + 20 <= ps
        <3>1. MinNum * (z + SlotSize) <= PageSize - HeaderSize
            BY <2>1, <2>3 DEF FourFit
        <3>. QED
            BY <3>1, <2>5, <2>6, Numbers
    <2>10. len >= 4
        <3>. SUFFICES ASSUME len \in {0, 1, 2, 3} PROVE FALSE
            OBVIOUS
        <3>1. (len = 0 => len * z = 0) /\ (len = 1 => len * z = z)
              /\ (len = 2 => len * z = 2 * z) /\ (len = 3 => len * z = 3 * z)
            BY <2>6
        <3>. QED
            BY <2>6, <2>7, <2>8, <2>9, <3>1
    <2>11. PICK k : k = LowerNum(page[p])
        OBVIOUS
    <2>12. /\ k \in 2 .. len - 1
           /\ Suffix(page[p], k) + 2 * (len - k) + 20 <= PageSize
        BY <2>1, <2>5, <2>10, <2>11, LowerNumFits, Numbers
    <2>13. k \in 0 .. Len(page[p].slots) /\ k \in Nat /\ len - k \in Nat
        <3>1. k \in 2 .. len - 1
            BY <2>12
        <3>2. k \in 0 .. len /\ k \in Nat /\ len - k \in Nat
            BY <3>1
        <3>. QED
            BY <3>2, <2>5
    <2>14. /\ PageOK(Lower(page[p], k)) /\ PageOK(Upper(page[p], k))
           /\ Len(Lower(page[p], k).slots) = k
           /\ Len(Upper(page[p], k).slots) = len - k
           /\ Kind(Lower(page[p], k), Kinds) /\ Kind(Upper(page[p], k), Kinds)
        BY <2>1, <2>5, <2>12, <2>13, LowerKeeps, UpperKeeps, SplitKind
    <2>15. /\ k * z + 2 * k + 20 + z + 2 <= ps
           /\ (len - k) * z + 2 * (len - k) + 20 + z + 2 <= ps
        <3>1. len * z + 2 * len + 20 <= ps
            <4>1. PICK w \in Nat : w = len * z
                BY <2>6
            <4>. QED
                BY <4>1, <2>7
        <3>. QED
            BY <3>1, <2>6, <2>12, RoomInParts
    <2>16. ASSUME NEW q, PageOK(q), Kind(q, Kinds), NEW n \in Nat, Len(q.slots) = n,
                  n * z + 2 * n + 20 + z + 2 <= ps
           PROVE  Accepts(q, z)
        <3>1. \A i \in 1 .. Len(q.slots) : q.slots[i].size = z
            BY <2>4, <2>16 DEF Kind
        <3>2. Sized(q.slots)
            BY <2>16, Free
        <3>3. SizesOf(q.slots) = n * z
            BY <3>1, <3>2, <2>6, <2>16, SumOfSame
        <3>4. PICK f \in Nat, w \in Nat : f = q.freeSize /\ w = n * z
            BY <2>6, <2>16, Free
        <3>5. f + w + 2 * n + 20 = ps
            BY <3>3, <3>4, <2>5, <2>16, Free
        <3>6. f >= z + 2
            BY SMTT(40), <3>4, <3>5, <2>6, <2>16
        <3>. QED
            BY <3>4, <3>6, Numbers DEF Accepts
    <2>17. Accepts(Lower(page[p], k), z) /\ Accepts(Upper(page[p], k), z)
        BY <2>13, <2>14, <2>15, <2>16
    <2>. QED
        BY <2>3, <2>5, <2>10, <2>11, <2>17, Numbers
<1>. QED
    BY <1>1, Invariant, OfDataKept, PTL
-----------------------------------------------------------------------------
(* Overflow pages.  The blocks of a page name the first of their chains;   *)
(* 0 is none.                                                              *)
Named(s, o) == \E n \in 1 .. Len(s) : s[n].ov = o

Heads(s) == {o \in 1 .. MaxOv : Named(s, o)}

Once(s) == \A i, j \in 1 .. Len(s) : s[i].ov = s[j].ov /\ s[i].ov # 0 => i = j

(* t is s but for one block. *)
LessOne(s, t, i) ==
    /\ Len(s) = Len(t) + 1
    /\ \A n \in 1 .. Len(t) : n < i => t[n].ov = s[n].ov
    /\ \A n \in 1 .. Len(t) : n >= i => t[n].ov = s[n + 1].ov

LEMMA NamedLessOne ==
    ASSUME NEW s, NEW t, Len(t) \in Nat, NEW i \in 1 .. Len(s), LessOne(s, t, i)
    PROVE  /\ \A o : Named(s, o) <=> Named(t, o) \/ o = s[i].ov
           /\ Once(s) => Once(t) /\ (s[i].ov # 0 => ~Named(t, s[i].ov))
           /\ Once(t) /\ (s[i].ov # 0 => ~Named(t, s[i].ov)) => Once(s)
<1>1. PICK m \in Nat : m = Len(t)
    OBVIOUS
<1>2. Len(s) = m + 1 /\ i \in 1 .. m + 1
    BY <1>1 DEF LessOne
<1> DEFINE from(n) == IF n < i THEN n ELSE n + 1
<1>3. \A n \in 1 .. m : /\ from(n) \in 1 .. m + 1 /\ from(n) # i
                        /\ t[n].ov = s[from(n)].ov
    BY <1>1, <1>2 DEF LessOne
<1>4. \A n, k \in 1 .. m : n # k => from(n) # from(k)
    BY <1>2
<1>5. \A n \in 1 .. m + 1 : n = i \/ \E k \in 1 .. m : from(k) = n
    <2>. TAKE n \in 1 .. m + 1
    <2>1. CASE n < i
        <3>1. n \in 1 .. m /\ from(n) = n
            BY <1>2, <2>1
        <3>. QED
            BY <3>1
    <2>2. CASE n > i
        <3>1. n - 1 \in 1 .. m /\ from(n - 1) = n
            BY <1>2, <2>2
        <3>. QED
            BY <3>1
    <2>. QED
        BY <1>2, <2>1, <2>2
<1>. HIDE DEF from
<1>6. /\ \A o : Named(s, o) <=> \E n \in 1 .. m + 1 : s[n].ov = o
      /\ \A o : Named(t, o) <=> \E n \in 1 .. m : t[n].ov = o
      /\ Once(s) <=> \A j, k \in 1 .. m + 1 : s[j].ov = s[k].ov /\ s[j].ov # 0 => j = k
      /\ Once(t) <=> \A j, k \in 1 .. m : t[j].ov = t[k].ov /\ t[j].ov # 0 => j = k
    BY <1>1, <1>2 DEF Named, Once
<1>7. \A o : Named(s, o) <=> Named(t, o) \/ o = s[i].ov
    <2>. TAKE o
    <2>1. ASSUME Named(s, o) PROVE Named(t, o) \/ o = s[i].ov
        <3>1. PICK n \in 1 .. m + 1 : s[n].ov = o
            BY <1>6, <2>1
        <3>2. CASE n = i
            BY <3>1, <3>2
        <3>3. CASE \E k \in 1 .. m : from(k) = n
            BY <1>3, <1>6, <3>1, <3>3
        <3>. QED
            BY <1>5, <3>2, <3>3
    <2>2. ASSUME Named(t, o) PROVE Named(s, o)
        <3>1. PICK n \in 1 .. m : t[n].ov = o
            BY <1>6, <2>2
        <3>. QED
            BY <1>3, <1>6, <3>1
    <2>3. Named(s, s[i].ov)
        BY <1>2, <1>6
    <2>. QED
        BY <2>1, <2>2, <2>3
<1>8. ASSUME Once(s) PROVE Once(t) /\ (s[i].ov # 0 => ~Named(t, s[i].ov))
    <2>1. ASSUME NEW j \in 1 .. m, NEW k \in 1 .. m, t[j].ov = t[k].ov, t[j].ov # 0
          PROVE  j = k
        <3>1. s[from(j)].ov = s[from(k)].ov /\ s[from(j)].ov # 0
            BY <1>3, <2>1
        <3>2. from(j) = from(k)
            BY <1>3, <1>6, <1>8, <3>1
        <3>. QED
            BY <1>4, <3>2
    <2>2. ASSUME NEW j \in 1 .. m, t[j].ov = s[i].ov, s[i].ov # 0 PROVE FALSE
        <3>1. s[from(j)].ov = s[i].ov /\ s[from(j)].ov # 0 /\ from(j) # i
            BY <1>3, <2>2
        <3>. QED
            BY <1>2, <1>3, <1>6, <1>8, <3>1
    <2>. QED
        BY <1>6, <2>1, <2>2
<1>9. ASSUME Once(t), s[i].ov # 0 => ~Named(t, s[i].ov) PROVE Once(s)
    <2>1. ASSUME NEW j \in 1 .. m + 1, NEW k \in 1 .. m + 1, s[j].ov = s[k].ov, s[j].ov # 0
          PROVE  j = k
        <3>1. CASE j = i /\ k = i
            BY <3>1
        <3>2. ASSUME NEW x \in 1 .. m, from(x) = k, j = i PROVE FALSE
            BY ZenonT(40), <1>3, <1>6, <1>9, <2>1, <3>2
        <3>3. ASSUME NEW x \in 1 .. m, from(x) = j, k = i PROVE FALSE
            BY <1>3, <1>6, <1>9, <2>1, <3>3
        <3>4. ASSUME NEW x \in 1 .. m, from(x) = j, NEW y \in 1 .. m, from(y) = k PROVE j = k
            <4>1. t[x].ov = t[y].ov /\ t[x].ov # 0
                BY <1>3, <2>1, <3>4
            <4>2. x = y
                BY <1>6, <1>9, <4>1
            <4>. QED
                BY <3>4, <4>2
        <3>. QED
            BY <1>5, <3>1, <3>2, <3>3, <3>4
    <2>. QED
        BY <1>6, <2>1
<1>. QED
    BY <1>7, <1>8, <1>9

(* The blocks of s are those of t and those of u. *)
Joined(s, t, u) ==
    /\ Len(s) = Len(t) + Len(u)
    /\ \A n \in 1 .. Len(t) : s[n].ov = t[n].ov
    /\ \A n \in 1 .. Len(u) : s[Len(t) + n].ov = u[n].ov

LEMMA NamedJoined ==
    ASSUME NEW s, NEW t, NEW u, Len(t) \in Nat, Len(u) \in Nat, Joined(s, t, u)
    PROVE  /\ \A o : Named(s, o) <=> Named(t, o) \/ Named(u, o)
           /\ Once(s) => /\ Once(t) /\ Once(u)
                         /\ \A o : o # 0 /\ Named(t, o) => ~Named(u, o)
           /\ /\ Once(t) /\ Once(u)
              /\ \A o : o # 0 /\ Named(t, o) => ~Named(u, o)
              => Once(s)
<1>1. PICK m \in Nat, k \in Nat : m = Len(t) /\ k = Len(u)
    OBVIOUS
<1>2. /\ Len(s) = m + k
      /\ \A n \in 1 .. m : n \in 1 .. m + k /\ s[n].ov = t[n].ov
      /\ \A n \in 1 .. k : m + n \in 1 .. m + k /\ s[m + n].ov = u[n].ov
    BY <1>1 DEF Joined
<1>3. \A n \in 1 .. m + k : n \in 1 .. m \/ \E x \in 1 .. k : n = m + x
    <2>. TAKE n \in 1 .. m + k
    <2>1. CASE n > m
        <3>1. n - m \in 1 .. k /\ n = m + (n - m)
            BY <2>1
        <3>. QED
            BY <3>1
    <2>. QED
        BY <2>1
<1>4. \A n \in 1 .. m, x \in 1 .. k : n # m + x
    OBVIOUS
<1>5. \A x, y \in 1 .. k : m + x = m + y => x = y
    OBVIOUS
<1>6. /\ \A o : Named(s, o) <=> \E n \in 1 .. m + k : s[n].ov = o
      /\ \A o : Named(t, o) <=> \E n \in 1 .. m : t[n].ov = o
      /\ \A o : Named(u, o) <=> \E n \in 1 .. k : u[n].ov = o
      /\ Once(s) <=> \A i, j \in 1 .. m + k : s[i].ov = s[j].ov /\ s[i].ov # 0 => i = j
      /\ Once(t) <=> \A i, j \in 1 .. m : t[i].ov = t[j].ov /\ t[i].ov # 0 => i = j
      /\ Once(u) <=> \A i, j \in 1 .. k : u[i].ov = u[j].ov /\ u[i].ov # 0 => i = j
    BY <1>1, <1>2 DEF Named, Once
<1>7. \A o : Named(s, o) <=> Named(t, o) \/ Named(u, o)
    <2>. TAKE o
    <2>1. ASSUME Named(s, o) PROVE Named(t, o) \/ Named(u, o)
        <3>1. PICK n \in 1 .. m + k : s[n].ov = o
            BY <1>6, <2>1
        <3>2. CASE n \in 1 .. m
            BY <1>2, <1>6, <3>1, <3>2
        <3>3. CASE \E x \in 1 .. k : n = m + x
            <4>1. PICK x \in 1 .. k : n = m + x
                BY <3>3
            <4>2. u[x].ov = o
                BY <1>2, <3>1, <4>1
            <4>. QED
                BY <1>6, <4>2
        <3>. QED
            BY <1>3, <3>2, <3>3
    <2>2. ASSUME Named(t, o) PROVE Named(s, o)
        BY <1>2, <1>6, <2>2
    <2>3. ASSUME Named(u, o) PROVE Named(s, o)
        <3>1. PICK n \in 1 .. k : u[n].ov = o
            BY <1>6, <2>3
        <3>. QED
            BY <1>2, <1>6, <3>1
    <2>. QED
        BY <2>1, <2>2, <2>3
<1>8. ASSUME Once(s)
      PROVE  Once(t) /\ Once(u) /\ \A o : o # 0 /\ Named(t, o) => ~Named(u, o)
    <2>1. Once(t)
        BY <1>2, <1>6, <1>8
    <2>2. ASSUME NEW i \in 1 .. k, NEW j \in 1 .. k, u[i].ov = u[j].ov, u[i].ov # 0
          PROVE  i = j
        <3>1. s[m + i].ov = s[m + j].ov /\ s[m + i].ov # 0
            BY <1>2, <2>2
        <3>2. m + i = m + j
            BY <1>2, <1>6, <1>8, <3>1
        <3>. QED
            BY <1>5, <3>2
    <2>3. ASSUME NEW i \in 1 .. m, NEW j \in 1 .. k, t[i].ov = u[j].ov, t[i].ov # 0
          PROVE  FALSE
        <3>1. s[i].ov = s[m + j].ov /\ s[i].ov # 0
            BY <1>2, <2>3
        <3>2. i = m + j
            BY <1>2, <1>6, <1>8, <3>1
        <3>. QED
            BY <1>4, <3>2
    <2>. QED
        BY <1>6, <2>1, <2>2, <2>3
<1>9. ASSUME Once(t), Once(u), \A o : o # 0 /\ Named(t, o) => ~Named(u, o)
      PROVE  Once(s)
    <2>1. ASSUME NEW i \in 1 .. m + k, NEW j \in 1 .. m + k, s[i].ov = s[j].ov, s[i].ov # 0
          PROVE  i = j
        <3>1. CASE i \in 1 .. m /\ j \in 1 .. m
            BY <1>2, <1>6, <1>9, <2>1, <3>1
        <3>2. ASSUME NEW x \in 1 .. k, j = m + x, i \in 1 .. m PROVE FALSE
            <4>1. t[i].ov = u[x].ov /\ t[i].ov # 0
                BY <1>2, <2>1, <3>2
            <4>. QED
                BY ZenonT(40), <1>6, <1>9, <3>2, <4>1
        <3>3. ASSUME NEW x \in 1 .. k, i = m + x, j \in 1 .. m PROVE FALSE
            <4>1. t[j].ov = u[x].ov /\ t[j].ov # 0
                BY <1>2, <2>1, <3>3
            <4>. QED
                BY ZenonT(40), <1>6, <1>9, <3>3, <4>1
        <3>4. ASSUME NEW x \in 1 .. k, i = m + x, NEW y \in 1 .. k, j = m + y PROVE i = j
            <4>1. u[x].ov = u[y].ov /\ u[x].ov # 0
                BY <1>2, <2>1, <3>4
            <4>2. x = y
                BY <1>6, <1>9, <4>1
            <4>. QED
                BY <3>4, <4>2
        <3>. QED
            BY <1>3, <3>1, <3>2, <3>3, <3>4
    <2>. QED
        BY <1>6, <2>1
<1>. QED
    BY <1>7, <1>8, <1>9

(* Packing leaves the names alone. *)
LEMMA DefragmentOv ==
    ASSUME NEW p, PageOK(p)
    PROVE  \A n \in 1 .. Len(p.slots) : Defragment(p).slots[n].ov = p.slots[n].ov
<1>1. p \in Page /\ DOMAIN p.slots = 1 .. Len(p.slots) /\ p.slots \in Seq(Block)
    BY Free DEF PageOK
<1>2. PICK x : x = [n \in 1 .. Len(p.slots) |-> PageSize - SizesFrom(p.slots, p.slots[n].at)]
    OBVIOUS
<1>3. PICK t : t = [n \in 1 .. Len(p.slots) |-> [p.slots[n] EXCEPT !.at = x[n]]]
    OBVIOUS
<1>4. Defragment(p) = [p EXCEPT !.slots = t, !.free = <<>>, !.bottom = SizesOf(p.slots)]
    BY <1>1, <1>2, <1>3 DEF Defragment
<1>5. Defragment(p).slots = t
    BY <1>1, <1>4 DEF Page
<1>6. ASSUME NEW n \in 1 .. Len(p.slots) PROVE t[n].ov = p.slots[n].ov
    <2>1. PICK b \in Block : b = p.slots[n]
        BY <1>1, Blocks9
    <2>2. t[n] = [b EXCEPT !.at = x[n]]
        BY <1>3, <2>1
    <2>3. t[n].ov = b.ov
        BY <2>2 DEF Block
    <2>. QED
        BY <2>1, <2>3
<1>. QED
    BY <1>5, <1>6

LEMMA AllocateOv ==
    ASSUME NEW p, PageOK(p), NEW sz
    PROVE  LET s == Allocate(p, sz).page.slots IN
           /\ Len(s) = Len(p.slots)
           /\ \A n \in 1 .. Len(p.slots) : s[n].ov = p.slots[n].ov /\ s[n].size = p.slots[n].size
<1>1. PICK u : u = IF NeedsPacking(p, sz) THEN Defragment(p) ELSE p
    OBVIOUS
<1>2. /\ PageOK(u) /\ Len(u.slots) = Len(p.slots)
      /\ \A n \in 1 .. Len(p.slots) : u.slots[n].ov = p.slots[n].ov
      /\ \A n \in 1 .. Len(p.slots) : u.slots[n].size = p.slots[n].size
    BY <1>1, DefragmentKeeps, DefragmentOv
<1>3. u \in Page
    BY <1>2 DEF PageOK
<1>4. PICK q : q = Allocate(p, sz).page
    OBVIOUS
<1>5. q.slots = u.slots
    <2>1. CASE HeadFits(u, sz)
        <3>1. q = [u EXCEPT !.free = RestOfHead(Head(u.free), sz) \o Tail(u.free),
                            !.freeSize = u.freeSize - sz]
            BY <1>1, <1>4, <2>1 DEF Allocate
        <3>. QED
            BY <1>3, <3>1 DEF Page
    <2>2. CASE ~HeadFits(u, sz)
        <3>1. q = [u EXCEPT !.bottom = u.bottom + sz, !.freeSize = u.freeSize - sz]
            BY <1>1, <1>4, <2>2 DEF Allocate
        <3>. QED
            BY <1>3, <3>1 DEF Page
    <2>. QED
        BY <2>1, <2>2
<1>. QED
    BY <1>2, <1>4, <1>5

LEMMA InsertedOv ==
    ASSUME NEW p, NEW block, Room(p, block.size), block.ov \in 0 .. MaxOv,
           NEW pos \in 1 .. Len(p.slots) + 1
    PROVE  LET s == Inserted(p, pos, block).slots IN
           LessOne(s, p.slots, pos) /\ s[pos].ov = block.ov
<1>1. PICK q, a : q = Inserted(p, pos, block) /\ a = Allocate(p, block.size).page.slots
    OBVIOUS
<1>2. PICK l \in Nat : l = Len(p.slots)
    BY Free DEF Room
<1>3. /\ Len(q.slots) = l + 1 /\ Without(q.slots, a, pos) /\ q.slots[pos].ov = block.ov
    BY <1>1, <1>2, InsertedKeeps
<1>4. Len(a) = l /\ \A n \in 1 .. l : a[n].ov = p.slots[n].ov
    BY <1>1, <1>2, AllocateOv DEF Room
<1>5. LessOne(q.slots, p.slots, pos)
    BY <1>2, <1>3, <1>4 DEF Without, LessOne
<1>. QED
    BY <1>1, <1>3, <1>5

LEMMA ErasedOv ==
    ASSUME NEW p, PageOK(p), NEW pos \in 1 .. Len(p.slots)
    PROVE  LessOne(p.slots, Erased(p, pos).slots, pos)
<1>1. PICK s, t : s = p.slots /\ t = Erased(p, pos).slots
    OBVIOUS
<1>2. Without(s, t, pos)
    BY <1>1, ErasedKeeps
<1>. QED
    BY <1>1, <1>2 DEF Without, LessOne

LEMMA UpperOv ==
    ASSUME NEW p, PageOK(p), NEW k \in 0 .. Len(p.slots)
    PROVE  \A n \in 1 .. Len(p.slots) - k : Upper(p, k).slots[n].ov = p.slots[k + n].ov
<1>1. p.slots \in Seq(Block) /\ Len(p.slots) \in Nat
    BY Free
<1>2. PICK len \in Nat : len = Len(p.slots)
    BY <1>1
<1>3. PICK x : x = [i \in 1 .. len - k |-> PageSize - SizesOf(SubSeq(p.slots, k + i, Len(p.slots)))]
    OBVIOUS
<1>4. PICK t : t = [i \in 1 .. len - k |-> [p.slots[k + i] EXCEPT !.at = x[i]]]
    OBVIOUS
<1>5. Upper(p, k).slots = t
    <2>1. Upper(p, k) = [NewPage EXCEPT !.slots = t, !.freeSize = @ - Suffix(p, k),
                                        !.bottom = Suffix(p, k)]
        BY <1>2, <1>3, <1>4 DEF Upper
    <2>. QED
        BY <2>1 DEF NewPage
<1>6. ASSUME NEW n \in 1 .. len - k PROVE t[n].ov = p.slots[k + n].ov
    <2>1. k + n \in 1 .. len
        BY <1>2
    <2>2. PICK b \in Block : b = p.slots[k + n]
        BY <1>1, <1>2, <2>1, Blocks9
    <2>3. t[n] = [b EXCEPT !.at = x[n]]
        BY <1>4, <2>2
    <2>4. t[n].ov = b.ov
        BY <2>3 DEF Block
    <2>. QED
        BY <2>2, <2>4
<1>. QED
    BY <1>2, <1>5, <1>6

(* The two pages of a split have the blocks of the one. *)
LEMMA SplitOv ==
    ASSUME NEW p, PageOK(p), NEW k \in 0 .. Len(p.slots),
           Suffix(p, k) + 2 * (Len(p.slots) - k) + 20 <= PageSize
    PROVE  Joined(p.slots, Lower(p, k).slots, Upper(p, k).slots)
<1>1. PICK l \in Nat : l = Len(p.slots)
    BY Free
<1>2. /\ Len(Lower(p, k).slots) = k
      /\ \A n \in 1 .. k : Lower(p, k).slots[n].ov = p.slots[n].ov
    BY LowerKeeps
<1>3. Len(Upper(p, k).slots) = l - k
    BY ZenonT(40), <1>1, UpperKeeps
<1>4. \A n \in 1 .. l - k : Upper(p, k).slots[n].ov = p.slots[k + n].ov
    BY <1>1, UpperOv
<1>5. k \in 0 .. l
    BY <1>1
<1>. QED
    BY <1>1, <1>2, <1>3, <1>4, <1>5 DEF Joined

(* Blocks that are alike hold the same item, wherever they lie. *)
Alike(a, b) == a.size = b.size /\ a.ov = b.ov

(* s has the blocks of t and then those of u. *)
Both(s, t, u) ==
    /\ Len(s) = Len(t) + Len(u)
    /\ \A n \in 1 .. Len(t) : Alike(s[n], t[n])
    /\ \A n \in 1 .. Len(u) : Alike(s[Len(t) + n], u[n])

(* That of a merge has those of the two. *)
LEMMA MergedBlocks ==
    ASSUME NEW p, PageOK(p), NEW q, PageOK(q)
    PROVE  Both(Merged(p, q).slots, p.slots, q.slots)
<1> DEFINE d == Defragment(p)
           x(i) == PageSize - d.bottom - SizesOf(SubSeq(q.slots, 1, i))
           t == [i \in DOMAIN q.slots |-> [q.slots[i] EXCEPT !.at = x(i)]]
           T == Range(d.slots) \cup Range(t)
<1>1. /\ PageOK(d) /\ Len(d.slots) = Len(p.slots)
      /\ \A n \in 1 .. Len(p.slots) : d.slots[n].ov = p.slots[n].ov
      /\ \A n \in 1 .. Len(p.slots) : d.slots[n].size = p.slots[n].size
    BY DefragmentKeeps, DefragmentOv
<1>. HIDE DEF d
<1>2. /\ d.slots \in Seq(Block) /\ q.slots \in Seq(Block) /\ d \in Page
      /\ DOMAIN q.slots = 1 .. Len(q.slots)
    BY <1>1, Free DEF PageOK
<1>3. PICK n \in Nat, m \in Nat : n = Len(d.slots) /\ m = Len(q.slots)
    BY <1>1, Free
<1>. HIDE DEF x
<1>4. \A i \in 1 .. m : t[i].ov = q.slots[i].ov /\ t[i].size = q.slots[i].size
    <2>. SUFFICES ASSUME NEW i \in 1 .. m
                  PROVE  t[i].ov = q.slots[i].ov /\ t[i].size = q.slots[i].size
        OBVIOUS
    <2>1. q.slots[i] \in Block
        BY <1>2, <1>3, Blocks9
    <2>2. t[i] = [q.slots[i] EXCEPT !.at = x(i)]
        BY <1>2, <1>3
    <2>3. PICK b : b = q.slots[i] /\ b \in Block
        BY <2>1
    <2>4. [b EXCEPT !.at = x(i)].ov = b.ov /\ [b EXCEPT !.at = x(i)].size = b.size
        BY <2>3 DEF Block
    <2>. QED
        BY <2>2, <2>3, <2>4
<1>5. DOMAIN t = 1 .. m /\ Len(t) = m /\ \A i \in 1 .. m : t[i] \in T
    <2>1. DOMAIN t = 1 .. m
        BY <1>2, <1>3
    <2>2. \A i \in 1 .. m : t[i] \in T
        BY <2>1 DEF Range
    <2>3. t = [i \in 1 .. m |-> t[i]]
        BY <1>2, <1>3
    <2>. HIDE DEF t
    <2>4. Len(t) = m
        BY <2>3
    <2>. QED
        BY <2>1, <2>2, <2>4
<1>6. t \in Seq(T) /\ d.slots \in Seq(T)
    <2>1. t \in Seq(T)
        <3>1. t = [i \in 1 .. m |-> t[i]]
            BY <1>2, <1>3
        <3>. HIDE DEF t, T
        <3>2. t \in [1 .. m -> T]
            BY <1>5, <3>1
        <3>. QED
            BY <3>2
    <2>2. \A i \in 1 .. n : d.slots[i] \in T
        BY <1>2, <1>3 DEF Range
    <2>. HIDE DEF T
    <2>3. d.slots \in Seq(T)
        BY <2>2, <1>2, <1>3
    <2>. QED
        BY <2>1, <2>3
<1>7. Merged(p, q).slots = d.slots \o t
    <2>1. PICK u : u = Merged(p, q)
        OBVIOUS
    <2>2. u = [d EXCEPT !.slots = d.slots \o t, !.bottom = d.bottom + SizesOf(q.slots),
                        !.freeSize = d.freeSize - SpaceReq(q), !.next = q.next]
        BY <2>1 DEF Merged, d, x
    <2>. HIDE DEF t
    <2>. QED
        BY <1>2, <2>1, <2>2 DEF Page
<1>. HIDE DEF t, T
<1>8. /\ Len(d.slots \o t) = n + m
      /\ \A i \in 1 .. n : (d.slots \o t)[i] = d.slots[i]
      /\ \A i \in 1 .. m : (d.slots \o t)[n + i] = t[i]
    <2>1. m = Len(t)
        BY <1>5
    <2>. QED
        BY <1>3, <1>6, <2>1, Concat
<1>9. PICK s : s = d.slots \o t
    OBVIOUS
<1>10. /\ Len(p.slots) = n /\ Len(q.slots) = m /\ Len(s) = n + m
       /\ \A i \in 1 .. n : s[i].ov = p.slots[i].ov
       /\ \A i \in 1 .. m : s[n + i].ov = q.slots[i].ov
    BY ZenonT(40), <1>1, <1>3, <1>4, <1>8, <1>9
<1>11. /\ \A i \in 1 .. n : s[i].size = p.slots[i].size
       /\ \A i \in 1 .. m : s[n + i].size = q.slots[i].size
    BY ZenonT(40), <1>1, <1>3, <1>4, <1>8, <1>9
<1>. QED
    BY <1>7, <1>9, <1>10, <1>11 DEF Both, Alike

LEMMA MergedOv ==
    ASSUME NEW p, PageOK(p), NEW q, PageOK(q)
    PROVE  Joined(Merged(p, q).slots, p.slots, q.slots)
<1>1. Both(Merged(p, q).slots, p.slots, q.slots)
    BY MergedBlocks
<1>2. PICK s, t, u : s = Merged(p, q).slots /\ t = p.slots /\ u = q.slots
    OBVIOUS
<1>3. Both(s, t, u)
    BY <1>1, <1>2
<1>4. Joined(s, t, u)
    BY <1>3 DEF Both, Alike, Joined
<1>. QED
    BY <1>2, <1>4
-----------------------------------------------------------------------------
(* No two blocks of the pages name the same overflow page. *)
NamedApart(g) ==
    /\ \A p \in 1 .. MaxPage : Once(g[p].slots)
    /\ \A p, q \in 1 .. MaxPage : p # q => Heads(g[p].slots) \cap Heads(g[q].slots) = {}

AllHeads(g) == UNION {Heads(g[p].slots) : p \in 1 .. MaxPage}

(* One page changes.  What it names anew nothing named. *)
LEMMA OnePage ==
    ASSUME NEW g, NamedApart(g), NEW h, NEW p \in 1 .. MaxPage,
           \A r \in 1 .. MaxPage : r # p => h[r].slots = g[r].slots,
           Once(h[p].slots),
           Heads(h[p].slots) \cap AllHeads(g) \subseteq Heads(g[p].slots)
    PROVE  /\ NamedApart(h)
           /\ AllHeads(h) = (AllHeads(g) \ Heads(g[p].slots)) \cup Heads(h[p].slots)
<1> DEFINE f(r) == Heads(g[r].slots)
           k(r) == Heads(h[r].slots)
<1>1. \A r \in 1 .. MaxPage : r # p => k(r) = f(r) /\ Once(h[r].slots)
    BY DEF NamedApart
<1>2. \A r, q \in 1 .. MaxPage : r # q => f(r) \cap f(q) = {}
    BY DEF NamedApart
<1>3. k(p) \cap UNION {f(r) : r \in 1 .. MaxPage} \subseteq f(p)
    BY DEF AllHeads
<1>. HIDE DEF f, k
<1>4. \A r \in 1 .. MaxPage : r # p => k(r) \cap k(p) = {}
    BY <1>1, <1>2, <1>3
<1>5. \A r, q \in 1 .. MaxPage : r # q => k(r) \cap k(q) = {}
    BY <1>1, <1>2, <1>4
<1>6. \A r \in 1 .. MaxPage : r # p => k(r) \cap f(p) = {}
    BY <1>1, <1>2
<1>7. \A o : (\E r \in 1 .. MaxPage : o \in k(r))
                <=> ((\E r \in 1 .. MaxPage : o \in f(r)) /\ o \notin f(p)) \/ o \in k(p)
    <2>1. ASSUME NEW r \in 1 .. MaxPage, NEW o \in k(r), o \notin k(p)
          PROVE  o \in f(r) /\ o \notin f(p)
        <3>1. r # p
            BY <2>1
        <3>. QED
            BY <1>1, <1>6, <2>1, <3>1
    <2>2. ASSUME NEW r \in 1 .. MaxPage, NEW o \in f(r), o \notin f(p) PROVE o \in k(r)
        <3>1. r # p
            BY <2>2
        <3>. QED
            BY <1>1, <2>2, <3>1
    <2>. QED
        BY <2>1, <2>2
<1>8. \A r \in 1 .. MaxPage : Once(h[r].slots)
    BY <1>1
<1>9. NamedApart(h)
    BY <1>5, <1>8 DEF NamedApart, k
<1>10. \A o : o \in AllHeads(h) <=> \E r \in 1 .. MaxPage : o \in k(r)
    BY DEF AllHeads, k
<1>11. \A o : o \in AllHeads(g) <=> \E r \in 1 .. MaxPage : o \in f(r)
    BY DEF AllHeads, f
<1>12. \A o : o \in AllHeads(h) <=> (o \in AllHeads(g) /\ o \notin f(p)) \/ o \in k(p)
    BY <1>7, <1>10, <1>11
<1>13. k(p) = Heads(h[p].slots) /\ f(p) = Heads(g[p].slots)
    BY DEF f, k
<1>14. AllHeads(h) = (AllHeads(g) \ f(p)) \cup k(p)
    BY <1>12
<1>. QED
    BY <1>9, <1>13, <1>14

(* Two pages pass blocks to each other. *)
LEMMA TwoPages ==
    ASSUME NEW g, NamedApart(g), NEW h, NEW p \in 1 .. MaxPage, NEW q \in 1 .. MaxPage, p # q,
           \A r \in 1 .. MaxPage : r # p /\ r # q => h[r].slots = g[r].slots,
           Once(h[p].slots), Once(h[q].slots),
           Heads(h[p].slots) \cap Heads(h[q].slots) = {},
           Heads(h[p].slots) \cup Heads(h[q].slots) = Heads(g[p].slots) \cup Heads(g[q].slots)
    PROVE  NamedApart(h) /\ AllHeads(h) = AllHeads(g)
<1> DEFINE f(r) == Heads(g[r].slots)
           k(r) == Heads(h[r].slots)
<1>1. \A r \in 1 .. MaxPage : r # p /\ r # q => k(r) = f(r)
    OBVIOUS
<1>2. \A r, s \in 1 .. MaxPage : r # s => f(r) \cap f(s) = {}
    BY DEF NamedApart
<1>3. k(p) \cap k(q) = {} /\ k(p) \cup k(q) = f(p) \cup f(q)
    OBVIOUS
<1>4. \A r \in 1 .. MaxPage : Once(h[r].slots)
    BY DEF NamedApart
<1>. HIDE DEF f, k
<1>5. \A r \in 1 .. MaxPage : r # p /\ r # q => k(r) \cap k(p) = {} /\ k(r) \cap k(q) = {}
    <2>. TAKE r \in 1 .. MaxPage
    <2>1. r # p /\ r # q => f(r) \cap (f(p) \cup f(q)) = {}
        BY <1>2
    <2>. QED
        BY <1>1, <1>3, <2>1
<1>6. \A r, s \in 1 .. MaxPage : r # s => k(r) \cap k(s) = {}
    <2>. TAKE r, s \in 1 .. MaxPage
    <2>1. CASE r \in {p, q} /\ s \in {p, q}
        BY <1>3, <2>1
    <2>2. CASE r \notin {p, q} /\ s \notin {p, q}
        BY <1>1, <1>2, <2>2
    <2>3. CASE r \in {p, q} /\ s \notin {p, q}
        BY <1>5, <2>3
    <2>4. CASE r \notin {p, q} /\ s \in {p, q}
        BY <1>5, <2>4
    <2>. QED
        BY <2>1, <2>2, <2>3, <2>4
<1>7. UNION {k(r) : r \in 1 .. MaxPage} = UNION {f(r) : r \in 1 .. MaxPage}
    <2>1. ASSUME NEW r \in 1 .. MaxPage, NEW o \in k(r) PROVE \E s \in 1 .. MaxPage : o \in f(s)
        <3>1. CASE r \in {p, q}
            BY <1>3, <2>1, <3>1
        <3>. QED
            BY <1>1, <2>1, <3>1
    <2>2. ASSUME NEW r \in 1 .. MaxPage, NEW o \in f(r) PROVE \E s \in 1 .. MaxPage : o \in k(s)
        <3>1. CASE r \in {p, q}
            BY <1>3, <2>2, <3>1
        <3>. QED
            BY <1>1, <2>2, <3>1
    <2>. QED
        BY <2>1, <2>2
<1>. QED
    BY <1>4, <1>6, <1>7 DEF NamedApart, AllHeads, f, k

(* In terms of heads, one block less. *)
LEMMA HeadsLessOne ==
    ASSUME NEW s, NEW t, Len(t) \in Nat, NEW i \in 1 .. Len(s), LessOne(s, t, i),
           s[i].ov \in 0 .. MaxOv
    PROVE  /\ Heads(s) = Heads(t) \cup ({s[i].ov} \ {0})
           /\ Once(s) => Once(t) /\ s[i].ov \notin Heads(t)
           /\ Once(t) /\ s[i].ov \notin Heads(t) => Once(s)
<1>1. PICK x \in 0 .. MaxOv : x = s[i].ov
    OBVIOUS
<1>2. x # 0 => x \in 1 .. MaxOv
    BY Numbers
<1>3. 0 \notin 1 .. MaxOv
    OBVIOUS
<1>. QED
    BY <1>1, <1>2, <1>3, NamedLessOne DEF Heads

LEMMA HeadsJoined ==
    ASSUME NEW s, NEW t, NEW u, Len(t) \in Nat, Len(u) \in Nat, Joined(s, t, u),
           \A n \in 1 .. Len(t) : t[n].ov \in 0 .. MaxOv
    PROVE  /\ Heads(s) = Heads(t) \cup Heads(u)
           /\ Once(s) => Once(t) /\ Once(u) /\ Heads(t) \cap Heads(u) = {}
           /\ Once(t) /\ Once(u) /\ Heads(t) \cap Heads(u) = {} => Once(s)
<1>1. 0 \notin 1 .. MaxOv
    OBVIOUS
<1>2. \A o : Named(t, o) /\ o # 0 => o \in 1 .. MaxOv
    BY Numbers DEF Named
<1>3. /\ \A o : Named(s, o) <=> Named(t, o) \/ Named(u, o)
      /\ Once(s) => /\ Once(t) /\ Once(u)
                    /\ \A o : o # 0 /\ Named(t, o) => ~Named(u, o)
      /\ /\ Once(t) /\ Once(u)
         /\ \A o : o # 0 /\ Named(t, o) => ~Named(u, o)
         => Once(s)
    BY NamedJoined
<1>. QED
    BY <1>1, <1>2, <1>3 DEF Heads

LEMMA NoHeads ==
    Heads(NoPage.slots) = {} /\ Once(NoPage.slots)
    /\ Heads(NewPage.slots) = {} /\ Once(NewPage.slots)
<1>1. NoPage.slots = <<>> /\ NewPage.slots = <<>> /\ Len(<<>>) = 0
    BY DEF NoPage, NewPage
<1>. QED
    BY <1>1 DEF Heads, Once, Named
-----------------------------------------------------------------------------
(* Chains.  c has the chain that begins at each overflow page.             *)
Follows(c, v) ==
    /\ c \in [0 .. MaxOv -> Seq(1 .. MaxOv)]
    /\ c[0] = <<>>
    /\ \A n \in 1 .. MaxOv : c[n] = <<n>> \o c[v[n].next]

(* Chain, in any overflow pages v. *)
ChainIn(first, v) ==
    LET from[n \in 0 .. MaxOv] == IF n = 0 THEN <<>> ELSE <<n>> \o from[v[n].next]
    IN  from[first]

(* There is no more than one such c. *)
LEMMA ChainInIs ==
    ASSUME NEW c, NEW v, Follows(c, v), v \in OvType
    PROVE  \A n \in 0 .. MaxOv : ChainIn(n, v) = c[n]
<1> DEFINE F(f) == f = [n \in 0 .. MaxOv |-> IF n = 0 THEN <<>> ELSE <<n>> \o f[v[n].next]]
           from == CHOOSE f : F(f)
<1>1. MaxOv \in Nat /\ \A n \in 1 .. MaxOv : v[n].next \in 0 .. MaxOv
    BY Numbers DEF OvType
<1>2. F(from)
    <2>1. c = [n \in 0 .. MaxOv |-> c[n]]
        BY DEF Follows
    <2>2. \A n \in 0 .. MaxOv : c[n] = IF n = 0 THEN <<>> ELSE <<n>> \o c[v[n].next]
        BY <1>1 DEF Follows
    <2>3. F(c)
        BY <2>1, <2>2
    <2>. HIDE DEF F
    <2>. QED
        BY <2>3
<1>3. \A n : ChainIn(n, v) = from[n]
    BY DEF ChainIn
<1>. HIDE DEF from
<1>4. from[0] = <<>> /\ \A n \in 1 .. MaxOv : from[n] = <<n>> \o from[v[n].next]
    <2>1. from = [n \in 0 .. MaxOv |-> IF n = 0 THEN <<>> ELSE <<n>> \o from[v[n].next]]
        BY <1>2
    <2>2. 0 \in 0 .. MaxOv /\ \A n \in 1 .. MaxOv : n \in 0 .. MaxOv /\ n # 0
        BY <1>1
    <2>3. from[0] = <<>>
        BY <2>1, <2>2
    <2>4. \A n \in 1 .. MaxOv : from[n] = <<n>> \o from[v[n].next]
        BY <2>1, <2>2
    <2>. QED
        BY <2>3, <2>4
<1>. HIDE DEF F
<1>5. \A n \in 0 .. MaxOv : Len(c[n]) \in Nat
    <2>1. \A n \in 0 .. MaxOv : c[n] \in Seq(1 .. MaxOv)
        BY DEF Follows
    <2>. QED
        BY <2>1, Elements
<1>6. \A n \in 1 .. MaxOv : Len(c[n]) = Len(c[v[n].next]) + 1
    <2>. TAKE n \in 1 .. MaxOv
    <2>1. PICK t \in Seq(1 .. MaxOv) : t = c[v[n].next]
        BY <1>1 DEF Follows
    <2>2. <<n>> \in Seq(1 .. MaxOv) /\ Len(<<n>>) = 1
        OBVIOUS
    <2>3. Len(<<n>> \o t) = 1 + Len(t) /\ Len(t) \in Nat
        BY <2>1, <2>2, Elements, ConcatProperties
    <2>4. c[n] = <<n>> \o t
        BY <2>1 DEF Follows
    <2>5. PICK x \in Nat : x = Len(t)
        BY <2>3
    <2>. QED
        BY <2>1, <2>3, <2>4, <2>5
<1> DEFINE Good == {k \in Nat : \A n \in 0 .. MaxOv : Len(c[n]) <= k => from[n] = c[n]}
<1>7. 0 \in Good
    <2>. SUFFICES ASSUME NEW n \in 0 .. MaxOv, Len(c[n]) <= 0 PROVE from[n] = c[n]
        OBVIOUS
    <2>1. CASE n = 0
        BY <2>1, <1>4 DEF Follows
    <2>2. CASE n # 0
        <3>1. n \in 1 .. MaxOv /\ v[n].next \in 0 .. MaxOv
            BY <1>1, <2>2
        <3>2. Len(c[n]) = Len(c[v[n].next]) + 1 /\ Len(c[v[n].next]) \in Nat
            BY <1>5, <1>6, <3>1
        <3>. QED
            BY <3>2
    <2>. QED
        BY <2>1, <2>2
<1>8. ASSUME NEW k \in Nat, k \in Good PROVE k + 1 \in Good
    <2>. SUFFICES ASSUME NEW n \in 0 .. MaxOv, Len(c[n]) <= k + 1 PROVE from[n] = c[n]
        OBVIOUS
    <2>1. CASE n = 0
        BY <2>1, <1>4 DEF Follows
    <2>2. CASE n # 0
        <3>1. n \in 1 .. MaxOv /\ v[n].next \in 0 .. MaxOv
            BY <1>1, <2>2
        <3>2. Len(c[n]) = Len(c[v[n].next]) + 1 /\ Len(c[v[n].next]) \in Nat
            BY <1>5, <1>6, <3>1
        <3>3. Len(c[v[n].next]) <= k
            BY <3>2
        <3>4. from[v[n].next] = c[v[n].next]
            BY <1>8, <3>1, <3>3
        <3>. QED
            BY <1>4, <3>1, <3>4 DEF Follows
    <2>. QED
        BY <2>1, <2>2
<1>9. Nat \subseteq Good
    <2>. HIDE DEF Good
    <2>. QED
        BY <1>7, <1>8, AllNat
<1>10. \A n \in 0 .. MaxOv : from[n] = c[n]
    <2>. TAKE n \in 0 .. MaxOv
    <2>1. PICK k \in Nat : k = Len(c[n])
        BY <1>5
    <2>2. k \in Good
        BY <1>9
    <2>. QED
        BY <2>1, <2>2
<1>. QED
    BY <1>3, <1>10

LEMMA ChainIs ==
    ASSUME NEW c, Follows(c, ov), ov \in OvType
    PROVE  \A n \in 0 .. MaxOv : Chain(n) = c[n]
<1>1. \A n : Chain(n) = ChainIn(n, ov)
    BY DEF Chain, ChainIn
<1>. QED
    BY <1>1, ChainInIs

(* o is on the chain s. *)
On(s, o) == \E i \in 1 .. Len(s) : s[i] = o

(* Every page in use is on the chain of one head, and is there once; what  *)
(* is on the chain of a head is in use, and so is the next of it.          *)
Owned(c, v, H) ==
    /\ H \subseteq 1 .. MaxOv
    /\ \A h \in H : \A o : On(c[h], o) => v[o] # Unused /\ (v[o].next = 0 \/ On(c[h], v[o].next))
    /\ \A h \in H : \A i, j \in 1 .. Len(c[h]) : c[h][i] = c[h][j] => i = j
    /\ \A h, k \in H : \A o : On(c[h], o) /\ On(c[k], o) => h = k
    /\ \A o \in 1 .. MaxOv : v[o] # Unused => \E h \in H : On(c[h], o)

(* Chains begin with their heads. *)
LEMMA ChainBegins ==
    ASSUME NEW c, NEW v, Follows(c, v), v \in OvType
    PROVE  /\ \A n \in 1 .. MaxOv : On(c[n], n)
           /\ \A n \in 0 .. MaxOv : \A o : On(c[n], o) => o \in 1 .. MaxOv
           /\ \A o : ~On(c[0], o)
<1>1. \A n \in 0 .. MaxOv : c[n] \in Seq(1 .. MaxOv)
    BY DEF Follows
<1>2. \A n \in 0 .. MaxOv : \A o : On(c[n], o) => o \in 1 .. MaxOv
    <2>. TAKE n \in 0 .. MaxOv
    <2>1. PICK s \in Seq(1 .. MaxOv) : s = c[n]
        BY <1>1
    <2>2. \A i \in 1 .. Len(s) : s[i] \in 1 .. MaxOv
        BY Elements
    <2>. QED
        BY <2>1, <2>2 DEF On
<1>3. ASSUME NEW n \in 1 .. MaxOv PROVE On(c[n], n)
    <2>1. PICK t \in Seq(1 .. MaxOv) : t = c[v[n].next]
        BY <1>1, Numbers DEF OvType
    <2>2. <<n>> \in Seq(1 .. MaxOv) /\ Len(<<n>>) = 1 /\ <<n>>[1] = n
        OBVIOUS
    <2>3. /\ Len(<<n>> \o t) = 1 + Len(t) /\ Len(t) \in Nat
          /\ \A i \in 1 .. 1 + Len(t) : (<<n>> \o t)[i] = IF i <= 1 THEN <<n>>[i] ELSE t[i - 1]
        BY <2>1, <2>2, Elements, ConcatProperties
    <2>4. 1 \in 1 .. 1 + Len(t)
        BY <2>3
    <2>. QED
        BY <2>1, <2>2, <2>3, <2>4 DEF Follows, On
<1>4. \A o : ~On(c[0], o)
    <2>1. c[0] = <<>> /\ Len(<<>>) = 0
        BY DEF Follows
    <2>. QED
        BY <2>1 DEF On
<1>. QED
    BY <1>2, <1>3, <1>4

(* A chain is written to n pages that nothing used. *)
Writes(v, w, s, n) ==
    /\ \A i \in 1 .. n : s[i] \in 1 .. MaxOv
    /\ \A i, j \in 1 .. n : s[i] = s[j] => i = j
    /\ \A i \in 1 .. n : /\ v[s[i]] = Unused /\ w[s[i]] # Unused
                         /\ w[s[i]].next = IF i < n THEN s[i + 1] ELSE 0
    /\ \A o \in 1 .. MaxOv : (\A i \in 1 .. n : s[i] # o) => w[o] = v[o]

LEMMA ChainAdded ==
    ASSUME NEW c, NEW v, NEW H, Follows(c, v), Owned(c, v, H), v \in OvType,
           NEW w, w \in OvType, NEW s, NEW n \in Nat, n >= 1, Writes(v, w, s, n)
    PROVE  \E d : Follows(d, w) /\ Owned(d, w, H \cup {s[1]})
<1> DEFINE New == {s[i] : i \in 1 .. n}
           at == [o \in New |-> CHOOSE i \in 1 .. n : s[i] = o]
           tail(i) == [j \in 1 .. n + 1 - i |-> s[i + j - 1]]
           d == [o \in 0 .. MaxOv |-> IF o \in New THEN tail(at[o]) ELSE c[o]]
<1>0. /\ \A i \in 1 .. n : s[i] \in 1 .. MaxOv
      /\ \A i, j \in 1 .. n : s[i] = s[j] => i = j
      /\ \A i \in 1 .. n : /\ v[s[i]] = Unused /\ w[s[i]] # Unused
                           /\ w[s[i]].next = IF i < n THEN s[i + 1] ELSE 0
      /\ \A o \in 1 .. MaxOv : (\A i \in 1 .. n : s[i] # o) => w[o] = v[o]
    BY DEF Writes
<1>1. New \subseteq 1 .. MaxOv /\ 0 \notin New
    BY <1>0
<1>2. \A i \in 1 .. n : s[i] \in New /\ at[s[i]] = i
    BY <1>0
<1>3. \A o \in New : \E i \in 1 .. n : o = s[i]
    OBVIOUS
<1>4. \A o \in 1 .. MaxOv : o \notin New => w[o] = v[o]
    BY <1>0
<1>5. \A i \in 1 .. n : /\ tail(i) \in Seq(1 .. MaxOv) /\ Len(tail(i)) = n + 1 - i
                        /\ \A j \in 1 .. n + 1 - i : tail(i)[j] = s[i + j - 1]
    <2>. TAKE i \in 1 .. n
    <2>1. n + 1 - i \in Nat /\ \A j \in 1 .. n + 1 - i : i + j - 1 \in 1 .. n
        OBVIOUS
    <2>2. PICK m \in Nat : m = n + 1 - i
        BY <2>1
    <2>3. PICK t : t = [j \in 1 .. m |-> s[i + j - 1]]
        OBVIOUS
    <2>4. \A j \in 1 .. m : t[j] = s[i + j - 1]
        BY <2>3
    <2>5. Len(t) = m
        BY <2>3
    <2>6. t \in Seq(1 .. MaxOv)
        <3>1. PICK S : S = 1 .. MaxOv
            OBVIOUS
        <3>2. \A j \in 1 .. m : s[i + j - 1] \in S
            BY <1>0, <2>1, <2>2, <3>1
        <3>3. t \in [1 .. m -> S]
            BY <2>3, <3>2
        <3>4. t \in Seq(S)
            BY <3>3
        <3>. QED
            BY <3>1, <3>4
    <2>. QED
        BY <2>2, <2>3, <2>4, <2>5, <2>6
<1>. HIDE DEF New, at, tail
<1>6. /\ \A i \in 1 .. n : d[s[i]] = tail(i)
      /\ \A o \in 0 .. MaxOv : o \notin New => d[o] = c[o]
      /\ d \in [0 .. MaxOv -> Seq(1 .. MaxOv)]
    <2>1. \A o \in 1 .. MaxOv : o \in 0 .. MaxOv
        OBVIOUS
    <2>2. \A o \in 0 .. MaxOv : c[o] \in Seq(1 .. MaxOv)
        BY DEF Follows
    <2>3. \A o \in 0 .. MaxOv : d[o] = IF o \in New THEN tail(at[o]) ELSE c[o]
        OBVIOUS
    <2>4. d = [o \in 0 .. MaxOv |-> d[o]]
        OBVIOUS
    <2>. HIDE DEF d
    <2>5. ASSUME NEW i \in 1 .. n PROVE d[s[i]] = tail(i) /\ s[i] \in 0 .. MaxOv
        <3>1. s[i] \in New /\ at[s[i]] = i /\ s[i] \in 0 .. MaxOv
            BY <1>0, <1>2, <2>1
        <3>. QED
            BY <2>3, <3>1
    <2>6. ASSUME NEW o \in 0 .. MaxOv, o \in New PROVE d[o] \in Seq(1 .. MaxOv)
        <3>1. PICK i \in 1 .. n : o = s[i]
            BY <1>3, <2>6
        <3>. QED
            BY <1>5, <2>5, <3>1
    <2>7. \A o \in 0 .. MaxOv : o \notin New => d[o] = c[o] /\ d[o] \in Seq(1 .. MaxOv)
        BY <2>2, <2>3
    <2>8. d \in [0 .. MaxOv -> Seq(1 .. MaxOv)]
        BY <2>4, <2>6, <2>7
    <2>. QED
        BY <2>5, <2>7, <2>8
<1>. HIDE DEF d
<1>7. \A o \in 1 .. MaxOv : o \notin New => v[o].next \in 0 .. MaxOv /\ v[o].next \notin New
    <2>. SUFFICES ASSUME NEW o \in 1 .. MaxOv, o \notin New, v[o].next \in New PROVE FALSE
        BY DEF OvType
    <2>1. CASE v[o] = Unused
        BY <2>1, <1>1 DEF Unused
    <2>2. CASE v[o] # Unused
        <3>1. PICK h \in H : On(c[h], o)
            BY <2>2 DEF Owned
        <3>2. v[o].next = 0 \/ v[v[o].next] # Unused
            BY <3>1 DEF Owned
        <3>3. PICK i \in 1 .. n : v[o].next = s[i]
            BY <1>3
        <3>4. v[s[i]] = Unused /\ s[i] \in New
            BY <1>0, <1>2
        <3>. QED
            BY <1>1, <3>2, <3>3, <3>4
    <2>. QED
        BY <2>1, <2>2
<1>8. Follows(d, w)
    <2>1. d[0] = <<>>
        BY <1>1, <1>6, Numbers DEF Follows
    <2>2. ASSUME NEW o \in 1 .. MaxOv, o \notin New PROVE d[o] = <<o>> \o d[w[o].next]
        <3>1. w[o].next = v[o].next
            BY <1>4, <2>2
        <3>2. d[o] = c[o] /\ d[v[o].next] = c[v[o].next]
            BY <1>6, <1>7, <2>2
        <3>. QED
            BY <3>1, <3>2 DEF Follows
    <2>3. ASSUME NEW i \in 1 .. n PROVE tail(i) = <<s[i]>> \o d[w[s[i]].next]
        <3>1. PICK t \in Seq(1 .. MaxOv) : t = d[w[s[i]].next]
            BY <1>0, <1>6 DEF OvType
        <3>2. Len(t) = n - i /\ \A j \in 1 .. n - i : t[j] = s[i + j]
            <4>1. CASE i < n
                <5>1. i + 1 \in 1 .. n /\ w[s[i]].next = s[i + 1]
                    BY <1>0, <4>1
                <5>2. t = tail(i + 1)
                    BY <1>6, <3>1, <5>1
                <5>3. Len(t) = n + 1 - (i + 1) /\ \A j \in 1 .. n + 1 - (i + 1) : t[j] = s[(i + 1) + j - 1]
                    BY <1>5, <5>1, <5>2
                <5>4. n + 1 - (i + 1) = n - i /\ \A j \in 1 .. n - i : (i + 1) + j - 1 = i + j
                    OBVIOUS
                <5>. QED
                    BY <5>3, <5>4
            <4>2. CASE i = n
                <5>1. t = <<>>
                    BY <1>0, <2>1, <3>1, <4>2
                <5>. QED
                    BY <4>2, <5>1
            <4>. QED
                BY <4>1, <4>2
        <3>3. PICK x \in 1 .. MaxOv : x = s[i]
            BY <1>0
        <3>4. <<x>> \in Seq(1 .. MaxOv) /\ Len(<<x>>) = 1 /\ <<x>>[1] = x
            OBVIOUS
        <3>5. PICK y : y = <<x>> \o t
            OBVIOUS
        <3>6. /\ y \in Seq(1 .. MaxOv) /\ Len(y) = 1 + Len(t)
              /\ \A j \in 1 .. 1 + Len(t) : y[j] = IF j <= 1 THEN <<x>>[j] ELSE t[j - 1]
            BY <3>4, <3>5, ConcatProperties
        <3>7. Len(y) = n + 1 - i
            BY <3>2, <3>6
        <3>8. \A j \in 1 .. n + 1 - i : y[j] = s[i + j - 1]
            <4>. TAKE j \in 1 .. n + 1 - i
            <4>1. j \in 1 .. 1 + Len(t)
                BY <3>2
            <4>2. CASE j = 1
                <5>1. y[j] = x /\ i + j - 1 = i
                    BY <3>4, <3>6, <4>1, <4>2
                <5>. QED
                    BY <3>3, <5>1
            <4>3. CASE j > 1
                <5>1. j - 1 \in 1 .. n - i /\ i + (j - 1) = i + j - 1
                    BY <4>3
                <5>2. y[j] = t[j - 1]
                    BY <3>6, <4>1, <4>3
                <5>. QED
                    BY <3>2, <5>1, <5>2
            <4>. QED
                BY <4>2, <4>3
        <3>9. tail(i) = y
            <4>1. tail(i) \in Seq(1 .. MaxOv) /\ Len(tail(i)) = Len(y)
                  /\ \A j \in 1 .. Len(y) : tail(i)[j] = y[j]
                BY <1>5, <3>7, <3>8
            <4>. QED
                BY <3>6, <4>1, SeqEqual
        <3>. QED
            BY <3>1, <3>3, <3>5, <3>9
    <2>4. \A o \in 1 .. MaxOv : d[o] = <<o>> \o d[w[o].next]
        <3>. TAKE o \in 1 .. MaxOv
        <3>1. CASE o \in New
            <4>1. PICK i \in 1 .. n : o = s[i]
                BY <1>3, <3>1
            <4>2. d[s[i]] = tail(i)
                BY <1>6
            <4>. QED
                BY <2>3, <4>1, <4>2
        <3>. QED
            BY <2>2, <3>1
    <2>. QED
        BY <1>6, <2>1, <2>4 DEF Follows
<1>9. ASSUME NEW h \in H
      PROVE  /\ h \in 1 .. MaxOv /\ h \notin New /\ d[h] = c[h]
             /\ \A o : On(c[h], o) => o \in 1 .. MaxOv /\ o \notin New /\ w[o] = v[o]
    <2>1. h \in 1 .. MaxOv /\ h \in 0 .. MaxOv
        <3>1. H \subseteq 1 .. MaxOv
            BY DEF Owned
        <3>. QED
            BY <3>1
    <2>2. \A o : On(c[h], o) => o \in 1 .. MaxOv /\ v[o] # Unused
        BY <2>1, ChainBegins DEF Owned
    <2>3. \A o \in New : v[o] = Unused
        BY <1>0, <1>3
    <2>4. On(c[h], h)
        BY <2>1, ChainBegins
    <2>. QED
        BY <1>4, <1>6, <2>1, <2>2, <2>3, <2>4
<1>10. PICK t : t = tail(1)
    OBVIOUS
<1>11. 1 \in 1 .. n /\ d[s[1]] = t /\ s[1] \in New /\ s[1] \in 1 .. MaxOv
    BY <1>0, <1>2, <1>6, <1>10
<1>12. Len(t) = n /\ \A j \in 1 .. n : t[j] = s[j]
    <2>1. n + 1 - 1 = n /\ \A j \in 1 .. n : 1 + j - 1 = j
        OBVIOUS
    <2>2. Len(t) = n + 1 - 1 /\ \A j \in 1 .. n + 1 - 1 : t[j] = s[1 + j - 1]
        BY <1>5, <1>10, <1>11
    <2>. QED
        BY <2>1, <2>2
<1>13. \A o : On(t, o) <=> o \in New
    BY <1>2, <1>3, <1>12 DEF On
<1>14. PICK a : a = s[1]
    OBVIOUS
<1>15. Owned(d, w, H \cup {a})
    <2>1. \A h \in H : d[h] = c[h] /\ h # a
        BY <1>9, <1>11, <1>14
    <2>2. d[a] = t
        BY <1>11, <1>14
    <2>3. H \cup {a} \subseteq 1 .. MaxOv
        BY <1>11, <1>14 DEF Owned
    <2>4. ASSUME NEW h \in H \cup {a}, NEW o, On(d[h], o)
          PROVE  w[o] # Unused /\ (w[o].next = 0 \/ On(d[h], w[o].next))
        <3>1. CASE h \in H
            BY <1>9, <2>1, <2>4, <3>1 DEF Owned
        <3>2. CASE h = a
            <4>1. o \in New
                BY <1>13, <2>2, <2>4, <3>2
            <4>2. PICK i \in 1 .. n : o = s[i]
                BY <1>3, <4>1
            <4>3. w[o] # Unused /\ w[o].next = IF i < n THEN s[i + 1] ELSE 0
                BY <1>0, <4>2
            <4>4. i < n => i + 1 \in 1 .. n
                OBVIOUS
            <4>5. w[o].next = 0 \/ w[o].next \in New
                BY <1>2, <4>3, <4>4
            <4>. QED
                BY <1>13, <2>2, <3>2, <4>3, <4>5
        <3>. QED
            BY <3>1, <3>2
    <2>5. ASSUME NEW h \in H \cup {a}
          PROVE  \A i, j \in 1 .. Len(d[h]) : d[h][i] = d[h][j] => i = j
        <3>1. CASE h \in H
            BY <2>1, <3>1 DEF Owned
        <3>2. CASE h = a
            BY <1>0, <1>12, <2>2, <3>2
        <3>. QED
            BY <3>1, <3>2
    <2>6. ASSUME NEW h \in H \cup {a}, NEW k \in H \cup {a}, NEW o, On(d[h], o), On(d[k], o)
          PROVE  h = k
        <3>1. CASE h \in H /\ k \in H
            BY <2>1, <2>6, <3>1 DEF Owned
        <3>2. CASE h \in H /\ k = a
            BY <1>9, <1>13, <2>1, <2>2, <2>6, <3>2
        <3>3. CASE h = a /\ k \in H
            BY <1>9, <1>13, <2>1, <2>2, <2>6, <3>3
        <3>. QED
            BY <3>1, <3>2, <3>3
    <2>7. ASSUME NEW o \in 1 .. MaxOv, w[o] # Unused
          PROVE  \E h \in H \cup {a} : On(d[h], o)
        <3>1. CASE o \in New
            BY <1>13, <2>2, <3>1
        <3>2. CASE o \notin New
            <4>1. PICK h \in H : On(c[h], o)
                BY <1>4, <2>7, <3>2 DEF Owned
            <4>. QED
                BY <2>1, <4>1
        <3>. QED
            BY <3>1, <3>2
    <2>. QED
        BY <2>3, <2>4, <2>5, <2>6, <2>7 DEF Owned
<1>. QED
    BY <1>8, <1>14, <1>15

(* The chain of a head is freed. *)
LEMMA ChainRemoved ==
    ASSUME NEW c, NEW v, NEW H, Follows(c, v), Owned(c, v, H), v \in OvType,
           NEW w, w \in OvType, NEW a \in H,
           \A o \in 1 .. MaxOv : w[o] = IF On(c[a], o) THEN Unused ELSE v[o]
    PROVE  \E d : Follows(d, w) /\ Owned(d, w, H \ {a})
<1> DEFINE d == [o \in 0 .. MaxOv |-> IF On(c[a], o) THEN <<o>> ELSE c[o]]
<1>1. /\ a \in 1 .. MaxOv /\ a \in 0 .. MaxOv
      /\ \A n \in 0 .. MaxOv : \A o : On(c[n], o) => o \in 1 .. MaxOv
      /\ \A n \in 1 .. MaxOv : On(c[n], n)
    BY ChainBegins DEF Owned
<1>2. ~On(c[a], 0) /\ 0 \in 0 .. MaxOv
    BY <1>1, Numbers
<1>3. \A o \in 0 .. MaxOv : d[o] = IF On(c[a], o) THEN <<o>> ELSE c[o]
    OBVIOUS
<1>4. d \in [0 .. MaxOv -> Seq(1 .. MaxOv)]
    <2>1. \A o \in 0 .. MaxOv : c[o] \in Seq(1 .. MaxOv)
        BY DEF Follows
    <2>2. \A o : On(c[a], o) => <<o>> \in Seq(1 .. MaxOv)
        BY <1>1
    <2>. QED
        BY <2>1, <2>2
<1>. HIDE DEF d
<1>5. Unused.next = 0
    BY DEF Unused
<1>6. \A o \in 1 .. MaxOv : ~On(c[a], o) => ~On(c[a], v[o].next) /\ v[o].next \in 0 .. MaxOv
    <2>. SUFFICES ASSUME NEW o \in 1 .. MaxOv, ~On(c[a], o), On(c[a], v[o].next) PROVE FALSE
        BY DEF OvType
    <2>1. CASE v[o] = Unused
        BY <2>1, <1>2, <1>5
    <2>2. CASE v[o] # Unused
        <3>1. PICK h \in H : On(c[h], o)
            BY <2>2 DEF Owned
        <3>2. v[o].next # 0
            BY <1>2
        <3>3. On(c[h], v[o].next)
            BY <3>1, <3>2 DEF Owned
        <3>4. h = a
            BY <3>3 DEF Owned
        <3>. QED
            BY <3>1, <3>4
    <2>. QED
        BY <2>1, <2>2
<1>7. Follows(d, w)
    <2>1. d[0] = <<>>
        BY <1>2, <1>3 DEF Follows
    <2>2. ASSUME NEW o \in 1 .. MaxOv, ~On(c[a], o) PROVE d[o] = <<o>> \o d[w[o].next]
        <3>1. w[o].next = v[o].next
            BY <2>2
        <3>2. o \in 0 .. MaxOv
            OBVIOUS
        <3>3. d[o] = c[o] /\ d[v[o].next] = c[v[o].next]
            BY <1>3, <1>6, <2>2, <3>2
        <3>. QED
            BY <3>1, <3>3 DEF Follows
    <2>3. ASSUME NEW o \in 1 .. MaxOv, On(c[a], o) PROVE d[o] = <<o>> \o d[w[o].next]
        <3>1. o \in 0 .. MaxOv /\ w[o] = Unused
            BY <2>3
        <3>2. d[w[o].next] = <<>> /\ d[o] = <<o>>
            BY <1>3, <1>5, <2>1, <2>3, <3>1
        <3>3. <<o>> \o <<>> = <<o>>
            OBVIOUS
        <3>. QED
            BY <3>2, <3>3
    <2>. QED
        BY <1>4, <2>1, <2>2, <2>3 DEF Follows
<1>8. ASSUME NEW h \in H \ {a}
      PROVE  /\ h \in 1 .. MaxOv /\ d[h] = c[h]
             /\ \A o : On(c[h], o) => o \in 1 .. MaxOv /\ w[o] = v[o]
    <2>1. h \in 1 .. MaxOv /\ h \in 0 .. MaxOv /\ h # a
        BY DEF Owned
    <2>2. \A o : On(c[h], o) => ~On(c[a], o)
        BY <2>1 DEF Owned
    <2>3. On(c[h], h) /\ \A o : On(c[h], o) => o \in 1 .. MaxOv
        BY <1>1, <2>1
    <2>. QED
        BY <1>3, <2>1, <2>2, <2>3
<1>9. Owned(d, w, H \ {a})
    <2>1. H \ {a} \subseteq 1 .. MaxOv
        BY DEF Owned
    <2>2. ASSUME NEW h \in H \ {a}, NEW o, On(d[h], o)
          PROVE  w[o] # Unused /\ (w[o].next = 0 \/ On(d[h], w[o].next))
        BY <1>8, <2>2 DEF Owned
    <2>3. \A h \in H \ {a} : \A i, j \in 1 .. Len(d[h]) : d[h][i] = d[h][j] => i = j
        BY <1>8 DEF Owned
    <2>4. \A h, k \in H \ {a} : \A o : On(d[h], o) /\ On(d[k], o) => h = k
        BY <1>8 DEF Owned
    <2>5. ASSUME NEW o \in 1 .. MaxOv, w[o] # Unused
          PROVE  \E h \in H \ {a} : On(d[h], o)
        <3>1. ~On(c[a], o) /\ v[o] # Unused
            BY <2>5
        <3>2. PICK h \in H : On(c[h], o)
            BY <3>1 DEF Owned
        <3>3. h \in H \ {a}
            BY <3>1, <3>2
        <3>. QED
            BY <1>8, <3>2, <3>3
    <2>. QED
        BY <2>1, <2>2, <2>3, <2>4, <2>5 DEF Owned
<1>. QED
    BY <1>7, <1>9

(* What insert() writes, and what erase() frees. *)
LEMMA WrittenChain ==
    ASSUME NEW d \in Nat \ {0}, OvPages(d) <= Cardinality(FreeOv), ov \in OvType
    PROVE  /\ \A i \in 1 .. OvPages(d) :
                 /\ Fresh(d)[i] \in 1 .. MaxOv /\ ov[Fresh(d)[i]] = Unused
                 /\ WithChain(d)[Fresh(d)[i]] # Unused
                 /\ WithChain(d)[Fresh(d)[i]].next =
                        IF i < OvPages(d) THEN Fresh(d)[i + 1] ELSE 0
                 /\ WithChain(d)[Fresh(d)[i]].size = Min({OvSize, Remain(d) - (i - 1) * OvSize})
           /\ \A o \in 1 .. MaxOv :
                 (\A i \in 1 .. OvPages(d) : Fresh(d)[i] # o) => WithChain(d)[o] = ov[o]
<1>1. PICK n \in Nat : n = OvPages(d)
    BY RemainIs
<1>2. PICK s : s = Fresh(d)
    OBVIOUS
<1>3. /\ \A i \in 1 .. n : s[i] \in FreeOv
      /\ \A i, j \in 1 .. n : s[i] = s[j] => i = j
      /\ DOMAIN s = 1 .. n
    <2>1. s \in [1 .. n -> FreeOv]
        BY <1>1, <1>2, FreshIs
    <2>2. \A i, j \in 1 .. n : s[i] = s[j] => i = j
        BY <1>1, <1>2, FreshIs
    <2>. QED
        BY <2>1, <2>2
<1>4. \A i \in 1 .. n : s[i] \in 1 .. MaxOv /\ ov[s[i]] = Unused
    BY <1>3 DEF FreeOv
<1>5. \A o : o \in Range(s) <=> \E i \in 1 .. n : s[i] = o
    BY <1>3 DEF Range
<1>6. DOMAIN ov = 1 .. MaxOv
    BY DEF OvType
<1> DEFINE at(o) == CHOOSE j \in 1 .. n : s[j] = o
           size(i) == Min({OvSize, Remain(d) - (i - 1) * OvSize})
           next(i) == IF i < n THEN s[i + 1] ELSE 0
<1>7. \A o \in 1 .. MaxOv :
         WithChain(d)[o] = IF o \in Range(s) THEN [size |-> size(at(o)), next |-> next(at(o))]
                           ELSE ov[o]
    BY <1>1, <1>2, <1>6 DEF WithChain
<1>8. \A i \in 1 .. n : at(s[i]) = i
    BY <1>3
<1>9. \A i \in 1 .. n : size(i) # 0
    <2>. TAKE i \in 1 .. n
    <2>1. PICK a \in Nat \ {0} : a = OvSize
        BY RemainIs
    <2>2. PICK b \in Nat \ {0} : b = Remain(d) - (i - 1) * OvSize
        BY <1>1, RemainIs
    <2>3. a \in Int /\ b \in Int /\ a # 0 /\ b # 0
        OBVIOUS
    <2>4. Min({a, b}) \in {a, b}
        BY <2>3, MinOfTwo
    <2>. QED
        BY <2>1, <2>2, <2>3, <2>4
<1>. HIDE DEF at, size
<1>10. ASSUME NEW i \in 1 .. n
       PROVE  /\ WithChain(d)[s[i]] # Unused /\ WithChain(d)[s[i]].next = next(i)
              /\ WithChain(d)[s[i]].size = size(i)
    <2>1. WithChain(d)[s[i]] = [size |-> size(i), next |-> next(i)]
        BY <1>4, <1>5, <1>7, <1>8
    <2>. HIDE DEF next
    <2>2. WithChain(d)[s[i]].size = size(i) /\ WithChain(d)[s[i]].next = next(i)
        BY <2>1
    <2>. QED
        BY <1>9, <2>2 DEF Unused
<1>. QED
    BY <1>1, <1>2, <1>4, <1>5, <1>7, <1>10 DEF size

LEMMA FreedChain ==
    ASSUME NEW c, Follows(c, ov), ov \in OvType, NEW a \in 0 .. MaxOv
    PROVE  \A o \in 1 .. MaxOv : ChainFreed(a)[o] = IF On(c[a], o) THEN Unused ELSE ov[o]
<1>1. PICK s : s = Chain(a) /\ s = c[a] /\ s \in Seq(1 .. MaxOv)
    BY ChainIs DEF Follows
<1>2. \A o : o \in Range(s) <=> On(s, o)
    <2>1. DOMAIN s = 1 .. Len(s)
        BY <1>1, Elements
    <2>. QED
        BY <2>1 DEF Range, On
<1>3. DOMAIN ov = 1 .. MaxOv
    BY DEF OvType
<1>. QED
    BY <1>1, <1>2, <1>3 DEF ChainFreed

(* Blocks name heads of chains, each another, and the chains have every    *)
(* page in use.                                                            *)
ChainsKept ==
    /\ NamedApart(page)
    /\ \E c : Follows(c, ov) /\ Owned(c, ov, AllHeads(page))

LEMMA InitChains == Init => ChainsKept
<1>. SUFFICES ASSUME Init PROVE ChainsKept
    OBVIOUS
<1>1. \A p \in 1 .. MaxPage : Heads(page[p].slots) = {} /\ Once(page[p].slots)
    BY NoHeads DEF Init
<1>2. NamedApart(page) /\ AllHeads(page) = {}
    BY <1>1 DEF NamedApart, AllHeads
<1>3. \A o \in 1 .. MaxOv : ov[o] = Unused /\ ov[o].next = 0
    BY DEF Init, Unused
<1> DEFINE c == [n \in 0 .. MaxOv |-> IF n = 0 THEN <<>> ELSE <<n>>]
<1>4. Follows(c, ov)
    <2>1. \A n \in 0 .. MaxOv : n # 0 => n \in 1 .. MaxOv
        BY Numbers
    <2>2. c \in [0 .. MaxOv -> Seq(1 .. MaxOv)]
        <3>1. <<>> \in Seq(1 .. MaxOv) /\ \A n \in 1 .. MaxOv : <<n>> \in Seq(1 .. MaxOv)
            OBVIOUS
        <3>. QED
            BY <2>1, <3>1
    <2>3. 0 \in 0 .. MaxOv /\ c[0] = <<>>
        BY Numbers
    <2>4. \A n \in 1 .. MaxOv : c[n] = <<n>>
        OBVIOUS
    <2>. HIDE DEF c
    <2>5. \A n \in 1 .. MaxOv : <<n>> = <<n>> \o <<>>
        OBVIOUS
    <2>. QED
        BY <1>3, <2>2, <2>3, <2>4, <2>5 DEF Follows
<1>5. Owned(c, ov, AllHeads(page))
    <2>. HIDE DEF c
    <2>. QED
        BY <1>2, <1>3 DEF Owned
<1>. HIDE DEF c
<1>. QED
    BY <1>2, <1>4, <1>5 DEF ChainsKept

LEMMA HeadsIn ==
    ASSUME IInv, NEW p \in Live
    PROVE  /\ p \in 1 .. MaxPage /\ PageOK(page[p]) /\ Len(page[p].slots) \in Nat
           /\ \A n \in 1 .. Len(page[p].slots) : page[p].slots[n].ov \in 0 .. MaxOv
           /\ Heads(page[p].slots) \subseteq AllHeads(page)
<1>1. p \in 1 .. MaxPage /\ PageOK(page[p])
    BY LiveIs DEF IInv
<1>2. Len(page[p].slots) \in Nat /\ page[p].slots \in Seq(Block)
    BY <1>1, Free
<1>3. \A b \in Block : b.ov \in 0 .. MaxOv
    BY DEF Block
<1>4. \A n \in 1 .. Len(page[p].slots) : page[p].slots[n].ov \in 0 .. MaxOv
    BY SMTT(40), <1>2, <1>3, Blocks9
<1>. QED
    BY <1>1, <1>2, <1>4 DEF AllHeads

LEMMA InsertChains ==
    ASSUME IInv, ChainsKept, NEW p \in Live,
           NEW pos \in 1 .. Len(page[p].slots) + 1, NEW d \in data, Insert(p, pos, d)
    PROVE  ChainsKept'
<1> DEFINE b == [size |-> SizeRequired(d), ov |-> FirstOv(d)]
           q == Inserted(page[p], pos, b)
<1>1. /\ d \in Nat \ {0} /\ page' = [page EXCEPT ![p] = q] /\ ov' = WithChain(d)
      /\ OvPages(d) <= Cardinality(FreeOv) /\ Accepts(page[p], SizeRequired(d))
      /\ ov \in OvType /\ page \in Pages
    BY VariantAssumption DEF Insert, IInv, VariantAssumption
<1>2. PICK x \in 0 .. MaxOv : x = FirstOv(d)
    BY <1>1, ChainTypes
<1>3. /\ p \in 1 .. MaxPage /\ PageOK(page[p]) /\ Len(page[p].slots) \in Nat
    BY HeadsIn
<1>4. LessOne(q.slots, page[p].slots, pos) /\ q.slots[pos].ov = x
    <2>1. b.size = SizeRequired(d) /\ b.ov = x
        BY <1>2
    <2>2. SizeRequired(d) \in 9 .. MaxBlock
        BY <1>1, RemainIs
    <2>3. Room(page[p], b.size) /\ b.ov \in 0 .. MaxOv
        BY <1>1, <1>3, <2>1, <2>2 DEF Room
    <2>. HIDE DEF b
    <2>. QED
        BY <2>1, <2>3, InsertedOv
<1>. HIDE DEF q
<1>5. pos \in 1 .. Len(q.slots)
    <2>1. PICK l \in Nat : l = Len(page[p].slots)
        BY <1>3
    <2>2. Len(q.slots) = l + 1 /\ pos \in 1 .. l + 1
        BY <1>4, <2>1 DEF LessOne
    <2>. QED
        BY <2>2
<1>6. DOMAIN page = 1 .. MaxPage
    BY <1>1 DEF Pages
<1>7. page'[p] = q /\ \A r \in 1 .. MaxPage : r # p => page'[r].slots = page[r].slots
    BY <1>1, <1>3, <1>6
<1>8. PICK c : Follows(c, ov) /\ Owned(c, ov, AllHeads(page))
    BY DEF ChainsKept
<1>9. x # 0 => Overflows(d) /\ x = Fresh(d)[1] /\ OvPages(d) >= 1
    BY <1>1, <1>2, RemainIs DEF FirstOv
<1>10. x \notin AllHeads(page)
    <2>1. CASE x = 0
        BY <1>8, <2>1 DEF Owned
    <2>2. CASE x # 0
        <3>1. 1 \in 1 .. OvPages(d)
            BY <1>1, <1>9, <2>2, RemainIs
        <3>2. ov[x] = Unused
            <4>1. ov[Fresh(d)[1]] = Unused
                BY <1>1, <3>1, WrittenChain
            <4>. QED
                BY <1>9, <2>2, <4>1
        <3>3. x \in 1 .. MaxOv
            BY <2>2, Numbers
        <3>4. On(c[x], x)
            BY <1>1, <1>8, <3>3, ChainBegins
        <3>. QED
            BY <1>8, <3>2, <3>4 DEF Owned
    <2>. QED
        BY <2>1, <2>2
<1>11. /\ Heads(q.slots) = Heads(page[p].slots) \cup ({x} \ {0})
       /\ Once(page[p].slots) /\ x \notin Heads(page[p].slots) => Once(q.slots)
    BY <1>3, <1>4, <1>5, HeadsLessOne
<1>12. Heads(page[p].slots) \subseteq AllHeads(page) /\ Once(page[p].slots)
    BY <1>3, HeadsIn DEF ChainsKept, NamedApart
<1>13. Once(q.slots) /\ Heads(q.slots) \cap AllHeads(page) \subseteq Heads(page[p].slots)
    BY <1>10, <1>11, <1>12
<1>14. NamedApart(page)
    BY DEF ChainsKept
<1>15. /\ NamedApart(page')
       /\ AllHeads(page') = (AllHeads(page) \ Heads(page[p].slots)) \cup Heads(q.slots)
    BY <1>3, <1>7, <1>13, <1>14, OnePage
<1>16. AllHeads(page') = AllHeads(page) \cup ({x} \ {0})
    BY <1>11, <1>12, <1>15
<1>17. \E e : Follows(e, ov') /\ Owned(e, ov', AllHeads(page'))
    <2>1. CASE Overflows(d)
        <3>1. PICK n \in Nat : n = OvPages(d) /\ n >= 1
            BY <1>1, <2>1, RemainIs
        <3>2. PICK s : s = Fresh(d)
            OBVIOUS
        <3>3. PICK w : w = ov' /\ w \in OvType
            BY <1>1, ChainTypes
        <3>4. Writes(ov, w, s, n)
            <4>1. \A i, j \in 1 .. n : s[i] = s[j] => i = j
                BY <1>1, <3>1, <3>2, FreshIs
            <4>2. /\ \A i \in 1 .. OvPages(d) :
                        /\ Fresh(d)[i] \in 1 .. MaxOv /\ ov[Fresh(d)[i]] = Unused
                        /\ WithChain(d)[Fresh(d)[i]] # Unused
                        /\ WithChain(d)[Fresh(d)[i]].next =
                               IF i < OvPages(d) THEN Fresh(d)[i + 1] ELSE 0
                  /\ \A o \in 1 .. MaxOv :
                        (\A i \in 1 .. OvPages(d) : Fresh(d)[i] # o) => WithChain(d)[o] = ov[o]
                BY <1>1, WrittenChain
            <4>3. n = OvPages(d) /\ w = WithChain(d)
                BY <1>1, <3>1, <3>3
            <4>4. /\ \A i \in 1 .. n : s[i] \in 1 .. MaxOv
                  /\ \A i \in 1 .. n : /\ ov[s[i]] = Unused /\ w[s[i]] # Unused
                                       /\ w[s[i]].next = IF i < n THEN s[i + 1] ELSE 0
                  /\ \A o \in 1 .. MaxOv : (\A i \in 1 .. n : s[i] # o) => w[o] = ov[o]
                BY <3>2, <4>2, <4>3
            <4>. QED
                BY <4>1, <4>4 DEF Writes
        <3>5. \E e : Follows(e, w) /\ Owned(e, w, AllHeads(page) \cup {s[1]})
            <4>1. PICK v, H : v = ov /\ H = AllHeads(page)
                OBVIOUS
            <4>2. /\ Follows(c, v) /\ Owned(c, v, H) /\ v \in OvType /\ w \in OvType
                  /\ Writes(v, w, s, n) /\ n \in Nat /\ n >= 1
                BY <1>1, <1>8, <3>1, <3>3, <3>4, <4>1
            <4>3. \E e : Follows(e, w) /\ Owned(e, w, H \cup {s[1]})
                BY <4>2, ChainAdded
            <4>. QED
                BY <4>1, <4>3
        <3>6. x = s[1] /\ x # 0
            <4>1. 1 \in 1 .. n
                BY <3>1
            <4>. QED
                BY <1>2, <2>1, <3>2, <3>4, <4>1 DEF FirstOv, Writes
        <3>7. AllHeads(page') = AllHeads(page) \cup {s[1]}
            BY <1>16, <3>6
        <3>. QED
            BY <3>3, <3>5, <3>7
    <2>2. CASE ~Overflows(d)
        <3>1. x = 0 /\ OvPages(d) = 0
            BY <1>1, <1>2, <2>2, RemainIs DEF FirstOv
        <3>2. \A o \in 1 .. MaxOv : ov'[o] = ov[o]
            BY <1>1, <3>1, WrittenChain
        <3>3. ov' \in OvType
            BY <1>1, ChainTypes
        <3>4. ov' = ov
            <4>1. PICK w : w = ov' /\ w \in OvType
                BY <3>3
            <4>2. w = [o \in 1 .. MaxOv |-> w[o]] /\ ov = [o \in 1 .. MaxOv |-> ov[o]]
                BY <1>1, <4>1 DEF OvType
            <4>3. \A o \in 1 .. MaxOv : w[o] = ov[o]
                BY <3>2, <4>1
            <4>4. w = ov
                BY <4>2, <4>3
            <4>. QED
                BY <4>1, <4>4
        <3>5. AllHeads(page') = AllHeads(page)
            BY SMTT(40), <1>16, <3>1
        <3>. QED
            BY <1>8, <3>4, <3>5
    <2>. QED
        BY <2>1, <2>2
<1>. QED
    BY <1>15, <1>17 DEF ChainsKept, NamedApart, AllHeads, Once, Heads, Named, Follows, Owned, On

LEMMA EraseChains ==
    ASSUME IInv, ChainsKept, NEW p \in Live,
           NEW pos \in 1 .. Len(page[p].slots), Erase(p, pos)
    PROVE  ChainsKept'
<1> DEFINE q == Erased(page[p], pos)
<1>1. /\ page' = [page EXCEPT ![p] = q] /\ ov' = ChainFreed(page[p].slots[pos].ov)
      /\ ov \in OvType /\ page \in Pages
    BY DEF Erase, IInv
<1>2. /\ p \in 1 .. MaxPage /\ PageOK(page[p]) /\ Len(page[p].slots) \in Nat
      /\ Heads(page[p].slots) \subseteq AllHeads(page)
    BY HeadsIn
<1>3. PICK x \in 0 .. MaxOv : x = page[p].slots[pos].ov
    BY HeadsIn
<1>4. LessOne(page[p].slots, q.slots, pos) /\ Len(q.slots) \in Nat
    BY <1>2, ErasedOv, ErasedKeeps, Free
<1>. HIDE DEF q
<1>5. DOMAIN page = 1 .. MaxPage
    BY <1>1 DEF Pages
<1>6. page'[p] = q /\ \A r \in 1 .. MaxPage : r # p => page'[r].slots = page[r].slots
    BY <1>1, <1>2, <1>5
<1>7. PICK c : Follows(c, ov) /\ Owned(c, ov, AllHeads(page))
    BY DEF ChainsKept
<1>8. NamedApart(page) /\ Once(page[p].slots)
    BY <1>2 DEF ChainsKept, NamedApart
<1>9. /\ Heads(page[p].slots) = Heads(q.slots) \cup ({x} \ {0})
      /\ Once(q.slots) /\ x \notin Heads(q.slots)
    BY <1>3, <1>4, <1>8, HeadsLessOne
<1>10. Heads(q.slots) \cap AllHeads(page) \subseteq Heads(page[p].slots)
    BY <1>9
<1>11. /\ NamedApart(page')
       /\ AllHeads(page') = (AllHeads(page) \ Heads(page[p].slots)) \cup Heads(q.slots)
    BY <1>2, <1>6, <1>8, <1>9, <1>10, OnePage
<1>12. 0 \notin AllHeads(page)
    BY <1>7 DEF Owned
<1>13. AllHeads(page') = AllHeads(page) \ {x}
    BY <1>2, <1>9, <1>11, <1>12
<1>14. PICK w : w = ov' /\ w \in OvType
    BY <1>1, FreedType
<1>15. \A o \in 1 .. MaxOv : w[o] = IF On(c[x], o) THEN Unused ELSE ov[o]
    BY <1>1, <1>3, <1>7, <1>14, FreedChain
<1>16. \E e : Follows(e, w) /\ Owned(e, w, AllHeads(page) \ {x})
    <2>1. CASE x = 0
        <3>1. \A o \in 1 .. MaxOv : w[o] = ov[o]
            BY <1>1, <1>7, <1>15, <2>1, ChainBegins
        <3>2. w = [o \in 1 .. MaxOv |-> w[o]] /\ ov = [o \in 1 .. MaxOv |-> ov[o]]
            BY <1>1, <1>14 DEF OvType
        <3>3. w = ov
            BY <3>1, <3>2
        <3>4. AllHeads(page) \ {x} = AllHeads(page)
            BY <1>12, <2>1
        <3>. QED
            BY <1>7, <3>3, <3>4
    <2>2. CASE x # 0
        <3>1. PICK v, H : v = ov /\ H = AllHeads(page)
            OBVIOUS
        <3>2. Follows(c, v) /\ Owned(c, v, H) /\ v \in OvType
            BY <1>1, <1>7, <3>1
        <3>3. \A o \in 1 .. MaxOv : w[o] = IF On(c[x], o) THEN Unused ELSE v[o]
            BY <1>15, <3>1
        <3>4. x \in H
            BY <1>2, <1>9, <2>2, <3>1
        <3>5. \E e : Follows(e, w) /\ Owned(e, w, H \ {x})
            BY ZenonT(40), <1>14, <3>2, <3>3, <3>4, ChainRemoved
        <3>. QED
            BY <3>1, <3>5
    <2>. QED
        BY <2>1, <2>2
<1>17. \E e : Follows(e, ov') /\ Owned(e, ov', AllHeads(page'))
    BY <1>13, <1>14, <1>16
<1>. QED
    BY <1>11, <1>17 DEF ChainsKept, NamedApart, AllHeads, Once, Heads, Named, Follows, Owned, On

(* Where overflow pages stay as they are, names may only move.             *)
LEMMA MovedChains ==
    ASSUME ChainsKept, ov' = ov, NamedApart(page'), AllHeads(page') = AllHeads(page)
    PROVE  ChainsKept'
<1>1. \E c : Follows(c, ov') /\ Owned(c, ov', AllHeads(page'))
    BY DEF ChainsKept
<1>. QED
    BY <1>1 DEF ChainsKept, NamedApart, AllHeads, Once, Heads, Named, Follows, Owned, On

LEMMA MoveChains ==
    ASSUME IInv, ChainsKept, NEW p \in Live, NEW q \in Live, p # q, Underflow(page[p]),
           NEW src \in 1 .. Len(page[q].slots), NEW dest \in 1 .. Len(page[p].slots) + 1,
           MoveFrom(q, src, p, dest)
    PROVE  ChainsKept'
<1> DEFINE b == page[q].slots[src]
           c == [size |-> b.size, ov |-> b.ov]
           u == Inserted(page[p], dest, c)
           v == Erased(page[q], src)
<1>1. /\ p \in 1 .. MaxPage /\ PageOK(page[p]) /\ Len(page[p].slots) \in Nat
      /\ q \in 1 .. MaxPage /\ PageOK(page[q]) /\ Len(page[q].slots) \in Nat
    BY HeadsIn
<1>2. page' = [page EXCEPT ![p] = u, ![q] = v] /\ ov' = ov
    BY DEF MoveFrom
<1>3. b.size \in 9 .. MaxBlock /\ b.ov \in 0 .. MaxOv
    <2>1. b \in Block
        BY <1>1, Free, Blocks9
    <2>. HIDE DEF b
    <2>. QED
        BY <2>1, Numbers DEF Block
<1>4. Accepts(page[p], b.size)
    <2>1. 4 * page[p].freeSize + 68 >= 3 * PageSize /\ page[p].freeSize \in Nat
        BY <1>1, UnderflowRoom, Free
    <2>2. PICK fr \in Nat, z \in 9 .. MaxBlock : fr = page[p].freeSize /\ z = b.size
        BY <2>1, <1>3
    <2>3. 4 * fr + 68 >= 3 * PageSize
        BY <2>1, <2>2
    <2>4. fr >= z + 2
        BY <2>3, Numbers
    <2>. QED
        BY <2>2, <2>4, Numbers DEF Accepts
<1>5. PICK x \in 0 .. MaxOv : x = b.ov
    BY <1>3
<1>6. LessOne(u.slots, page[p].slots, dest) /\ u.slots[dest].ov = x
    <2>1. c.size = b.size /\ c.ov = b.ov
        OBVIOUS
    <2>2. Room(page[p], c.size) /\ c.ov \in 0 .. MaxOv
        BY <1>1, <1>3, <1>4, <2>1 DEF Room
    <2>. HIDE DEF c
    <2>. QED
        BY <1>5, <2>1, <2>2, InsertedOv
<1>7. LessOne(page[q].slots, v.slots, src) /\ Len(v.slots) \in Nat
    BY <1>1, ErasedOv, ErasedKeeps, Free
<1>8. page[q].slots[src].ov = x
    BY <1>5
<1>. HIDE DEF u, v, b
<1>9. dest \in 1 .. Len(u.slots)
    <2>1. PICK l \in Nat : l = Len(page[p].slots)
        BY <1>1
    <2>2. Len(u.slots) = l + 1 /\ dest \in 1 .. l + 1
        BY <1>6, <2>1 DEF LessOne
    <2>. QED
        BY <2>2
<1>10. DOMAIN page = 1 .. MaxPage
    BY DEF IInv, Pages
<1>11. /\ page'[p] = u /\ page'[q] = v
       /\ \A r \in 1 .. MaxPage : r # p /\ r # q => page'[r].slots = page[r].slots
    BY <1>1, <1>2, <1>10
<1>12. /\ NamedApart(page) /\ Once(page[p].slots) /\ Once(page[q].slots)
       /\ Heads(page[p].slots) \cap Heads(page[q].slots) = {}
    BY <1>1 DEF ChainsKept, NamedApart
<1>13. /\ Heads(page[q].slots) = Heads(v.slots) \cup ({x} \ {0})
       /\ Once(v.slots) /\ x \notin Heads(v.slots)
    BY <1>7, <1>8, <1>12, HeadsLessOne
<1>14. x \notin Heads(page[p].slots)
    <2>1. 0 \notin Heads(page[p].slots)
        BY DEF Heads
    <2>. QED
        BY <2>1, <1>12, <1>13
<1>15. Heads(u.slots) = Heads(page[p].slots) \cup ({x} \ {0}) /\ Once(u.slots)
    BY <1>1, <1>6, <1>9, <1>12, <1>14, HeadsLessOne
<1>16. /\ Heads(u.slots) \cap Heads(v.slots) = {}
       /\ Heads(u.slots) \cup Heads(v.slots) = Heads(page[p].slots) \cup Heads(page[q].slots)
    BY <1>12, <1>13, <1>15
<1>17. NamedApart(page') /\ AllHeads(page') = AllHeads(page)
    BY <1>1, <1>11, <1>12, <1>13, <1>15, <1>16, TwoPages
<1>. QED
    BY <1>2, <1>17, MovedChains

LEMMA SplitChains ==
    ASSUME IInv, ChainsKept, NEW p \in Live, Split(p)
    PROVE  ChainsKept'
<1>1. PICK h, k : h = page' /\ k = LowerNum(page[p])
    OBVIOUS
<1>2. PICK x : SplitTo(h, p, x)
    BY <1>1, SplitPages
<1>3. PICK v, w : v = Upper(page[p], k).slots /\ w = Lower(page[p], k).slots
    OBVIOUS
<1>4. /\ x \in 1 .. MaxPage /\ x \notin Live
      /\ \A r \in 1 .. MaxPage : r # p /\ r # x => h[r].slots = page[r].slots
      /\ h[p].slots = w /\ h[x].slots = v
    BY <1>1, <1>2, <1>3, LiveIs DEF SplitTo
<1>5. /\ p \in 1 .. MaxPage /\ PageOK(page[p]) /\ Len(page[p].slots) \in Nat
      /\ \A i \in 1 .. Len(page[p].slots) : page[p].slots[i].ov \in 0 .. MaxOv
    BY HeadsIn
<1>6. /\ k \in 0 .. Len(page[p].slots)
      /\ Suffix(page[p], k) + 2 * (Len(page[p].slots) - k) + 20 <= PageSize
    <2>1. k \in 2 .. Len(page[p].slots) - 1
          /\ Suffix(page[p], k) + 2 * (Len(page[p].slots) - k) + 20 <= PageSize
        BY <1>1, <1>5, LowerNumFits DEF Split
    <2>. QED
        BY <1>5, <2>1
<1>7. /\ PageOK(Upper(page[p], k)) /\ PageOK(Lower(page[p], k))
      /\ Joined(page[p].slots, w, v)
    BY <1>3, <1>5, <1>6, LowerKeeps, UpperKeeps, SplitOv
<1>8. /\ Len(v) \in Nat /\ Len(w) \in Nat
      /\ \A i \in 1 .. Len(w) : w[i].ov \in 0 .. MaxOv
    <2>1. w \in Seq(Block) /\ Len(v) \in Nat /\ Len(w) \in Nat
        BY <1>3, <1>7, Free
    <2>2. \A b \in Block : b.ov \in 0 .. MaxOv
        BY DEF Block
    <2>. QED
        BY <2>1, <2>2, Blocks9
<1>9. NamedApart(page) /\ Once(page[p].slots) /\ Heads(page[x].slots) = {}
    <2>1. page[x].slots = NoPage.slots
        BY <1>4 DEF Live
    <2>. QED
        BY <1>5, <2>1, NoHeads DEF ChainsKept, NamedApart
<1>10. /\ Heads(page[p].slots) = Heads(w) \cup Heads(v)
       /\ Once(w) /\ Once(v) /\ Heads(w) \cap Heads(v) = {}
    BY <1>7, <1>8, <1>9, HeadsJoined
<1>11. /\ Once(h[p].slots) /\ Once(h[x].slots)
       /\ Heads(h[p].slots) \cap Heads(h[x].slots) = {}
       /\ Heads(h[p].slots) \cup Heads(h[x].slots)
            = Heads(page[p].slots) \cup Heads(page[x].slots)
    BY <1>4, <1>9, <1>10
<1>12. NamedApart(h) /\ AllHeads(h) = AllHeads(page)
    BY <1>4, <1>5, <1>9, <1>11, TwoPages
<1>. QED
    BY <1>1, <1>12, MovedChains DEF Split

LEMMA MergeChains ==
    ASSUME IInv, ChainsKept, NEW p \in Live, Merge(p)
    PROVE  ChainsKept'
<1>1. PICK h, q : h = page' /\ q = page[p].next
    OBVIOUS
<1>2. PICK u : u = Merged(page[p], page[q])
    OBVIOUS
<1>3. /\ q \in Live /\ q # p /\ h[q] = NoPage /\ h[p].slots = u.slots
      /\ \A r \in 1 .. MaxPage : r # p /\ r # q => h[r].slots = page[r].slots
    BY <1>1, <1>2, MergePages, LiveIs DEF MergedTo
<1>4. /\ p \in 1 .. MaxPage /\ PageOK(page[p]) /\ Len(page[p].slots) \in Nat
      /\ q \in 1 .. MaxPage /\ PageOK(page[q]) /\ Len(page[q].slots) \in Nat
      /\ \A i \in 1 .. Len(page[p].slots) : page[p].slots[i].ov \in 0 .. MaxOv
    BY <1>3, HeadsIn
<1>5. Joined(u.slots, page[p].slots, page[q].slots)
    BY <1>2, <1>4, MergedOv
<1>6. /\ NamedApart(page) /\ Once(page[p].slots) /\ Once(page[q].slots)
      /\ Heads(page[p].slots) \cap Heads(page[q].slots) = {}
    BY <1>3, <1>4 DEF ChainsKept, NamedApart
<1>7. /\ Heads(u.slots) = Heads(page[p].slots) \cup Heads(page[q].slots)
      /\ Once(u.slots)
    BY <1>4, <1>5, <1>6, HeadsJoined
<1>8. NamedApart(h) /\ AllHeads(h) = AllHeads(page)
    <2>1. Once(h[q].slots) /\ Heads(h[q].slots) = {}
        BY <1>3, NoHeads
    <2>2. /\ Once(h[p].slots) /\ Heads(h[p].slots) \cap Heads(h[q].slots) = {}
          /\ Heads(h[p].slots) \cup Heads(h[q].slots)
                = Heads(page[p].slots) \cup Heads(page[q].slots)
        BY <1>3, <1>7, <2>1
    <2>. QED
        BY <1>3, <1>4, <1>6, <2>1, <2>2, TwoPages
<1>. QED
    BY <1>1, <1>8, MovedChains DEF Merge

LEMMA TakeChains ==
    ASSUME IInv, ChainsKept, NEW p \in Live, TakeNext(p) \/ TakePrev(p)
    PROVE  ChainsKept'
<1>1. ASSUME NEW q, NEW src, NEW dest, Lends(q, src, p, dest) PROVE ChainsKept'
    BY <1>1, MoveChains DEF Lends
<1>. QED
    BY <1>1, Takes

LEMMA StepChains == IInv /\ ChainsKept /\ [Next]_vars => ChainsKept'
<1>. SUFFICES ASSUME IInv, ChainsKept, [Next]_vars PROVE ChainsKept'
    OBVIOUS
<1>1. CASE Next
    <2>1. PICK p \in Live :
            \/ \E pos \in Places(Len(page[p].slots)) \cap 1 .. Len(page[p].slots) + 1, d \in data :
                    Insert(p, pos, d)
            \/ \E pos \in DOMAIN page[p].slots : Erase(p, pos)
            \/ Split(p) \/ Merge(p) \/ TakeNext(p) \/ TakePrev(p)
        BY <1>1 DEF Next
    <2>2. CASE \E pos \in Places(Len(page[p].slots)) \cap 1 .. Len(page[p].slots) + 1, d \in data :
                    Insert(p, pos, d)
        <3>1. PICK pos \in 1 .. Len(page[p].slots) + 1, d \in data : Insert(p, pos, d)
            BY <2>2
        <3>. QED
            BY <3>1, InsertChains
    <2>3. CASE \E pos \in DOMAIN page[p].slots : Erase(p, pos)
        <3>1. DOMAIN page[p].slots = 1 .. Len(page[p].slots)
            BY HeadsIn, Free
        <3>2. PICK pos \in 1 .. Len(page[p].slots) : Erase(p, pos)
            BY <2>3, <3>1
        <3>. QED
            BY <3>2, EraseChains
    <2>. QED
        BY <2>1, <2>2, <2>3, SplitChains, MergeChains, TakeChains
<1>2. CASE UNCHANGED vars
    <2>1. page' = page /\ ov' = ov
        BY <1>2 DEF vars
    <2>2. NamedApart(page') /\ AllHeads(page') = AllHeads(page)
        BY SMTT(40), <2>1 DEF ChainsKept, NamedApart, AllHeads, Once, Heads, Named
    <2>. QED
        BY <2>1, <2>2, MovedChains
<1>. QED
    BY <1>1, <1>2

(* Every overflow page in use is in the chain of one block, once, whatever *)
(* is inserted, moved and freed: none is lost and none is shared by two.   *)
THEOREM ChainsAreOwned == Spec => []ChainsOwned
<1>1. IInv /\ ChainsKept => ChainsOwned
    <2>. SUFFICES ASSUME IInv, ChainsKept, NEW o \in 1 .. MaxOv, ov[o] # Unused
                  PROVE  \E b \in Blocks :
                            /\ Cardinality({i \in DOMAIN ChainAt(b) : ChainAt(b)[i] = o}) = 1
                            /\ \A x \in Blocks \ {b} : o \notin Range(ChainAt(x))
        BY DEF ChainsOwned
    <2>1. ov \in OvType
        BY DEF IInv
    <2>2. PICK c : Follows(c, ov) /\ Owned(c, ov, AllHeads(page))
        BY DEF ChainsKept
    <2>3. PICK h \in AllHeads(page) : On(c[h], o)
        BY <2>2 DEF Owned
    <2>4. h \in 1 .. MaxOv /\ h \in 0 .. MaxOv /\ h # 0
        BY <2>2 DEF Owned
    <2>5. PICK p \in 1 .. MaxPage : Named(page[p].slots, h)
        BY <2>3 DEF AllHeads, Heads
    <2>6. p \in Live
        <3>1. page[p] = NoPage => ~Named(page[p].slots, h)
            BY <2>4, NoHeads DEF Heads
        <3>. QED
            BY <2>5, <3>1 DEF Live
    <2>7. PICK n \in 1 .. Len(page[p].slots) : page[p].slots[n].ov = h
        BY <2>5 DEF Named
    <2>8. /\ \A r \in Live : DOMAIN page[r].slots = 1 .. Len(page[r].slots) /\ r \in 1 .. MaxPage
          /\ \A r \in Live : \A i \in 1 .. Len(page[r].slots) : page[r].slots[i].ov \in 0 .. MaxOv
        BY HeadsIn, Free
    <2>9. PICK b : b = <<p, n>>
        OBVIOUS
    <2>10. b \in Blocks /\ ChainAt(b) = c[h]
        BY <2>1, <2>2, <2>4, <2>6, <2>7, <2>8, <2>9, ChainIs DEF Blocks, ChainAt
    <2>11. PICK s : s = c[h] /\ s \in Seq(1 .. MaxOv) /\ DOMAIN s = 1 .. Len(s)
        BY <2>2, <2>4, Elements DEF Follows
    <2>12. Cardinality({i \in DOMAIN ChainAt(b) : ChainAt(b)[i] = o}) = 1
        <3>1. PICK i \in 1 .. Len(s) : s[i] = o
            BY <2>3, <2>11 DEF On
        <3>2. \A j \in 1 .. Len(s) : s[j] = o => j = i
            BY <2>2, <2>3, <2>11, <3>1 DEF Owned
        <3>3. {j \in DOMAIN s : s[j] = o} = {i}
            BY <2>11, <3>1, <3>2
        <3>4. Cardinality({i}) = 1
            BY FS_Singleton
        <3>. QED
            BY <2>10, <2>11, <3>3, <3>4
    <2>13. ASSUME NEW x \in Blocks, x # b, o \in Range(ChainAt(x)) PROVE FALSE
        <3>1. PICK r \in Live : x \in {r} \X DOMAIN page[r].slots
            BY DEF Blocks
        <3>2. PICK m \in 1 .. Len(page[r].slots) : x = <<r, m>>
            BY <2>8, <3>1
        <3>3. PICK k \in 0 .. MaxOv : k = page[r].slots[m].ov
            BY <2>8
        <3>4. PICK t : t = c[k] /\ t \in Seq(1 .. MaxOv) /\ DOMAIN t = 1 .. Len(t)
            BY <2>2, Elements DEF Follows
        <3>5. ChainAt(x) = t
            BY <2>1, <2>2, <3>2, <3>3, <3>4, ChainIs DEF ChainAt
        <3>6. On(c[k], o)
            BY <2>13, <3>4, <3>5 DEF Range, On
        <3>7. k # 0 /\ k \in 1 .. MaxOv
            <4>1. \A e : ~On(c[0], e)
                BY <2>1, <2>2, ChainBegins
            <4>2. k # 0
                BY <3>6, <4>1
            <4>. QED
                BY <4>2
        <3>8. Named(page[r].slots, k) /\ k \in Heads(page[r].slots)
            BY <3>3, <3>7 DEF Named, Heads
        <3>9. k \in AllHeads(page) /\ r \in 1 .. MaxPage
            BY <2>8, <3>8 DEF AllHeads
        <3>10. k = h
            BY <2>2, <2>3, <3>6, <3>9 DEF Owned
        <3>11. r = p
            <4>1. h \in Heads(page[p].slots)
                BY <2>4, <2>5 DEF Heads
            <4>. QED
                BY <3>8, <3>9, <3>10, <4>1 DEF ChainsKept, NamedApart
        <3>12. m = n
            BY <2>4, <2>7, <3>3, <3>10, <3>11 DEF ChainsKept, NamedApart, Once
        <3>. QED
            BY <2>9, <2>13, <3>2, <3>11, <3>12
    <2>. QED
        BY <2>10, <2>12, <2>13
<1>2. Spec => []ChainsKept
    <2>1. IInv /\ ChainsKept /\ [Next]_vars => ChainsKept'
        BY StepChains
    <2>. QED
        BY <2>1, InitChains, Invariant, PTL DEF Spec
<1>. QED
    BY <1>1, <1>2, Invariant, PTL

-----------------------------------------------------------------------------
(* The lists of items that the pages implement.                            *)

(* The length an item reads back with, in any overflow pages v. *)
LengthIn(b, v) ==
    LET chain == ChainIn(b.ov, v)
    IN  b.size - BlockHeader + SizesOf([i \in DOMAIN chain |-> v[chain[i]]])

(* The length of an item, in the pages as they are and as they become. *)
LEMMA LengthNow ==
    /\ \A b : Length(b) = LengthIn(b, ov)
    /\ \A b : Length(b)' = LengthIn(b, ov')
<1>1. \A b : Length(b) = LengthIn(b, ov)
    BY DEF Length, LengthIn, Chain, ChainIn
<1>2. \A b : Length(b)' = LengthIn(b, ov')
    BY DEF Length, LengthIn, Chain, ChainIn
<1>. QED
    BY <1>1, <1>2

(* t has the bytes of the chain that begins at each overflow page. *)
Weighs(t, v) ==
    /\ \A n \in 0 .. MaxOv : t[n] \in Nat
    /\ t[0] = 0
    /\ \A n \in 1 .. MaxOv : t[n] = v[n].size + t[v[n].next]

(* There is such a function, and it gives the length of every item. *)
LEMMA WeightIs ==
    ASSUME NEW c, NEW v, Follows(c, v), v \in OvType
    PROVE  \E t : /\ Weighs(t, v)
                  /\ \A b : b.ov \in 0 .. MaxOv => LengthIn(b, v) = b.size - BlockHeader + t[b.ov]
<1>1. /\ MaxOv \in Nat /\ \A n \in 1 .. MaxOv : v[n].next \in 0 .. MaxOv
      /\ OvSize \in Nat
    BY Numbers DEF OvType, OvSize
<1>2. \A n \in 1 .. MaxOv : v[n].size \in Nat
    BY <1>1 DEF OvType
<1>3. \A n \in 0 .. MaxOv : c[n] \in Seq(1 .. MaxOv)
    BY DEF Follows
<1>4. \A n \in 0 .. MaxOv : Len(c[n]) \in Nat /\ DOMAIN c[n] = 1 .. Len(c[n])
    BY <1>3, Elements
<1>5. \A n \in 0 .. MaxOv : \A i \in 1 .. Len(c[n]) : c[n][i] \in 1 .. MaxOv
    BY <1>3, Elements
<1> DEFINE z(n) == [i \in DOMAIN c[n] |-> v[c[n][i]]]
           t == [n \in 0 .. MaxOv |-> SizesOf(z(n))]
<1>6. \A n \in 0 .. MaxOv : Len(z(n)) = Len(c[n]) /\ \A i \in 1 .. Len(c[n]) : z(n)[i] = v[c[n][i]]
    <2>. TAKE n \in 0 .. MaxOv
    <2>1. PICK m \in Nat : m = Len(c[n]) /\ DOMAIN c[n] = 1 .. m
        BY <1>4
    <2>2. z(n) = [i \in 1 .. m |-> v[c[n][i]]]
        BY <2>1
    <2>3. Len(z(n)) = m
        BY <2>2
    <2>. QED
        BY <2>1, <2>2, <2>3
<1>. HIDE DEF z
<1>7. \A n \in 0 .. MaxOv : Sized(z(n))
    <2>. TAKE n \in 0 .. MaxOv
    <2>1. PICK m \in Nat : m = Len(c[n]) /\ m = Len(z(n))
        BY <1>4, <1>6
    <2>2. \A i \in 1 .. m : z(n)[i].size \in Nat
        BY <1>2, <1>5, <1>6, <2>1
    <2>. QED
        BY <2>1, <2>2 DEF Sized
<1>8. \A n \in 0 .. MaxOv : t[n] \in Nat
    BY <1>7, SumNat
<1>9. t[0] = 0
    <2>1. c[0] = <<>> /\ 0 \in 0 .. MaxOv
        BY <1>1 DEF Follows
    <2>2. Len(z(0)) = 0 /\ Sized(z(0))
        BY <1>6, <1>7, <2>1
    <2>3. PICK f : Runs(z(0), f)
        BY <2>2, Runs1
    <2>4. SizesOf(z(0)) = f[Len(z(0))] /\ f[0] = 0
        BY <2>2, <2>3, RunsSum
    <2>. QED
        BY <2>1, <2>2, <2>4
<1>10. ASSUME NEW n \in 1 .. MaxOv PROVE t[n] = v[n].size + t[v[n].next]
    <2>1. PICK e : e = v[n].next /\ e \in 0 .. MaxOv
        BY <1>1
    <2>2. n \in 0 .. MaxOv
        BY <1>1
    <2>3. PICK r : r = c[e] /\ r \in Seq(1 .. MaxOv)
        BY <1>3, <2>1
    <2>4. PICK m \in Nat : m = Len(r)
        BY <2>3, Elements
    <2>5. c[n] = <<n>> \o r
        BY <2>1, <2>3 DEF Follows
    <2>6. /\ Len(<<n>> \o r) = 1 + m
          /\ \A i \in 1 .. 1 : (<<n>> \o r)[i] = <<n>>[i]
          /\ \A i \in 1 .. m : (<<n>> \o r)[1 + i] = r[i]
        <3>1. <<n>> \in Seq(1 .. MaxOv) /\ Len(<<n>>) = 1
            OBVIOUS
        <3>. QED
            BY <3>1, <2>3, <2>4, Concat
    <2>7. Len(c[n]) = m + 1 /\ c[n][1] = n /\ \A i \in 1 .. m : c[n][i + 1] = r[i]
        BY <2>5, <2>6
    <2>8. /\ Len(z(n)) = m + 1 /\ Len(z(e)) = m /\ z(n)[1] = v[n]
          /\ \A i \in 1 .. m : z(e)[i] = z(n)[i + 1]
        <3>1. Len(z(n)) = m + 1 /\ Len(z(e)) = m
            BY <1>6, <2>1, <2>2, <2>3, <2>4, <2>7
        <3>2. \A i \in 1 .. m + 1 : z(n)[i] = v[c[n][i]]
            BY <1>6, <2>2, <2>7
        <3>3. \A i \in 1 .. m : z(e)[i] = v[r[i]]
            BY <1>6, <2>1, <2>3, <2>4
        <3>4. 1 \in 1 .. m + 1 /\ \A i \in 1 .. m : i + 1 \in 1 .. m + 1
            OBVIOUS
        <3>. QED
            BY <3>1, <3>2, <3>3, <3>4, <2>7
    <2>9. Without(z(n), z(e), 1)
        BY <2>8 DEF Without
    <2>10. SizesOf(z(n)) = SizesOf(z(e)) + z(n)[1].size
        <3>1. Sized(z(n)) /\ Sized(z(e)) /\ 1 \in 1 .. Len(z(n))
            BY <1>7, <2>1, <2>2, <2>8
        <3>. QED
            BY <2>9, <3>1, SumWithout
    <2>11. t[n] = SizesOf(z(n)) /\ t[e] = SizesOf(z(e))
        BY <2>1, <2>2
    <2>12. PICK x \in Nat : x = t[e]
        BY <1>8, <2>1
    <2>13. PICK y \in Nat : y = v[n].size
        BY <1>2
    <2>. HIDE DEF t
    <2>. QED
        BY <2>1, <2>8, <2>10, <2>11, <2>12, <2>13
<1>11. ASSUME NEW b, b.ov \in 0 .. MaxOv PROVE LengthIn(b, v) = b.size - BlockHeader + t[b.ov]
    <2>1. ChainIn(b.ov, v) = c[b.ov]
        BY <1>11, ChainInIs
    <2>2. LengthIn(b, v) = b.size - BlockHeader + SizesOf(z(b.ov))
        BY <2>1 DEF LengthIn, z
    <2>. QED
        BY <2>2, <1>11
<1>12. Weighs(t, v)
    BY <1>8, <1>9, <1>10 DEF Weighs
<1>. HIDE DEF t
<1>. QED
    BY <1>11, <1>12

(* The bytes of a chain are those of its pages: where they stay, so do the *)
(* bytes.                                                                  *)
LEMMA WeightSame ==
    ASSUME NEW c, NEW v, Follows(c, v), v \in OvType, NEW t, Weighs(t, v),
           NEW w, NEW u, Weighs(u, w), NEW a \in 0 .. MaxOv,
           \A o : On(c[a], o) => /\ w[o] = v[o]
                                 /\ v[o].next = 0 \/ On(c[a], v[o].next)
    PROVE  u[a] = t[a]
<1>1. MaxOv \in Nat /\ \A n \in 1 .. MaxOv : v[n].next \in 0 .. MaxOv
    BY Numbers DEF OvType
<1>2. \A n \in 0 .. MaxOv : c[n] \in Seq(1 .. MaxOv)
    BY DEF Follows
<1>3. \A n \in 0 .. MaxOv : Len(c[n]) \in Nat
    BY <1>2, Elements
<1>4. \A n \in 1 .. MaxOv : Len(c[n]) = Len(c[v[n].next]) + 1
    <2>. TAKE n \in 1 .. MaxOv
    <2>1. PICK s \in Seq(1 .. MaxOv) : s = c[v[n].next]
        BY <1>1, <1>2
    <2>2. <<n>> \in Seq(1 .. MaxOv) /\ Len(<<n>>) = 1
        OBVIOUS
    <2>3. Len(<<n>> \o s) = 1 + Len(s) /\ Len(s) \in Nat
        BY <2>1, <2>2, Elements, ConcatProperties
    <2>4. c[n] = <<n>> \o s
        BY <2>1 DEF Follows
    <2>5. PICK x \in Nat : x = Len(s)
        BY <2>3
    <2>. QED
        BY <2>1, <2>3, <2>4, <2>5
<1> DEFINE Good == {k \in Nat : \A n \in 0 .. MaxOv :
                        (n = 0 \/ On(c[a], n)) /\ Len(c[n]) <= k => u[n] = t[n]}
<1>5. u[0] = t[0]
    BY DEF Weighs
<1>6. ASSUME NEW k \in Nat, NEW n \in 0 .. MaxOv, n = 0 \/ On(c[a], n), Len(c[n]) <= k,
             \A e \in 0 .. MaxOv : (e = 0 \/ On(c[a], e)) /\ Len(c[e]) <= k - 1 => u[e] = t[e]
      PROVE  u[n] = t[n]
    <2>1. CASE n = 0
        BY <1>5, <2>1
    <2>2. CASE n # 0
        <3>1. n \in 1 .. MaxOv /\ On(c[a], n) /\ v[n].next \in 0 .. MaxOv
            BY <1>1, <1>6, <2>2
        <3>2. Len(c[n]) = Len(c[v[n].next]) + 1 /\ Len(c[v[n].next]) \in Nat
            BY <1>3, <1>4, <3>1
        <3>3. PICK e : e = v[n].next
            OBVIOUS
        <3>4. PICK x \in Nat : x = Len(c[e])
            BY <3>2, <3>3
        <3>5. x <= k - 1
            BY <1>6, <3>2, <3>3, <3>4
        <3>6. w[n] = v[n] /\ (e = 0 \/ On(c[a], e)) /\ e \in 0 .. MaxOv
            BY <3>1, <3>3
        <3>7. u[e] = t[e]
            BY <1>6, <3>4, <3>5, <3>6
        <3>8. t[n] = v[n].size + t[e] /\ u[n] = w[n].size + u[w[n].next]
            BY <3>1, <3>3 DEF Weighs
        <3>. QED
            BY <3>3, <3>6, <3>7, <3>8
    <2>. QED
        BY <2>1, <2>2
<1>7. 0 \in Good
    <2>. SUFFICES ASSUME NEW n \in 0 .. MaxOv, n = 0 \/ On(c[a], n), Len(c[n]) <= 0
                  PROVE  u[n] = t[n]
        OBVIOUS
    <2>1. \A e \in 0 .. MaxOv : ~(Len(c[e]) <= 0 - 1)
        BY <1>3
    <2>. QED
        BY <1>6, <2>1
<1>8. ASSUME NEW k \in Nat, k \in Good PROVE k + 1 \in Good
    <2>. SUFFICES ASSUME NEW n \in 0 .. MaxOv, n = 0 \/ On(c[a], n), Len(c[n]) <= k + 1
                  PROVE  u[n] = t[n]
        OBVIOUS
    <2>1. k + 1 \in Nat /\ (k + 1) - 1 = k
        OBVIOUS
    <2>2. \A e \in 0 .. MaxOv : (e = 0 \/ On(c[a], e)) /\ Len(c[e]) <= k => u[e] = t[e]
        BY <1>8
    <2>. HIDE DEF Good
    <2>. QED
        BY <1>6, <2>1, <2>2
<1>9. Nat \subseteq Good
    <2>. HIDE DEF Good
    <2>. QED
        BY <1>7, <1>8, AllNat
<1>. QED
    <2>1. PICK k \in Nat : k = Len(c[a])
        BY <1>3
    <2>2. k \in Good
        BY <1>9
    <2>3. a = 0 \/ On(c[a], a)
        BY ChainBegins
    <2>. QED
        BY <2>1, <2>2, <2>3

(* A chain that was filled page by page with r bytes has r bytes. *)
Fills(w, s, n, r, z) ==
    /\ \A i \in 1 .. n : s[i] \in 1 .. MaxOv
    /\ \A i \in 1 .. n : w[s[i]].next = IF i < n THEN s[i + 1] ELSE 0
    /\ \A i \in 1 .. n : w[s[i]].size = Min({z, r - (i - 1) * z})
    /\ \A i \in 1 .. n : r - (i - 1) * z \in Nat
    /\ r <= n * z

(* The chain that insert() writes has the bytes of the rest of the item. *)
LEMMA WeightWritten ==
    ASSUME NEW w, NEW u, Weighs(u, w), NEW s, NEW n \in Nat, n >= 1,
           NEW r \in Nat, NEW z \in Nat, Fills(w, s, n, r, z)
    PROVE  u[s[1]] = r
<1>. USE DEF Fills
<1> DEFINE left(i) == r - (i - 1) * z
           Good == {k \in Nat : k < n => u[s[n - k]] = left(n - k)}
<1>1. \A i \in 1 .. n : left(i) \in Nat
    OBVIOUS
<1>2. \A i \in 1 .. n : i < n => left(i) >= z /\ left(i) = z + left(i + 1)
    <2>. SUFFICES ASSUME NEW i \in 1 .. n, i < n
                  PROVE  left(i) >= z /\ left(i) = z + left(i + 1)
        OBVIOUS
    <2>1. i + 1 \in 1 .. n /\ (i + 1) - 1 = i
        OBVIOUS
    <2>2. i * z = (i - 1) * z + z
        OBVIOUS
    <2>3. PICK x \in Int : x = (i - 1) * z
        OBVIOUS
    <2>4. left(i) = r - x /\ left(i + 1) = r - (x + z)
        BY <2>1, <2>2, <2>3
    <2>5. left(i + 1) \in Nat
        BY <1>1, <2>1
    <2>. HIDE DEF left
    <2>. QED
        BY <2>3, <2>4, <2>5
<1>3. left(n) <= z
    <2>1. n * z = (n - 1) * z + z
        OBVIOUS
    <2>2. PICK x \in Int : x = (n - 1) * z
        OBVIOUS
    <2>3. left(n) = r - x /\ r <= x + z
        BY <2>1, <2>2
    <2>. HIDE DEF left
    <2>. QED
        BY <2>2, <2>3
<1>4. left(1) = r
    OBVIOUS
<1>5. \A i \in 1 .. n : w[s[i]].size = Min({z, left(i)})
    OBVIOUS
<1>. HIDE DEF left
<1>6. \A i \in 1 .. n : u[s[i]] = w[s[i]].size + u[w[s[i]].next]
    BY DEF Weighs
<1>7. u[s[n]] = left(n)
    <2>1. n \in 1 .. n /\ ~(n < n)
        OBVIOUS
    <2>2. PICK x \in Nat : x = left(n)
        BY <1>1, <2>1
    <2>3. Min({z, x}) = x
        <3>1. z \in Int /\ x \in Int /\ x <= z
            BY <1>3, <2>2
        <3>2. PICK m : m = Min({z, x})
            OBVIOUS
        <3>3. m \in {z, x} /\ m <= x /\ m <= z
            BY <3>1, <3>2, MinOfTwo
        <3>. QED
            BY <3>1, <3>2, <3>3
    <2>4. w[s[n]].next = 0 /\ u[0] = 0
        BY <2>1 DEF Weighs
    <2>. QED
        BY <1>5, <1>6, <2>1, <2>2, <2>3, <2>4
<1>8. 0 \in Good
    <2>1. n - 0 = n
        OBVIOUS
    <2>. QED
        BY <1>7, <2>1
<1>9. ASSUME NEW k \in Nat, k \in Good PROVE k + 1 \in Good
    <2>. SUFFICES ASSUME k + 1 < n PROVE u[s[n - (k + 1)]] = left(n - (k + 1))
        OBVIOUS
    <2>1. PICK i \in 1 .. n : i = n - (k + 1) /\ i + 1 = n - k /\ i < n /\ k < n
        OBVIOUS
    <2>2. u[s[i + 1]] = left(i + 1)
        BY <1>9, <2>1
    <2>3. left(i) >= z /\ left(i) = z + left(i + 1)
        BY <1>2, <2>1
    <2>4. PICK x \in Nat : x = left(i)
        BY <1>1
    <2>5. Min({z, x}) = z
        <3>1. z \in Int /\ x \in Int /\ z <= x
            BY <2>3, <2>4
        <3>2. PICK m : m = Min({z, x})
            OBVIOUS
        <3>3. m \in {z, x} /\ m <= x /\ m <= z
            BY <3>1, <3>2, MinOfTwo
        <3>. QED
            BY <3>1, <3>2, <3>3
    <2>6. w[s[i]].size = z
        BY <1>5, <2>4, <2>5
    <2>7. w[s[i]].next = s[i + 1]
        BY <2>1
    <2>8. u[s[i]] = z + left(i + 1)
        BY <1>6, <2>2, <2>6, <2>7
    <2>. QED
        BY <2>1, <2>3, <2>8
<1>10. Nat \subseteq Good
    <2>. HIDE DEF Good
    <2>. QED
        BY <1>8, <1>9, AllNat
<1>11. n - 1 \in Good /\ n - (n - 1) = 1 /\ n - 1 < n
    BY <1>10
<1>. QED
    BY <1>4, <1>11

(* A block is as large as its item makes it. *)
Fits(b, v) == LengthIn(b, v) \in Nat /\ SizeRequired(LengthIn(b, v)) = b.size

Measured(s, v) == \A n \in 1 .. Len(s) : Fits(s[n], v)

(* What the blocks of s hold. *)
ItemsOf(s, v) == [n \in 1 .. Len(s) |-> LengthIn(s[n], v)]

(* Blocks of one size and head hold the same item. *)
LEMMA AlikeHold ==
    ASSUME NEW a, NEW b, Alike(a, b), NEW v
    PROVE  LengthIn(a, v) = LengthIn(b, v) /\ (Fits(a, v) <=> Fits(b, v))
<1>1. LengthIn(a, v) = LengthIn(b, v)
    BY DEF Alike, LengthIn
<1>. QED
    BY <1>1 DEF Alike, Fits

(* Blocks that fit hold a sequence of lengths. *)
LEMMA ItemsSeq ==
    ASSUME NEW s, NEW m \in Nat, m = Len(s), NEW v, NEW S,
           \A n \in 1 .. m : LengthIn(s[n], v) \in S
    PROVE  /\ ItemsOf(s, v) \in Seq(S) /\ Len(ItemsOf(s, v)) = m
           /\ DOMAIN ItemsOf(s, v) = 1 .. m
           /\ \A n \in 1 .. m : ItemsOf(s, v)[n] = LengthIn(s[n], v)
<1>1. PICK t : t = ItemsOf(s, v)
    OBVIOUS
<1>2. t = [n \in 1 .. m |-> LengthIn(s[n], v)]
    BY <1>1 DEF ItemsOf
<1>3. t \in [1 .. m -> S]
    BY <1>2
<1>4. t \in Seq(S) /\ Len(t) = m
    BY <1>2, <1>3
<1>. QED
    BY <1>1, <1>2, <1>4

(* s is t with one block more, at i. *)
Fewer(s, t, i) ==
    /\ Len(s) = Len(t) + 1
    /\ \A n \in 1 .. Len(t) : n < i => Alike(t[n], s[n])
    /\ \A n \in 1 .. Len(t) : n >= i => Alike(t[n], s[n + 1])

(* A block less is an item less. *)
LEMMA FewerItems ==
    ASSUME NEW s, NEW t, Len(t) \in Nat, NEW i \in 1 .. Len(s), Fewer(s, t, i), NEW v
    PROVE  /\ ItemsOf(s, v) = InsertAt(ItemsOf(t, v), i, LengthIn(s[i], v))
           /\ ItemsOf(t, v) = RemoveAt(ItemsOf(s, v), i)
           /\ Measured(s, v) <=> Measured(t, v) /\ Fits(s[i], v)
<1>1. PICK m \in Nat : m = Len(t)
    OBVIOUS
<1>2. Len(s) = m + 1
    BY <1>1 DEF Fewer
<1>3. PICK S : S = {LengthIn(s[n], v) : n \in 1 .. m + 1}
    OBVIOUS
<1>4. i \in 1 .. m + 1 /\ m + 1 \in Nat
    BY <1>2
<1>5. /\ \A n \in 1 .. m : n < i => Alike(t[n], s[n])
      /\ \A n \in 1 .. m : n >= i => Alike(t[n], s[n + 1])
    BY <1>1 DEF Fewer
<1>6. /\ \A n \in 1 .. m : n < i => LengthIn(t[n], v) = LengthIn(s[n], v)
      /\ \A n \in 1 .. m : n >= i => LengthIn(t[n], v) = LengthIn(s[n + 1], v)
    BY <1>5, AlikeHold
<1>7. \A n \in 1 .. m + 1 : LengthIn(s[n], v) \in S
    BY <1>3
<1>8. \A n \in 1 .. m : LengthIn(t[n], v) \in S
    <2>. TAKE n \in 1 .. m
    <2>1. n \in 1 .. m + 1 /\ n + 1 \in 1 .. m + 1 /\ (n < i \/ n >= i)
        BY <1>4
    <2>. QED
        BY <1>6, <1>7, <2>1
<1>9. PICK a, b : a = ItemsOf(s, v) /\ b = ItemsOf(t, v)
    OBVIOUS
<1>10. /\ a \in Seq(S) /\ Len(a) = m + 1
       /\ \A n \in 1 .. m + 1 : a[n] = LengthIn(s[n], v)
    <2>1. PICK l \in Nat : l = m + 1
        OBVIOUS
    <2>2. l = Len(s) /\ \A n \in 1 .. l : LengthIn(s[n], v) \in S
        BY <1>2, <1>7, <2>1
    <2>3. /\ a \in Seq(S) /\ Len(a) = l
          /\ \A n \in 1 .. l : a[n] = LengthIn(s[n], v)
        <3>1. PICK e : e = ItemsOf(s, v)
            OBVIOUS
        <3>2. /\ e \in Seq(S) /\ Len(e) = l
              /\ \A n \in 1 .. l : e[n] = LengthIn(s[n], v)
            <4>1. l = Len(s)
                BY <2>2
            <4>2. \A n \in 1 .. l : LengthIn(s[n], v) \in S
                BY <2>2
            <4>. QED
                BY <3>1, <4>1, <4>2, ItemsSeq
        <3>. QED
            BY <1>9, <3>1, <3>2
    <2>. QED
        BY <2>1, <2>3
<1>11. /\ b \in Seq(S) /\ Len(b) = m
       /\ \A n \in 1 .. m : b[n] = LengthIn(t[n], v)
    BY <1>1, <1>8, <1>9, ItemsSeq
<1>12. Without(a, b, i)
    <2>1. \A n \in 1 .. m : n < i => b[n] = a[n]
        BY <1>6, <1>10, <1>11
    <2>2. \A n \in 1 .. m : n >= i => b[n] = a[n + 1]
        <3>1. \A n \in 1 .. m : n + 1 \in 1 .. m + 1
            OBVIOUS
        <3>. QED
            BY <1>6, <1>10, <1>11, <3>1
    <2>. QED
        BY <1>10, <1>11, <2>1, <2>2 DEF Without
<1>13. a = InsertAt(b, i, a[i])
    <2>1. PICK e \in S : e = a[i]
        BY <1>4, <1>7, <1>10
    <2>2. PICK d : d = InsertAt(b, i, e)
        OBVIOUS
    <2>3. i \in 1 .. Len(b) + 1
        BY <1>4, <1>11
    <2>4. d \in Seq(S) /\ Without(d, b, i) /\ d[i] = e
        BY <1>11, <2>2, <2>3, PutIn
    <2>5. Len(d) = m + 1
        BY <1>11, <2>4 DEF Without
    <2>6. \A n \in 1 .. m + 1 : d[n] = a[n]
        <3>. TAKE n \in 1 .. m + 1
        <3>1. CASE n < i
            <4>1. n \in 1 .. m
                BY <1>4, <3>1
            <4>. QED
                BY <1>11, <1>12, <2>4, <3>1, <4>1 DEF Without
        <3>2. CASE n = i
            BY <2>1, <2>4, <3>2
        <3>3. CASE n > i
            <4>1. PICK k \in 1 .. m : k + 1 = n /\ k >= i
                <5>1. n - 1 \in 1 .. m /\ (n - 1) + 1 = n /\ n - 1 >= i
                    BY <1>4, <3>3
                <5>. QED
                    BY <5>1
            <4>. QED
                BY <1>11, <1>12, <2>4, <4>1 DEF Without
        <3>. QED
            BY <1>4, <3>1, <3>2, <3>3
    <2>. QED
        BY <1>10, <2>1, <2>2, <2>4, <2>5, <2>6, SeqEqual
<1>14. b = RemoveAt(a, i)
    <2>1. PICK d : d = RemoveAt(a, i)
        OBVIOUS
    <2>2. d \in Seq(S) /\ Without(a, d, i)
        BY <1>4, <1>10, <2>1, Removed
    <2>3. Len(d) = m
        <3>1. PICK x \in Nat : x = Len(d)
            BY <2>2, Elements
        <3>. QED
            BY <1>10, <2>2, <3>1 DEF Without
    <2>4. \A n \in 1 .. m : d[n] = b[n]
        <3>. TAKE n \in 1 .. m
        <3>1. CASE n < i
            BY <1>11, <1>12, <2>2, <2>3, <3>1 DEF Without
        <3>2. CASE n >= i
            BY <1>11, <1>12, <2>2, <2>3, <3>2 DEF Without
        <3>. QED
            BY <1>4, <3>1, <3>2
    <2>. QED
        BY <1>11, <2>1, <2>2, <2>3, <2>4, SeqEqual
<1>15. Measured(s, v) => Measured(t, v) /\ Fits(s[i], v)
    <2>. SUFFICES ASSUME Measured(s, v) PROVE Measured(t, v) /\ Fits(s[i], v)
        OBVIOUS
    <2>1. \A n \in 1 .. m + 1 : Fits(s[n], v)
        BY <1>2 DEF Measured
    <2>2. ASSUME NEW n \in 1 .. m PROVE Fits(t[n], v)
        <3>1. n \in 1 .. m + 1 /\ n + 1 \in 1 .. m + 1 /\ (n < i \/ n >= i)
            BY <1>4
        <3>2. Alike(t[n], s[n]) \/ Alike(t[n], s[n + 1])
            BY <1>5, <3>1
        <3>. QED
            BY <2>1, <3>1, <3>2, AlikeHold
    <2>. QED
        BY <1>1, <1>4, <2>1, <2>2 DEF Measured
<1>16. Measured(t, v) /\ Fits(s[i], v) => Measured(s, v)
    <2>. SUFFICES ASSUME Measured(t, v), Fits(s[i], v) PROVE Measured(s, v)
        OBVIOUS
    <2>1. \A n \in 1 .. m : Fits(t[n], v)
        BY <1>1 DEF Measured
    <2>2. ASSUME NEW n \in 1 .. m + 1 PROVE Fits(s[n], v)
        <3>1. CASE n < i
            <4>1. n \in 1 .. m
                BY <1>4, <3>1
            <4>2. Alike(t[n], s[n])
                BY <1>5, <3>1, <4>1
            <4>. QED
                BY <2>1, <4>1, <4>2, AlikeHold
        <3>2. CASE n > i
            <4>1. PICK k \in 1 .. m : k + 1 = n /\ k >= i
                <5>1. n - 1 \in 1 .. m /\ (n - 1) + 1 = n /\ n - 1 >= i
                    BY <1>4, <3>2
                <5>. QED
                    BY <5>1
            <4>2. Alike(t[k], s[n])
                BY <1>5, <4>1
            <4>. QED
                BY <2>1, <4>2, AlikeHold
        <3>. QED
            BY <1>4, <3>1, <3>2
    <2>. QED
        BY <1>2, <2>2 DEF Measured
<1>. QED
    BY <1>4, <1>9, <1>10, <1>13, <1>14, <1>15, <1>16

(* Two blocks after another hold two lists after another. *)
LEMMA BothItems ==
    ASSUME NEW s, NEW t, NEW u, NEW m \in Nat, m = Len(t), NEW k \in Nat, k = Len(u),
           Both(s, t, u), NEW v
    PROVE  /\ ItemsOf(s, v) = ItemsOf(t, v) \o ItemsOf(u, v)
           /\ ItemsOf(t, v) = SubSeq(ItemsOf(s, v), 1, m)
           /\ ItemsOf(u, v) = SubSeq(ItemsOf(s, v), m + 1, m + k)
           /\ Measured(s, v) <=> Measured(t, v) /\ Measured(u, v)
<1>1. /\ Len(s) = m + k
      /\ \A n \in 1 .. m : Alike(s[n], t[n])
      /\ \A n \in 1 .. k : Alike(s[m + n], u[n])
    BY DEF Both
<1>2. /\ \A n \in 1 .. m : LengthIn(s[n], v) = LengthIn(t[n], v)
      /\ \A n \in 1 .. k : LengthIn(s[m + n], v) = LengthIn(u[n], v)
    BY <1>1, AlikeHold
<1>3. PICK S : S = {LengthIn(s[n], v) : n \in 1 .. m + k}
    OBVIOUS
<1>4. m + k \in Nat /\ \A n \in 1 .. m : n \in 1 .. m + k
    OBVIOUS
<1>5. \A n \in 1 .. k : m + n \in 1 .. m + k
    OBVIOUS
<1>6. PICK a, b, c : a = ItemsOf(s, v) /\ b = ItemsOf(t, v) /\ c = ItemsOf(u, v)
    OBVIOUS
<1>7. /\ a \in Seq(S) /\ Len(a) = m + k
      /\ \A n \in 1 .. m + k : a[n] = LengthIn(s[n], v)
    <2>1. PICK l \in Nat : l = m + k
        OBVIOUS
    <2>2. l = Len(s) /\ \A n \in 1 .. l : LengthIn(s[n], v) \in S
        BY <1>1, <1>3, <2>1
    <2>3. /\ a \in Seq(S) /\ Len(a) = l
          /\ \A n \in 1 .. l : a[n] = LengthIn(s[n], v)
        BY <1>6, <2>2, ItemsSeq
    <2>. QED
        BY <2>1, <2>3
<1>8. /\ b \in Seq(S) /\ Len(b) = m
      /\ \A n \in 1 .. m : b[n] = LengthIn(t[n], v)
    <2>1. \A n \in 1 .. m : LengthIn(t[n], v) \in S
        BY <1>2, <1>3, <1>4
    <2>2. m = Len(t)
        OBVIOUS
    <2>3. PICK e : e = ItemsOf(t, v)
        OBVIOUS
    <2>4. /\ e \in Seq(S) /\ Len(e) = m
          /\ \A n \in 1 .. m : e[n] = LengthIn(t[n], v)
        BY <2>1, <2>2, <2>3, ItemsSeq
    <2>. QED
        BY <1>6, <2>3, <2>4
<1>9. /\ c \in Seq(S) /\ Len(c) = k
      /\ \A n \in 1 .. k : c[n] = LengthIn(u[n], v)
    <2>1. \A n \in 1 .. k : LengthIn(u[n], v) \in S
        BY <1>2, <1>3, <1>5
    <2>. QED
        BY <1>6, <2>1, ItemsSeq
<1>10. /\ \A n \in 1 .. m : a[n] = b[n]
       /\ \A n \in 1 .. k : a[m + n] = c[n]
    BY <1>2, <1>4, <1>5, <1>7, <1>8, <1>9
<1>11. a = b \o c
    <2>1. PICK d : d = b \o c
        OBVIOUS
    <2>2. /\ d \in Seq(S) /\ Len(d) = m + k
          /\ \A n \in 1 .. m : d[n] = b[n]
          /\ \A n \in 1 .. k : d[m + n] = c[n]
        <3>1. m = Len(b) /\ k = Len(c) /\ b \in Seq(S) /\ c \in Seq(S)
            BY <1>8, <1>9
        <3>. QED
            BY <2>1, <3>1, Concat
    <2>3. \A n \in 1 .. m + k : d[n] = a[n]
        <3>. TAKE n \in 1 .. m + k
        <3>1. CASE n <= m
            <4>1. n \in 1 .. m
                BY <3>1
            <4>. QED
                BY <1>10, <2>2, <4>1
        <3>2. CASE ~(n <= m)
            <4>1. PICK x \in 1 .. k : m + x = n
                <5>1. n - m \in 1 .. k /\ m + (n - m) = n
                    BY <3>2
                <5>. QED
                    BY <5>1
            <4>. QED
                BY <1>10, <2>2, <4>1
        <3>. QED
            BY <3>1, <3>2
    <2>. QED
        BY <1>7, <2>1, <2>2, <2>3, SeqEqual
<1>12. \A n \in 1 .. m + k : a[n] \in S
    BY <1>3, <1>7
<1>13. b = SubSeq(a, 1, m)
    <2>1. PICK d : d = SubSeq(a, 1, m)
        OBVIOUS
    <2>2. 1 \in Int /\ m \in Int /\ \A n \in 1 .. m : a[n] \in S
        BY <1>4, <1>12
    <2>3. /\ d \in Seq(S)
          /\ Len(d) = IF 1 <= m THEN m - 1 + 1 ELSE 0
          /\ \A n \in 1 .. m - 1 + 1 : d[n] = a[1 + n - 1]
        BY <2>1, <2>2, SubSeqProperties
    <2>4. Len(d) = m
        BY <2>3
    <2>5. \A n \in 1 .. m : d[n] = a[n]
        <3>1. m - 1 + 1 = m /\ \A n \in 1 .. m : 1 + n - 1 = n
            OBVIOUS
        <3>. QED
            BY <2>3, <3>1
    <2>. QED
        BY <1>8, <1>10, <2>1, <2>3, <2>4, <2>5, SeqEqual
<1>14. c = SubSeq(a, m + 1, m + k)
    <2>1. PICK d : d = SubSeq(a, m + 1, m + k)
        OBVIOUS
    <2>2. m + 1 \in Int /\ m + k \in Int /\ \A n \in m + 1 .. m + k : a[n] \in S
        BY <1>12
    <2>3. /\ d \in Seq(S)
          /\ Len(d) = IF m + 1 <= m + k THEN (m + k) - (m + 1) + 1 ELSE 0
          /\ \A n \in 1 .. (m + k) - (m + 1) + 1 : d[n] = a[(m + 1) + n - 1]
        BY <2>1, <2>2, SubSeqProperties
    <2>4. Len(d) = k
        BY <2>3
    <2>5. \A n \in 1 .. k : d[n] = a[m + n]
        <3>1. (m + k) - (m + 1) + 1 = k /\ \A n \in 1 .. k : (m + 1) + n - 1 = m + n
            OBVIOUS
        <3>. QED
            BY <2>3, <3>1
    <2>. QED
        BY <1>9, <1>10, <2>1, <2>3, <2>4, <2>5, SeqEqual
<1>15. Measured(s, v) => Measured(t, v) /\ Measured(u, v)
    BY <1>1, <1>4, <1>5, AlikeHold DEF Measured
<1>16. Measured(t, v) /\ Measured(u, v) => Measured(s, v)
    <2>. SUFFICES ASSUME Measured(t, v), Measured(u, v) PROVE Measured(s, v)
        OBVIOUS
    <2>1. ASSUME NEW n \in 1 .. m + k PROVE Fits(s[n], v)
        <3>1. CASE n <= m
            <4>1. n \in 1 .. m
                BY <3>1
            <4>. QED
                BY <1>1, <4>1, AlikeHold DEF Measured
        <3>2. CASE ~(n <= m)
            <4>1. n - m \in 1 .. k /\ m + (n - m) = n
                BY <3>2
            <4>. QED
                BY <1>1, <4>1, AlikeHold DEF Measured
        <3>. QED
            BY <3>1, <3>2
    <2>. QED
        BY <1>1, <2>1 DEF Measured
<1>. QED
    BY <1>6, <1>11, <1>13, <1>14, <1>15, <1>16

(* What the functions of a page do to its blocks. *)
LEMMA InsertedBlocks ==
    ASSUME NEW p, NEW block, Room(p, block.size), block.ov \in 0 .. MaxOv,
           NEW pos \in 1 .. Len(p.slots) + 1
    PROVE  LET s == Inserted(p, pos, block).slots IN
           Fewer(s, p.slots, pos) /\ Alike(s[pos], block)
<1>1. PICK q, a : q = Inserted(p, pos, block) /\ a = Allocate(p, block.size).page.slots
    OBVIOUS
<1>2. PICK l \in Nat : l = Len(p.slots)
    BY Free DEF Room
<1>3. /\ Len(q.slots) = l + 1 /\ Without(q.slots, a, pos)
      /\ q.slots[pos].ov = block.ov /\ q.slots[pos].size = block.size
    BY <1>1, <1>2, InsertedKeeps
<1>4. Len(a) = l /\ \A n \in 1 .. l : a[n].ov = p.slots[n].ov /\ a[n].size = p.slots[n].size
    BY <1>1, <1>2, AllocateOv DEF Room
<1>5. Fewer(q.slots, p.slots, pos)
    BY <1>2, <1>3, <1>4 DEF Without, Fewer, Alike
<1>. QED
    BY <1>1, <1>3, <1>5 DEF Alike

LEMMA ErasedBlocks ==
    ASSUME NEW p, PageOK(p), NEW pos \in 1 .. Len(p.slots)
    PROVE  Fewer(p.slots, Erased(p, pos).slots, pos)
<1>1. PICK s, t : s = p.slots /\ t = Erased(p, pos).slots
    OBVIOUS
<1>2. Without(s, t, pos)
    BY <1>1, ErasedKeeps
<1>. QED
    BY <1>1, <1>2 DEF Without, Fewer, Alike

LEMMA SplitBlocks ==
    ASSUME NEW p, PageOK(p), NEW k \in 0 .. Len(p.slots),
           Suffix(p, k) + 2 * (Len(p.slots) - k) + 20 <= PageSize
    PROVE  /\ Both(p.slots, Lower(p, k).slots, Upper(p, k).slots)
           /\ Len(Lower(p, k).slots) = k /\ Len(Upper(p, k).slots) = Len(p.slots) - k
<1>1. PICK l \in Nat : l = Len(p.slots)
    BY Free
<1>2. PICK a, b : a = Lower(p, k).slots /\ b = Upper(p, k).slots
    OBVIOUS
<1>3. Len(a) = k /\ \A n \in 1 .. k : a[n] = p.slots[n]
    BY <1>2, LowerKeeps
<1>4. Len(b) = l - k /\ \A n \in 1 .. l - k : b[n].size = p.slots[k + n].size
    BY ZenonT(40), <1>1, <1>2, UpperKeeps
<1>5. \A n \in 1 .. l - k : b[n].ov = p.slots[k + n].ov
    BY <1>1, <1>2, UpperOv
<1>6. k \in 0 .. l
    BY <1>1
<1>7. Both(p.slots, a, b)
    BY SMTT(40), <1>1, <1>3, <1>4, <1>5, <1>6 DEF Both, Alike
<1>. QED
    BY <1>1, <1>2, <1>3, <1>4, <1>7

(* Bytes adds up what the items cost. *)
LEMMA BytesIs ==
    ASSUME NEW l, NEW m \in Nat, m = Len(l), NEW g, g[0] = 0,
           \A n \in 1 .. m : g[n] = g[n - 1] + (SizeRequired(l[n]) + SlotSize)
    PROVE  Lists!Bytes(l) = g[m]
<1> DEFINE F(f) == f = [n \in 0 .. m |-> IF n = 0 THEN 0
                                         ELSE f[n - 1] + (SizeRequired(l[n]) + SlotSize)]
           sum == CHOOSE f : F(f)
<1>1. F(sum)
    <2> DEFINE h == [n \in 0 .. m |-> g[n]]
    <2>1. \A n \in 0 .. m : n # 0 => n - 1 \in 0 .. m /\ n \in 1 .. m
        OBVIOUS
    <2>2. \A n \in 0 .. m : h[n] = IF n = 0 THEN 0
                                   ELSE h[n - 1] + (SizeRequired(l[n]) + SlotSize)
        BY <2>1
    <2>3. h = [n \in 0 .. m |-> h[n]]
        OBVIOUS
    <2>. HIDE DEF h
    <2>4. F(h)
        BY <2>2, <2>3
    <2>. HIDE DEF F
    <2>. QED
        BY <2>4
<1>2. Lists!Bytes(l) = sum[m]
    BY DEF Lists!Bytes
<1>. HIDE DEF sum
<1>3. sum[0] = 0 /\ \A n \in 1 .. m : sum[n] = sum[n - 1] + (SizeRequired(l[n]) + SlotSize)
    <2>1. sum = [n \in 0 .. m |-> IF n = 0 THEN 0
                                  ELSE sum[n - 1] + (SizeRequired(l[n]) + SlotSize)]
        BY <1>1
    <2>2. 0 \in 0 .. m /\ \A n \in 1 .. m : n \in 0 .. m /\ n # 0
        OBVIOUS
    <2>3. sum[0] = 0
        BY <2>1, <2>2
    <2>4. \A n \in 1 .. m : sum[n] = sum[n - 1] + (SizeRequired(l[n]) + SlotSize)
        BY <2>1, <2>2
    <2>. QED
        BY <2>3, <2>4
<1>. HIDE DEF F
<1> DEFINE Good == {n \in Nat : n <= m => sum[n] = g[n]}
<1>4. 0 \in Good
    BY <1>3
<1>5. ASSUME NEW n \in Nat, n \in Good PROVE n + 1 \in Good
    <2>. SUFFICES ASSUME n + 1 <= m PROVE sum[n + 1] = g[n + 1]
        OBVIOUS
    <2>1. n + 1 \in 1 .. m /\ (n + 1) - 1 = n /\ sum[n] = g[n]
        BY <1>5
    <2>. QED
        BY <1>3, <2>1
<1>6. Nat \subseteq Good
    <2>. HIDE DEF Good
    <2>. QED
        BY <1>4, <1>5, AllNat
<1>. QED
    BY <1>2, <1>6

(* A page has as much room left as the items leave. *)
LEMMA PageBytes ==
    ASSUME NEW p, PageOK(p), NEW v, Measured(p.slots, v)
    PROVE  /\ Lists!Bytes(ItemsOf(p.slots, v)) = PageSize - HeaderSize - p.freeSize
           /\ p.freeSize \in Nat
<1>1. PICK m \in Nat : m = Len(p.slots)
    BY Free
<1>2. Sized(p.slots) /\ \A n \in 1 .. m : p.slots[n].size \in Nat
    BY <1>1, Free DEF Sized
<1>3. PICK f : Runs(p.slots, f)
    BY <1>2, Runs1
<1>4. /\ SizesOf(p.slots) = f[m] /\ f[0] = 0
      /\ \A n \in 1 .. m : f[n] = f[n - 1] + p.slots[n].size
      /\ \A n \in Nat : f[n] \in Nat
    BY <1>1, <1>2, <1>3, RunsSum
<1>5. PICK l : l = ItemsOf(p.slots, v)
    OBVIOUS
<1>6. m = Len(l) /\ \A n \in 1 .. m : SizeRequired(l[n]) = p.slots[n].size
    <2>1. \A n \in 1 .. m : Fits(p.slots[n], v)
        BY <1>1 DEF Measured
    <2>2. \A n \in 1 .. m : LengthIn(p.slots[n], v) \in Nat
        BY <2>1 DEF Fits
    <2>3. Len(l) = m /\ \A n \in 1 .. m : l[n] = LengthIn(p.slots[n], v)
        <3>1. PICK e, s : e = ItemsOf(s, v) /\ s = p.slots
            OBVIOUS
        <3>2. m = Len(s) /\ \A n \in 1 .. m : LengthIn(s[n], v) \in Nat
            BY <1>1, <2>2, <3>1
        <3>3. /\ e \in Seq(Nat) /\ Len(e) = m
              /\ \A n \in 1 .. m : e[n] = LengthIn(s[n], v)
            <4>1. m = Len(s)
                BY <3>2
            <4>2. \A n \in 1 .. m : LengthIn(s[n], v) \in Nat
                BY <3>2
            <4>3. e = ItemsOf(s, v)
                BY <3>1
            <4>. QED
                BY SMTT(40), <4>1, <4>2, <4>3, ItemsSeq
        <3>. QED
            BY <1>5, <3>1, <3>3
    <2>. QED
        BY <2>1, <2>3 DEF Fits
<1>7. PICK g : g = [n \in 0 .. m |-> f[n] + 2 * n]
    OBVIOUS
<1>8. g[0] = 0 /\ g[m] = f[m] + 2 * m
    BY <1>4, <1>7
<1>9. \A n \in 1 .. m : g[n] = g[n - 1] + (SizeRequired(l[n]) + SlotSize)
    <2>. TAKE n \in 1 .. m
    <2>1. n \in 0 .. m /\ n - 1 \in 0 .. m /\ n - 1 \in Nat
        OBVIOUS
    <2>2. g[n] = f[n] + 2 * n /\ g[n - 1] = f[n - 1] + 2 * (n - 1)
        BY <1>7, <2>1
    <2>3. PICK x \in Nat : x = f[n - 1]
        BY <1>4, <2>1
    <2>4. PICK z \in Nat : z = p.slots[n].size
        BY <1>2
    <2>5. f[n] = x + z /\ SizeRequired(l[n]) = z
        BY <1>4, <1>6, <2>3, <2>4
    <2>. QED
        BY <2>2, <2>3, <2>5 DEF SlotSize
<1>10. Lists!Bytes(l) = g[m]
    BY <1>6, <1>8, <1>9, BytesIs
<1>11. /\ p.freeSize \in Nat /\ f[m] \in Nat
       /\ p.freeSize + f[m] + 2 * m + 20 = PageSize
    BY <1>1, <1>4, Free
<1>. QED
    BY <1>5, <1>8, <1>10, <1>11 DEF HeaderSize

(* The pages in the order of their links. *)
InRow(g, s) ==
    /\ s \in Seq(1 .. MaxPage) /\ Len(s) >= 1
    /\ \A i \in 1 .. Len(s) : s[i] \in LiveOf(g)
    /\ \A i, j \in 1 .. Len(s) : s[i] = s[j] => i = j
    /\ \A p \in LiveOf(g) : \E i \in 1 .. Len(s) : s[i] = p
    /\ \A i \in 1 .. Len(s) : g[s[i]].next = IF i < Len(s) THEN s[i + 1] ELSE 0
    /\ \A i \in 1 .. Len(s) : g[s[i]].prev = IF i > 1 THEN s[i - 1] ELSE 0

(* What the pages g hold in their order. *)
OrderIn(g, v) ==
    LET from[p \in LiveOf(g) \cup {0}] ==
            IF p = 0 THEN <<>>
            ELSE << [n \in DOMAIN g[p].slots |-> LengthIn(g[p].slots[n], v)] >>
                    \o from[g[p].next]
    IN  from[CHOOSE p \in LiveOf(g) : g[p].prev = 0]

(* InOrder, with the pages as parameters. *)
LEMMA OrderNow == InOrder = OrderIn(page, ov) /\ InOrder' = OrderIn(page', ov')
<1>1. InOrder = OrderIn(page, ov)
    BY DEF InOrder, OrderIn, Items, Length, LengthIn, Chain, ChainIn, Live, LiveOf
<1>2. InOrder' = OrderIn(page', ov')
    BY DEF InOrder, OrderIn, Items, Length, LengthIn, Chain, ChainIn, Live, LiveOf
<1>. QED
    BY <1>1, <1>2

(* It lists the pages of a row in turn. *)
LEMMA OrderIs ==
    ASSUME NEW g, NEW s, InRow(g, s), NEW v, NEW n \in Nat, n = Len(s),
           \A p \in LiveOf(g) : DOMAIN g[p].slots = 1 .. Len(g[p].slots)
    PROVE  OrderIn(g, v) = [i \in 1 .. n |-> ItemsOf(g[s[i]].slots, v)]
<1>1. /\ n >= 1 /\ 0 \notin LiveOf(g)
      /\ \A i \in 1 .. n : s[i] \in LiveOf(g)
      /\ \A i, j \in 1 .. n : s[i] = s[j] => i = j
      /\ \A p \in LiveOf(g) : \E i \in 1 .. n : s[i] = p
      /\ \A i \in 1 .. n : g[s[i]].next = IF i < n THEN s[i + 1] ELSE 0
      /\ \A i \in 1 .. n : g[s[i]].prev = IF i > 1 THEN s[i - 1] ELSE 0
    BY DEF InRow, LiveOf
<1> DEFINE I(p) == ItemsOf(g[p].slots, v)
           L == LiveOf(g) \cup {0}
           F(f) == f = [p \in L |-> IF p = 0 THEN <<>> ELSE <<I(p)>> \o f[g[p].next]]
           from == CHOOSE f : F(f)
           suf(i) == [j \in 1 .. n - i + 1 |-> I(s[i + j - 1])]
           at(p) == CHOOSE i \in 1 .. n : s[i] = p
           row == [p \in L |-> IF p = 0 THEN <<>> ELSE suf(at(p))]
<1>2. OrderIn(g, v) = from[CHOOSE p \in LiveOf(g) : g[p].prev = 0]
    <2> DEFINE J(p) == [k \in DOMAIN g[p].slots |-> LengthIn(g[p].slots[k], v)]
               G(f) == f = [p \in L |-> IF p = 0 THEN <<>> ELSE <<J(p)>> \o f[g[p].next]]
    <2>1. OrderIn(g, v) = (CHOOSE f : G(f))[CHOOSE p \in LiveOf(g) : g[p].prev = 0]
        BY DEF OrderIn
    <2>2. \A p \in LiveOf(g) : I(p) = J(p)
        BY DEF ItemsOf
    <2>. HIDE DEF I, J
    <2>3. \A f : G(f) <=> F(f)
        <3>. TAKE f
        <3>1. [p \in L |-> IF p = 0 THEN <<>> ELSE <<J(p)>> \o f[g[p].next]]
                = [p \in L |-> IF p = 0 THEN <<>> ELSE <<I(p)>> \o f[g[p].next]]
            BY <2>2
        <3>. QED
            BY <3>1
    <2>. HIDE DEF F, G
    <2>4. (CHOOSE f : G(f)) = (CHOOSE f : F(f))
        BY <2>3
    <2>. QED
        BY <2>1, <2>4
<1>. HIDE DEF I
<1>3. (CHOOSE p \in LiveOf(g) : g[p].prev = 0) = s[1]
    <2>1. 1 \in 1 .. n /\ s[1] \in LiveOf(g) /\ g[s[1]].prev = 0
        BY <1>1
    <2>2. \A p \in LiveOf(g) : g[p].prev = 0 => p = s[1]
        <3>. SUFFICES ASSUME NEW p \in LiveOf(g), g[p].prev = 0 PROVE p = s[1]
            OBVIOUS
        <3>1. PICK i \in 1 .. n : s[i] = p
            BY <1>1
        <3>2. CASE i > 1
            <4>1. i - 1 \in 1 .. n /\ g[p].prev = s[i - 1]
                BY <1>1, <3>1, <3>2
            <4>. QED
                BY <1>1, <4>1
        <3>. QED
            BY <3>1, <3>2
    <2>. QED
        BY <2>1, <2>2
<1>4. PICK S : \A i \in 1 .. n : I(s[i]) \in S
    <2>1. \A i \in 1 .. n : I(s[i]) \in {I(s[k]) : k \in 1 .. n}
        OBVIOUS
    <2>. QED
        BY <2>1
<1>5. \A i \in 1 .. n + 1 : /\ suf(i) \in Seq(S) /\ Len(suf(i)) = n - i + 1
                            /\ \A j \in 1 .. n - i + 1 : suf(i)[j] = I(s[i + j - 1])
    <2>. TAKE i \in 1 .. n + 1
    <2>1. PICK m \in Nat : m = n - i + 1
        OBVIOUS
    <2>2. PICK t : t = [j \in 1 .. m |-> I(s[i + j - 1])]
        OBVIOUS
    <2>3. \A j \in 1 .. m : i + j - 1 \in 1 .. n
        BY <2>1
    <2>4. t \in [1 .. m -> S]
        BY <1>4, <2>2, <2>3
    <2>5. t \in Seq(S)
        BY <2>4
    <2>6. Len(t) = m
        BY <2>2
    <2>. QED
        BY <2>1, <2>2, <2>5, <2>6
<1>6. suf(n + 1) = <<>>
    <2>1. Len(suf(n + 1)) = 0 /\ suf(n + 1) \in Seq(S)
        <3>1. n + 1 \in 1 .. n + 1 /\ n - (n + 1) + 1 = 0
            BY <1>1
        <3>. QED
            BY <1>5, <3>1
    <2>. HIDE DEF suf
    <2>. QED
        BY <2>1, EmptySeq
<1>. HIDE DEF suf
<1>7. ASSUME NEW i \in 1 .. n PROVE suf(i) = <<I(s[i])>> \o suf(i + 1)
    <2>1. PICK m \in Nat : m = n - i /\ m + 1 = n - i + 1 /\ m = n - (i + 1) + 1
        <3>1. n - i \in Nat /\ (n - i) + 1 = n - i + 1 /\ n - i = n - (i + 1) + 1
            OBVIOUS
        <3>. QED
            BY <3>1
    <2>2. PICK a, b : a = suf(i) /\ b = suf(i + 1)
        OBVIOUS
    <2>3. i \in 1 .. n + 1 /\ i + 1 \in 1 .. n + 1
        OBVIOUS
    <2>4. /\ a \in Seq(S) /\ Len(a) = m + 1
          /\ \A j \in 1 .. m + 1 : a[j] = I(s[i + j - 1])
        BY <1>5, <2>1, <2>2, <2>3
    <2>5. /\ b \in Seq(S) /\ Len(b) = m
          /\ \A j \in 1 .. m : b[j] = I(s[(i + 1) + j - 1])
        BY <1>5, <2>1, <2>2, <2>3
    <2>6. PICK e \in S : e = I(s[i])
        BY <1>4
    <2>7. /\ <<e>> \o b \in Seq(S) /\ Len(<<e>> \o b) = 1 + m
          /\ \A j \in 1 .. 1 : (<<e>> \o b)[j] = <<e>>[j]
          /\ \A j \in 1 .. m : (<<e>> \o b)[1 + j] = b[j]
        <3>1. <<e>> \in Seq(S) /\ 1 = Len(<<e>>) /\ b \in Seq(S) /\ m = Len(b)
            BY <2>5
        <3>2. 1 \in Nat
            OBVIOUS
        <3>. QED
            BY <3>1, <3>2, Concat
    <2>8. PICK d : d = <<e>> \o b
        OBVIOUS
    <2>9. d \in Seq(S) /\ Len(d) = m + 1 /\ d[1] = e /\ \A j \in 1 .. m : d[1 + j] = b[j]
        BY <2>7, <2>8
    <2>10. a[1] = e
        <3>1. 1 \in 1 .. m + 1 /\ i + 1 - 1 = i
            OBVIOUS
        <3>. QED
            BY <2>4, <2>6, <3>1
    <2>11. \A j \in 1 .. m : a[1 + j] = b[j]
        <3>. TAKE j \in 1 .. m
        <3>1. 1 + j \in 1 .. m + 1 /\ i + (1 + j) - 1 = (i + 1) + j - 1
            OBVIOUS
        <3>. QED
            BY <2>4, <2>5, <3>1
    <2>12. \A j \in 1 .. m + 1 : a[j] = d[j]
        <3>. TAKE j \in 1 .. m + 1
        <3>1. CASE j = 1
            BY <2>9, <2>10, <3>1
        <3>2. CASE j # 1
            <4>1. PICK k \in 1 .. m : 1 + k = j
                <5>1. j - 1 \in 1 .. m /\ 1 + (j - 1) = j
                    BY <3>2
                <5>. QED
                    BY <5>1
            <4>. QED
                BY <2>9, <2>11, <4>1
        <3>. QED
            BY <3>1, <3>2
    <2>13. a = d
        BY <2>4, <2>9, <2>12, SeqEqual
    <2>. QED
        BY <2>2, <2>6, <2>8, <2>13
<1>8. \A i \in 1 .. n : at(s[i]) = i
    BY <1>1
<1>. HIDE DEF at
<1>9. row[0] = <<>> /\ \A i \in 1 .. n : row[s[i]] = suf(i)
    <2>1. \A i \in 1 .. n : s[i] \in L /\ s[i] # 0
        BY <1>1
    <2>. QED
        BY <1>8, <2>1
<1>10. F(row)
    <2>1. ASSUME NEW p \in L
          PROVE  row[p] = IF p = 0 THEN <<>> ELSE <<I(p)>> \o row[g[p].next]
        <3>1. CASE p = 0
            BY <1>9, <3>1
        <3>2. CASE p # 0
            <4>1. PICK i \in 1 .. n : s[i] = p
                BY <1>1, <2>1, <3>2
            <4>2. row[p] = <<I(p)>> \o suf(i + 1)
                BY <1>7, <1>9, <4>1
            <4>3. CASE i < n
                <5>1. i + 1 \in 1 .. n /\ g[p].next = s[i + 1]
                    BY <1>1, <4>1, <4>3
                <5>2. row[g[p].next] = suf(i + 1)
                    BY <1>9, <5>1
                <5>. QED
                    BY <3>2, <4>2, <5>2
            <4>4. CASE ~(i < n)
                <5>1. i = n /\ g[p].next = 0
                    BY <1>1, <4>1, <4>4
                <5>2. row[g[p].next] = suf(i + 1)
                    BY <1>6, <1>9, <5>1
                <5>. QED
                    BY <3>2, <4>2, <5>2
            <4>. QED
                BY <4>3, <4>4
        <3>. QED
            BY <3>1, <3>2
    <2>2. row = [p \in L |-> row[p]]
        OBVIOUS
    <2>. HIDE DEF row, L
    <2>. QED
        BY <2>1, <2>2
<1>11. F(from)
    <2>. HIDE DEF F, row
    <2>. QED
        BY <1>10
<1>. HIDE DEF from
<1>12. from[0] = <<>> /\ \A p \in LiveOf(g) : from[p] = <<I(p)>> \o from[g[p].next]
    <2>1. from = [p \in L |-> IF p = 0 THEN <<>> ELSE <<I(p)>> \o from[g[p].next]]
        BY <1>11
    <2>2. 0 \in L /\ \A p \in LiveOf(g) : p \in L /\ p # 0
        BY <1>1
    <2>. HIDE DEF L
    <2>3. from[0] = <<>>
        BY <2>1, <2>2
    <2>4. \A p \in LiveOf(g) : from[p] = <<I(p)>> \o from[g[p].next]
        BY <2>1, <2>2
    <2>. QED
        BY <2>3, <2>4
<1>. HIDE DEF F
<1> DEFINE Good == {k \in Nat : k < n => from[s[n - k]] = suf(n - k)}
<1>13. 0 \in Good
    <2>1. n - 0 = n /\ n \in 1 .. n /\ ~(n < n)
        BY <1>1
    <2>2. s[n] \in LiveOf(g) /\ g[s[n]].next = 0
        BY <1>1, <2>1
    <2>3. from[s[n]] = <<I(s[n])>> \o <<>>
        BY <1>12, <2>2
    <2>4. suf(n) = <<I(s[n])>> \o <<>>
        BY <1>6, <1>7, <2>1
    <2>. QED
        BY <2>1, <2>3, <2>4
<1>14. ASSUME NEW k \in Nat, k \in Good PROVE k + 1 \in Good
    <2>. SUFFICES ASSUME k + 1 < n PROVE from[s[n - (k + 1)]] = suf(n - (k + 1))
        OBVIOUS
    <2>1. PICK i \in 1 .. n : i = n - (k + 1) /\ i + 1 = n - k /\ i < n /\ k < n
        OBVIOUS
    <2>2. from[s[i + 1]] = suf(i + 1)
        BY <1>14, <2>1
    <2>3. s[i] \in LiveOf(g) /\ g[s[i]].next = s[i + 1]
        BY <1>1, <2>1
    <2>4. from[s[i]] = <<I(s[i])>> \o suf(i + 1)
        BY <1>12, <2>2, <2>3
    <2>5. from[s[i]] = suf(i)
        BY <1>7, <2>4
    <2>. QED
        BY <2>1, <2>5
<1>15. Nat \subseteq Good
    <2>. HIDE DEF Good
    <2>. QED
        BY <1>13, <1>14, AllNat
<1>16. from[s[1]] = suf(1)
    <2>1. n - 1 \in Good /\ n - (n - 1) = 1 /\ n - 1 < n
        BY <1>1, <1>15
    <2>. QED
        BY <2>1
<1>17. suf(1) = [i \in 1 .. n |-> I(s[i])]
    <2>1. n - 1 + 1 = n /\ \A j \in 1 .. n : 1 + j - 1 = j
        OBVIOUS
    <2>2. suf(1) = [j \in 1 .. n - 1 + 1 |-> I(s[1 + j - 1])]
        BY DEF suf
    <2>. QED
        BY <2>1, <2>2
<1>. QED
    BY <1>2, <1>3, <1>16, <1>17 DEF I

(* Items are as long as before where the pages in use stay as they are. *)
LEMMA LengthStays ==
    ASSUME NEW c, NEW v, NEW H, Follows(c, v), Owned(c, v, H), v \in OvType,
           NEW e, NEW w, Follows(e, w), w \in OvType,
           \A o \in 1 .. MaxOv : v[o] # Unused => w[o] = v[o],
           NEW b, b.ov \in H \cup {0}
    PROVE  LengthIn(b, w) = LengthIn(b, v)
<1>1. PICK a \in 0 .. MaxOv : a = b.ov
    <2>1. PICK x : x = b.ov /\ x \in H \cup {0}
        OBVIOUS
    <2>2. MaxOv \in Nat /\ H \subseteq 1 .. MaxOv
        BY Numbers DEF Owned
    <2>3. 0 \in 0 .. MaxOv /\ \A y \in H : y \in 0 .. MaxOv
        BY <2>2
    <2>. QED
        BY <2>1, <2>3
<1>2. PICK t : Weighs(t, v) /\ LengthIn(b, v) = b.size - BlockHeader + t[a]
    BY <1>1, WeightIs
<1>3. PICK u : Weighs(u, w) /\ LengthIn(b, w) = b.size - BlockHeader + u[a]
    BY <1>1, WeightIs
<1>4. u[a] = t[a]
    <2>1. ASSUME NEW o, On(c[a], o)
          PROVE  w[o] = v[o] /\ (v[o].next = 0 \/ On(c[a], v[o].next))
        <3>1. o \in 1 .. MaxOv /\ a # 0
            BY <2>1, ChainBegins
        <3>2. a \in H
            BY <1>1, <3>1
        <3>3. v[o] # Unused /\ (v[o].next = 0 \/ On(c[a], v[o].next))
            BY <2>1, <3>2 DEF Owned
        <3>. QED
            BY <3>1, <3>3
    <2>. QED
        BY <1>2, <1>3, <2>1, WeightSame
<1>. QED
    BY <1>2, <1>3, <1>4

(* The same for all the blocks of a list. *)
LEMMA ItemsStay ==
    ASSUME NEW c, NEW v, NEW H, Follows(c, v), Owned(c, v, H), v \in OvType,
           NEW e, NEW w, Follows(e, w), w \in OvType,
           \A o \in 1 .. MaxOv : v[o] # Unused => w[o] = v[o],
           NEW s, \A n \in 1 .. Len(s) : s[n].ov \in H \cup {0}
    PROVE  ItemsOf(s, w) = ItemsOf(s, v) /\ (Measured(s, w) <=> Measured(s, v))
<1>1. \A n \in 1 .. Len(s) : LengthIn(s[n], w) = LengthIn(s[n], v)
    <2>. TAKE n \in 1 .. Len(s)
    <2>1. PICK b : b = s[n] /\ b.ov \in H \cup {0}
        OBVIOUS
    <2>2. LengthIn(b, w) = LengthIn(b, v)
        BY <2>1, LengthStays
    <2>. QED
        BY <2>1, <2>2
<1>2. ItemsOf(s, w) = ItemsOf(s, v)
    BY <1>1 DEF ItemsOf
<1>3. Measured(s, w) <=> Measured(s, v)
    BY <1>1 DEF Measured, Fits
<1>. QED
    BY <1>2, <1>3

(* What insert() writes has the length that it was given. *)
LEMMA LengthWritten ==
    ASSUME NEW d \in Nat \ {0}, OvPages(d) <= Cardinality(FreeOv), ov \in OvType,
           NEW e, NEW w, w = WithChain(d), Follows(e, w), w \in OvType,
           NEW b, b.size = SizeRequired(d), b.ov = FirstOv(d)
    PROVE  LengthIn(b, w) = d /\ Fits(b, w)
<1>1. PICK u : /\ Weighs(u, w)
               /\ FirstOv(d) \in 0 .. MaxOv => LengthIn(b, w) = b.size - BlockHeader + u[FirstOv(d)]
    BY WeightIs
<1>2. FirstOv(d) \in 0 .. MaxOv
    BY ChainTypes
<1>3. LengthIn(b, w) = SizeRequired(d) - 8 + u[FirstOv(d)]
    BY <1>1, <1>2 DEF BlockHeader
<1>4. CASE Overflows(d)
    <2>1. PICK n \in Nat : n = OvPages(d) /\ n >= 1
        BY <1>4, RemainIs
    <2>2. PICK s : s = Fresh(d)
        OBVIOUS
    <2>3. PICK z \in Nat : z = OvSize
        BY RemainIs
    <2>4. PICK r \in Nat : r = Remain(d)
        BY RemainIs
    <2>5. /\ \A i \in 1 .. n : r - (i - 1) * z \in Nat
          /\ r <= n * z
        BY <2>1, <2>3, <2>4, RemainIs
    <2>6. /\ \A i \in 1 .. n : s[i] \in 1 .. MaxOv
          /\ \A i \in 1 .. n : w[s[i]].next = IF i < n THEN s[i + 1] ELSE 0
          /\ \A i \in 1 .. n : w[s[i]].size = Min({z, r - (i - 1) * z})
        BY <2>1, <2>2, <2>3, <2>4, WrittenChain
    <2>7. u[s[1]] = r
        <3>1. Fills(w, s, n, r, z)
            BY <2>5, <2>6 DEF Fills
        <3>. QED
            BY <1>1, <2>1, <2>3, <2>4, <3>1, WeightWritten
    <2>8. FirstOv(d) = s[1] /\ SizeRequired(d) = Keep /\ r = d - (Keep - 8)
        BY <1>4, <2>2, <2>4 DEF FirstOv, SizeRequired, Remain, BlockHeader
    <2>9. LengthIn(b, w) = Keep - 8 + r
        BY <1>3, <2>7, <2>8
    <2>10. LengthIn(b, w) = d
        BY <2>8, <2>9, Numbers
    <2>. QED
        BY <2>10 DEF Fits
<1>5. CASE ~Overflows(d)
    <2>1. FirstOv(d) = 0 /\ SizeRequired(d) = d + 8 /\ u[0] = 0
        BY <1>1, <1>5 DEF FirstOv, SizeRequired, Weighs, BlockHeader
    <2>2. LengthIn(b, w) = d
        BY <1>3, <2>1
    <2>. QED
        BY <2>2 DEF Fits
<1>. QED
    BY <1>4, <1>5

(* The row after steps that keep the links, that link a page in, and that  *)
(* take one out.                                                           *)
LEMMA RowStays ==
    ASSUME NEW g, NEW s, InRow(g, s), NEW h, LiveOf(h) = LiveOf(g),
           \A p \in LiveOf(g) : h[p].next = g[p].next /\ h[p].prev = g[p].prev
    PROVE  InRow(h, s)
BY DEF InRow

(* t is s with one element more, or less, behind the i-th. *)
Longer(t, s, i, e) ==
    /\ Len(t) = Len(s) + 1 /\ t[i + 1] = e
    /\ \A j \in 1 .. Len(s) : j <= i => t[j] = s[j]
    /\ \A j \in 1 .. Len(s) : j > i => t[j + 1] = s[j]

Shorter(t, s, i) ==
    /\ Len(t) = Len(s) - 1
    /\ \A j \in 1 .. Len(s) - 1 : j <= i => t[j] = s[j]
    /\ \A j \in 1 .. Len(s) - 1 : j > i => t[j] = s[j + 1]

(* InsertAt makes a sequence longer. *)
LEMMA PutAfter ==
    ASSUME NEW S, NEW s \in Seq(S), NEW i \in 0 .. Len(s), NEW e \in S,
           NEW t, t = InsertAt(s, i + 1, e)
    PROVE  t \in Seq(S) /\ Longer(t, s, i, e)
<1>0. PICK n \in Nat : n = Len(s)
    BY Elements
<1>1. PICK a : a = i + 1
    OBVIOUS
<1>2. a \in 1 .. Len(s) + 1
    BY <1>0, <1>1
<1>3. t = InsertAt(s, a, e)
    BY <1>1
<1>4. t \in Seq(S) /\ Without(t, s, a) /\ t[a] = e
    BY <1>2, <1>3, PutIn
<1>5. /\ Len(t) = n + 1
      /\ \A j \in 1 .. n : j < a => s[j] = t[j]
      /\ \A j \in 1 .. n : j >= a => s[j] = t[j + 1]
    BY <1>0, <1>4 DEF Without
<1>6. \A j \in 1 .. n : (j <= i => j < a) /\ (j > i => j >= a)
    BY <1>0, <1>1
<1>. QED
    BY <1>0, <1>1, <1>4, <1>5, <1>6 DEF Longer

(* RemoveAt makes it shorter. *)
LEMMA TakenAfter ==
    ASSUME NEW S, NEW s \in Seq(S), NEW i \in 0 .. Len(s) - 1, NEW t, t = RemoveAt(s, i + 1)
    PROVE  t \in Seq(S) /\ Shorter(t, s, i)
<1>0. PICK n \in Nat : n = Len(s)
    BY Elements
<1>1. PICK a : a = i + 1
    OBVIOUS
<1>2. a \in 1 .. Len(s)
    BY <1>0, <1>1
<1>3. t = RemoveAt(s, a)
    BY <1>1
<1>4. t \in Seq(S) /\ Without(s, t, a)
    BY <1>2, <1>3, Removed
<1>5. PICK m \in Nat : m = Len(t)
    BY <1>4, Elements
<1>6. m = n - 1
    BY <1>0, <1>4, <1>5 DEF Without
<1>7. /\ \A j \in 1 .. n - 1 : j < a => t[j] = s[j]
      /\ \A j \in 1 .. n - 1 : j >= a => t[j] = s[j + 1]
    BY <1>4, <1>5, <1>6 DEF Without
<1>8. \A j \in 1 .. n - 1 : (j <= i => j < a) /\ (j > i => j >= a)
    BY <1>0, <1>1
<1>. QED
    BY <1>0, <1>4, <1>5, <1>6, <1>7, <1>8 DEF Shorter

(* A row with the page x behind its page i. *)
LEMMA RowIn ==
    ASSUME NEW g, NEW s, InRow(g, s), NEW h, NEW n \in Nat, n = Len(s), NEW i \in 1 .. n,
           NEW p, p = s[i], NEW x \in 1 .. MaxPage, x \notin LiveOf(g),
           LiveOf(h) = LiveOf(g) \cup {x}, NEW nx, nx = g[p].next,
           h[x].next = nx, h[x].prev = p, h[p].next = x, h[p].prev = g[p].prev,
           nx # 0 => h[nx].next = g[nx].next /\ h[nx].prev = x,
           \A r \in 1 .. MaxPage : r # p /\ r # x /\ r # nx => h[r] = g[r]
    PROVE  InRow(h, InsertAt(s, i + 1, x))
<1>1. /\ s \in Seq(1 .. MaxPage) /\ 0 \notin LiveOf(g)
      /\ \A j \in 1 .. n : s[j] \in LiveOf(g) /\ s[j] \in 1 .. MaxPage /\ s[j] # x /\ s[j] # 0
      /\ \A j, k \in 1 .. n : s[j] = s[k] => j = k
      /\ \A r \in LiveOf(g) : \E j \in 1 .. n : s[j] = r
      /\ \A j \in 1 .. n : g[s[j]].next = IF j < n THEN s[j + 1] ELSE 0
      /\ \A j \in 1 .. n : g[s[j]].prev = IF j > 1 THEN s[j - 1] ELSE 0
    BY DEF InRow, LiveOf
<1>2. PICK t : t = InsertAt(s, i + 1, x)
    OBVIOUS
<1>3. /\ t \in Seq(1 .. MaxPage) /\ Len(t) = n + 1 /\ t[i + 1] = x
      /\ \A j \in 1 .. n : j <= i => t[j] = s[j]
      /\ \A j \in 1 .. n : j > i => t[j + 1] = s[j]
    <2>1. i \in 0 .. Len(s) /\ s \in Seq(1 .. MaxPage)
        BY <1>1
    <2>2. PICK S : S = 1 .. MaxPage
        OBVIOUS
    <2>3. s \in Seq(S) /\ x \in S /\ i \in 0 .. Len(s)
        BY <2>1, <2>2
    <2>4. t \in Seq(S) /\ Longer(t, s, i, x)
        BY <1>2, <2>3, PutAfter
    <2>. QED
        BY <2>2, <2>4 DEF Longer
<1>4. nx = IF i < n THEN s[i + 1] ELSE 0
    BY <1>1
<1>5. \A j \in 1 .. n : j # i /\ s[j] # nx => h[s[j]] = g[s[j]]
    BY <1>1
<1>6. \A j \in 1 .. n : j # i + 1 => s[j] # nx
    <2>. SUFFICES ASSUME NEW j \in 1 .. n, j # i + 1 PROVE s[j] # nx
        OBVIOUS
    <2>1. CASE i < n
        <3>1. i + 1 \in 1 .. n
            BY <2>1
        <3>. QED
            BY <1>1, <1>4, <2>1, <3>1
    <2>2. CASE ~(i < n)
        BY <1>1, <1>4, <2>2
    <2>. QED
        BY <2>1, <2>2
<1>7. \A j \in 1 .. n : j # i => h[s[j]].next = g[s[j]].next
    <2>. TAKE j \in 1 .. n
    <2>1. CASE s[j] = nx
        BY <1>1, <2>1
    <2>2. CASE s[j] # nx
        BY <1>5, <2>2
    <2>. QED
        BY <2>1, <2>2
<1>8. \A j \in 1 .. n : j # i + 1 => h[s[j]].prev = g[s[j]].prev
    <2>. TAKE j \in 1 .. n
    <2>1. CASE j = i
        BY <2>1
    <2>2. CASE j # i
        BY <1>5, <1>6, <2>2
    <2>. QED
        BY <2>1, <2>2
(* Where a place of the new row comes from. *)
<1>9. \A j \in 1 .. n + 1 :
        \/ j \in 1 .. n /\ j <= i /\ t[j] = s[j]
        \/ j = i + 1 /\ t[j] = x
        \/ j - 1 \in 1 .. n /\ j - 1 > i /\ t[j] = s[j - 1]
    <2>. TAKE j \in 1 .. n + 1
    <2>1. CASE j <= i
        <3>1. j \in 1 .. n
            BY <2>1
        <3>. QED
            BY <1>3, <2>1, <3>1
    <2>2. CASE j = i + 1
        BY <1>3, <2>2
    <2>3. CASE j > i + 1
        <3>1. j - 1 \in 1 .. n /\ j - 1 > i /\ (j - 1) + 1 = j
            BY <2>3
        <3>. QED
            BY <1>3, <3>1
    <2>. QED
        BY <2>1, <2>2, <2>3
<1>10. \A j \in 1 .. n + 1 : t[j] \in LiveOf(h)
    BY <1>1, <1>9
<1>11. \A j, k \in 1 .. n + 1 : t[j] = t[k] => j = k
    <2>. SUFFICES ASSUME NEW j \in 1 .. n + 1, NEW k \in 1 .. n + 1, t[j] = t[k]
                  PROVE  j = k
        OBVIOUS
    <2>1. CASE j = i + 1 \/ k = i + 1
        <3>1. \A l \in 1 .. n + 1 : l # i + 1 => t[l] # x
            BY <1>1, <1>9
        <3>. QED
            BY <1>3, <2>1, <3>1
    <2>2. CASE j # i + 1 /\ k # i + 1
        <3>1. PICK a \in 1 .. n : s[a] = t[j] /\ ((a = j /\ j <= i) \/ (a = j - 1 /\ j - 1 > i))
            BY <1>9, <2>2
        <3>2. PICK b \in 1 .. n : s[b] = t[k] /\ ((b = k /\ k <= i) \/ (b = k - 1 /\ k - 1 > i))
            BY <1>9, <2>2
        <3>3. a = b
            BY <1>1, <3>1, <3>2
        <3>. QED
            BY <3>1, <3>2, <3>3
    <2>. QED
        BY <2>1, <2>2
<1>12. \A r \in LiveOf(h) : \E j \in 1 .. n + 1 : t[j] = r
    <2>. SUFFICES ASSUME NEW r \in LiveOf(h) PROVE \E j \in 1 .. n + 1 : t[j] = r
        OBVIOUS
    <2>1. CASE r = x
        <3>1. i + 1 \in 1 .. n + 1
            OBVIOUS
        <3>. QED
            BY <1>3, <2>1, <3>1
    <2>2. CASE r # x
        <3>1. PICK j \in 1 .. n : s[j] = r
            BY <1>1, <2>2
        <3>2. j \in 1 .. n + 1 /\ j + 1 \in 1 .. n + 1 /\ (j <= i \/ j > i)
            OBVIOUS
        <3>. QED
            BY <1>3, <3>1, <3>2
    <2>. QED
        BY <2>1, <2>2
<1>13. \A j \in 1 .. n + 1 : h[t[j]].next = IF j < n + 1 THEN t[j + 1] ELSE 0
    <2>. TAKE j \in 1 .. n + 1
    <2>1. CASE j < i
        <3>1. j \in 1 .. n /\ j + 1 \in 1 .. n /\ j + 1 <= i /\ j <= i /\ j < n /\ j < n + 1
            BY <2>1
        <3>2. t[j] = s[j] /\ t[j + 1] = s[j + 1]
            BY <1>3, <3>1
        <3>. QED
            BY <1>1, <1>7, <2>1, <3>1, <3>2
    <2>2. CASE j = i
        <3>1. j < n + 1 /\ t[j] = p /\ t[j + 1] = x
            BY <1>3, <2>2
        <3>. QED
            BY <3>1
    <2>3. CASE j = i + 1
        <3>1. h[t[j]].next = nx
            BY <1>3, <2>3
        <3>2. CASE i < n
            <4>1. i + 1 \in 1 .. n /\ i + 1 > i /\ j < n + 1
                BY <2>3, <3>2
            <4>2. t[j + 1] = s[i + 1]
                BY <1>3, <2>3, <4>1
            <4>. QED
                BY <1>4, <3>1, <3>2, <4>1, <4>2
        <3>3. CASE ~(i < n)
            <4>1. ~(j < n + 1)
                BY <2>3, <3>3
            <4>. QED
                BY <1>4, <3>1, <3>3, <4>1
        <3>. QED
            BY <3>2, <3>3
    <2>4. CASE j > i + 1
        <3>1. PICK k \in 1 .. n : k = j - 1 /\ k > i /\ k # i /\ k + 1 = j /\ (k < n <=> j < n + 1)
            <4>1. j - 1 \in 1 .. n /\ j - 1 > i /\ j - 1 # i /\ (j - 1) + 1 = j
                  /\ (j - 1 < n <=> j < n + 1)
                BY <2>4
            <4>. QED
                BY <4>1
        <3>2. t[j] = s[k]
            BY <1>3, <3>1
        <3>3. h[t[j]].next = IF k < n THEN s[k + 1] ELSE 0
            BY SMTT(40), <1>1, <1>7, <3>1, <3>2
        <3>4. k < n => t[j + 1] = s[k + 1]
            <4>1. k < n => k + 1 \in 1 .. n /\ k + 1 > i
                BY <3>1
            <4>. QED
                BY <1>3, <3>1, <4>1
        <3>. QED
            BY <3>1, <3>3, <3>4
    <2>. QED
        BY <2>1, <2>2, <2>3, <2>4
<1>14. \A j \in 1 .. n + 1 : h[t[j]].prev = IF j > 1 THEN t[j - 1] ELSE 0
    <2>. TAKE j \in 1 .. n + 1
    <2>1. CASE j <= i
        <3>1. j \in 1 .. n /\ j # i + 1
            BY <2>1
        <3>2. t[j] = s[j]
            BY <1>3, <2>1, <3>1
        <3>3. h[t[j]].prev = IF j > 1 THEN s[j - 1] ELSE 0
            BY <1>1, <1>8, <3>1, <3>2
        <3>4. j > 1 => j - 1 \in 1 .. n /\ j - 1 <= i
            BY <2>1
        <3>5. j > 1 => t[j - 1] = s[j - 1]
            BY <1>3, <3>4
        <3>. QED
            BY <3>3, <3>5
    <2>2. CASE j = i + 1
        <3>1. h[t[j]].prev = s[i]
            BY <1>3, <2>2
        <3>2. j > 1 /\ j - 1 = i /\ t[i] = s[i]
            BY <1>3, <2>2
        <3>. QED
            BY <3>1, <3>2
    <2>3. CASE j > i + 1
        <3>1. PICK k \in 1 .. n : k = j - 1 /\ k > i /\ k > 1 /\ k + 1 = j /\ j > 1
            <4>1. j - 1 \in 1 .. n /\ j - 1 > i /\ j - 1 > 1 /\ (j - 1) + 1 = j /\ j > 1
                BY <2>3
            <4>. QED
                BY <4>1
        <3>2. t[j] = s[k] /\ t[j - 1] = t[k]
            BY <1>3, <3>1
        <3>3. CASE k = i + 1
            <4>1. s[k] = nx /\ nx # 0
                BY <1>1, <1>4, <3>3
            <4>2. t[k] = x
                BY <1>3, <3>3
            <4>. QED
                BY <3>1, <3>2, <4>1, <4>2
        <3>4. CASE k # i + 1
            <4>1. k - 1 \in 1 .. n /\ k - 1 > i /\ (k - 1) + 1 = k
                BY <3>1, <3>4
            <4>2. t[k] = s[k - 1]
                BY <1>3, <4>1
            <4>. QED
                <5>1. h[s[k]].prev = g[s[k]].prev
                    BY <1>8, <3>4
                <5>2. g[s[k]].prev = s[k - 1]
                    BY <1>1, <3>1
                <5>. QED
                    BY <3>1, <3>2, <4>2, <5>1, <5>2
        <3>. QED
            BY <3>3, <3>4
    <2>. QED
        BY <2>1, <2>2, <2>3
<1>15. Len(t) >= 1 /\ Len(t) = n + 1
    BY <1>3
<1>. QED
    BY SMTT(40), <1>2, <1>3, <1>10, <1>11, <1>12, <1>13, <1>14, <1>15 DEF InRow

(* The pages h are g without q, which was between p and nx. *)
TakenOut(g, h, p, q, nx) ==
    /\ q # 0 /\ nx = g[q].next /\ q = g[p].next /\ LiveOf(h) = LiveOf(g) \ {q}
    /\ h[p].next = nx /\ h[p].prev = g[p].prev
    /\ nx # 0 => h[nx].next = g[nx].next /\ h[nx].prev = p
    /\ \A r \in 1 .. MaxPage : r # p /\ r # q /\ r # nx => h[r] = g[r]

(* A row without its page i + 1. *)
LEMMA RowOut ==
    ASSUME NEW g, NEW s, InRow(g, s), NEW h, NEW n \in Nat, n = Len(s), NEW i \in 1 .. n,
           NEW p, p = s[i], NEW q, NEW nx, TakenOut(g, h, p, q, nx)
    PROVE  i + 1 \in 1 .. n /\ InRow(h, RemoveAt(s, i + 1))
<1>1. /\ s \in Seq(1 .. MaxPage) /\ 0 \notin LiveOf(g)
      /\ \A j \in 1 .. n : s[j] \in LiveOf(g) /\ s[j] \in 1 .. MaxPage /\ s[j] # 0
      /\ \A j, k \in 1 .. n : s[j] = s[k] => j = k
      /\ \A r \in LiveOf(g) : \E j \in 1 .. n : s[j] = r
      /\ \A j \in 1 .. n : g[s[j]].next = IF j < n THEN s[j + 1] ELSE 0
      /\ \A j \in 1 .. n : g[s[j]].prev = IF j > 1 THEN s[j - 1] ELSE 0
    BY DEF InRow, LiveOf
<1>0. q # 0 /\ nx = g[q].next /\ q = g[p].next /\ LiveOf(h) = LiveOf(g) \ {q}
    BY SMTT(40) DEF TakenOut
<1>a. /\ h[p].next = nx /\ h[p].prev = g[p].prev
      /\ nx # 0 => h[nx].next = g[nx].next /\ h[nx].prev = p
    BY DEF TakenOut
<1>b. \A r \in 1 .. MaxPage : r # p /\ r # q /\ r # nx => h[r] = g[r]
    BY DEF TakenOut
<1>2. i < n /\ i + 1 \in 1 .. n /\ s[i + 1] = q
    <2>1. i < n
        BY <1>0, <1>1
    <2>2. i + 1 \in 1 .. n
        BY <2>1
    <2>. QED
        BY <1>0, <1>1, <2>1, <2>2
<1>3. PICK t : t = RemoveAt(s, i + 1)
    OBVIOUS
<1>4. /\ t \in Seq(1 .. MaxPage) /\ Len(t) = n - 1
      /\ \A j \in 1 .. n - 1 : j <= i => t[j] = s[j]
      /\ \A j \in 1 .. n - 1 : j > i => t[j] = s[j + 1]
    <2>1. i \in 0 .. Len(s) - 1 /\ s \in Seq(1 .. MaxPage)
        BY <1>1, <1>2
    <2>2. PICK S : S = 1 .. MaxPage
        OBVIOUS
    <2>3. s \in Seq(S) /\ i \in 0 .. Len(s) - 1
        BY <2>1, <2>2
    <2>4. t \in Seq(S) /\ Shorter(t, s, i)
        BY <1>3, <2>3, TakenAfter
    <2>. QED
        BY <2>2, <2>4 DEF Shorter
<1>5. nx = IF i + 1 < n THEN s[i + 2] ELSE 0
    <2>1. (i + 1) + 1 = i + 2
        OBVIOUS
    <2>2. nx = IF i + 1 < n THEN s[(i + 1) + 1] ELSE 0
        BY <1>0, <1>1, <1>2
    <2>. QED
        BY <2>1, <2>2
<1>6. \A j \in 1 .. n : j # i + 2 => s[j] # nx
    <2>. SUFFICES ASSUME NEW j \in 1 .. n, j # i + 2 PROVE s[j] # nx
        OBVIOUS
    <2>1. CASE i + 1 < n
        <3>1. i + 2 \in 1 .. n
            BY <2>1
        <3>. QED
            BY <1>1, <1>5, <2>1, <3>1
    <2>2. CASE ~(i + 1 < n)
        BY <1>1, <1>5, <2>2
    <2>. QED
        BY <2>1, <2>2
<1>7. \A j \in 1 .. n : j # i /\ j # i + 1 => h[s[j]].next = g[s[j]].next
    <2>. SUFFICES ASSUME NEW j \in 1 .. n, j # i, j # i + 1
                  PROVE  h[s[j]].next = g[s[j]].next
        OBVIOUS
    <2>1. CASE s[j] = nx
        BY <1>1, <1>a, <2>1
    <2>2. CASE s[j] # nx
        <3>1. s[j] \in 1 .. MaxPage /\ s[j] # p /\ s[j] # q
            BY <1>1, <1>2
        <3>2. h[s[j]] = g[s[j]]
            BY <1>b, <2>2, <3>1
        <3>. QED
            BY <3>2
    <2>. QED
        BY <2>1, <2>2
<1>8. \A j \in 1 .. n : j # i + 1 /\ j # i + 2 => h[s[j]].prev = g[s[j]].prev
    <2>. SUFFICES ASSUME NEW j \in 1 .. n, j # i + 1, j # i + 2
                  PROVE  h[s[j]].prev = g[s[j]].prev
        OBVIOUS
    <2>1. CASE j = i
        BY <1>a, <2>1
    <2>2. CASE j # i
        <3>1. s[j] \in 1 .. MaxPage /\ s[j] # p /\ s[j] # q
            BY <1>1, <1>2, <2>2
        <3>2. s[j] # nx
            BY <1>6
        <3>3. h[s[j]] = g[s[j]]
            BY <1>b, <3>1, <3>2
        <3>. QED
            BY <3>3
    <2>. QED
        BY <2>1, <2>2
(* Where a place of the new row comes from. *)
<1>9. \A j \in 1 .. n - 1 :
        \/ j \in 1 .. n /\ j <= i /\ j # i + 1 /\ t[j] = s[j]
        \/ j + 1 \in 1 .. n /\ j > i /\ j + 1 # i + 1 /\ t[j] = s[j + 1]
    <2>. TAKE j \in 1 .. n - 1
    <2>1. j \in 1 .. n /\ j + 1 \in 1 .. n /\ (j <= i => j # i + 1) /\ (j > i => j + 1 # i + 1)
          /\ (j <= i \/ j > i)
        OBVIOUS
    <2>. QED
        BY <1>4, <2>1
<1>10. \A j \in 1 .. n - 1 : t[j] \in LiveOf(h)
    <2>1. \A j \in 1 .. n : j # i + 1 => s[j] # q
        BY <1>1, <1>2
    <2>. TAKE j \in 1 .. n - 1
    <2>2. PICK a \in 1 .. n : a # i + 1 /\ t[j] = s[a]
        BY <1>9
    <2>3. s[a] \in LiveOf(g) /\ s[a] # q
        BY <1>1, <2>1, <2>2
    <2>. QED
        BY <1>0, <2>2, <2>3
<1>11. \A j, k \in 1 .. n - 1 : t[j] = t[k] => j = k
    <2>. SUFFICES ASSUME NEW j \in 1 .. n - 1, NEW k \in 1 .. n - 1, t[j] = t[k]
                  PROVE  j = k
        OBVIOUS
    <2>1. PICK a \in 1 .. n : s[a] = t[j] /\ ((a = j /\ j <= i) \/ (a = j + 1 /\ j > i))
        BY <1>9
    <2>2. PICK b \in 1 .. n : s[b] = t[k] /\ ((b = k /\ k <= i) \/ (b = k + 1 /\ k > i))
        BY <1>9
    <2>3. a = b
        BY <1>1, <2>1, <2>2
    <2>. QED
        BY <2>1, <2>2, <2>3
<1>12. \A r \in LiveOf(h) : \E j \in 1 .. n - 1 : t[j] = r
    <2>. SUFFICES ASSUME NEW r \in LiveOf(h) PROVE \E j \in 1 .. n - 1 : t[j] = r
        OBVIOUS
    <2>1. PICK j \in 1 .. n : s[j] = r /\ j # i + 1
        BY <1>0, <1>1, <1>2
    <2>2. CASE j <= i
        <3>1. j \in 1 .. n - 1
            BY <1>2, <2>2
        <3>. QED
            BY <1>4, <2>1, <2>2, <3>1
    <2>3. CASE j > i
        <3>1. j - 1 \in 1 .. n - 1 /\ j - 1 > i /\ (j - 1) + 1 = j
            BY <2>1, <2>3
        <3>. QED
            BY <1>4, <2>1, <3>1
    <2>. QED
        BY <2>2, <2>3
<1>13. \A j \in 1 .. n - 1 : h[t[j]].next = IF j < n - 1 THEN t[j + 1] ELSE 0
    <2>. TAKE j \in 1 .. n - 1
    <2>1. CASE j < i
        <3>1. /\ j \in 1 .. n /\ j + 1 \in 1 .. n - 1 /\ j + 1 <= i /\ j <= i
              /\ j < n /\ j < n - 1 /\ j # i /\ j # i + 1
            BY <1>2, <2>1
        <3>2. t[j] = s[j] /\ t[j + 1] = s[j + 1]
            BY <1>4, <3>1
        <3>. QED
            BY <1>1, <1>7, <3>1, <3>2
    <2>2. CASE j = i
        <3>1. h[t[j]].next = nx
            BY <1>4, <1>a, <2>2
        <3>2. CASE i + 1 < n
            <4>1. i + 1 \in 1 .. n - 1 /\ i + 1 > i /\ j < n - 1 /\ (i + 1) + 1 = i + 2
                BY <2>2, <3>2
            <4>2. t[j + 1] = s[i + 2]
                BY <1>4, <2>2, <4>1
            <4>. QED
                BY <1>5, <3>1, <3>2, <4>1, <4>2
        <3>3. CASE ~(i + 1 < n)
            <4>1. ~(j < n - 1)
                BY <2>2, <3>3
            <4>. QED
                BY <1>5, <3>1, <3>3, <4>1
        <3>. QED
            BY <3>2, <3>3
    <2>3. CASE j > i
        <3>1. PICK k \in 1 .. n : /\ k = j + 1 /\ k # i /\ k # i + 1 /\ k > i
                                  /\ (k < n <=> j < n - 1)
            <4>1. /\ j + 1 \in 1 .. n /\ j + 1 # i /\ j + 1 # i + 1 /\ j + 1 > i
                  /\ (j + 1 < n <=> j < n - 1)
                BY <2>3
            <4>. QED
                BY <4>1
        <3>2. t[j] = s[k]
            BY <1>4, <2>3, <3>1
        <3>3. h[t[j]].next = IF k < n THEN s[k + 1] ELSE 0
            BY <1>1, <1>7, <3>1, <3>2
        <3>4. k < n => t[k] = s[k + 1]
            <4>1. k < n => k \in 1 .. n - 1
                BY <3>1
            <4>. QED
                BY <1>4, <3>1, <4>1
        <3>. QED
            BY <3>1, <3>3, <3>4
    <2>. QED
        BY <2>1, <2>2, <2>3
<1>14. \A j \in 1 .. n - 1 : h[t[j]].prev = IF j > 1 THEN t[j - 1] ELSE 0
    <2>. TAKE j \in 1 .. n - 1
    <2>1. CASE j <= i
        <3>1. j \in 1 .. n /\ j # i + 1 /\ j # i + 2
            BY <2>1
        <3>2. t[j] = s[j]
            BY <1>4, <2>1
        <3>3. h[t[j]].prev = IF j > 1 THEN s[j - 1] ELSE 0
            <4>1. h[s[j]].prev = g[s[j]].prev
                BY <1>8, <3>1
            <4>. QED
                BY <1>1, <3>1, <3>2, <4>1
        <3>4. j > 1 => j - 1 \in 1 .. n - 1 /\ j - 1 <= i
            BY <2>1
        <3>5. j > 1 => t[j - 1] = s[j - 1]
            BY <1>4, <3>4
        <3>. QED
            BY <3>3, <3>5
    <2>2. CASE j = i + 1
        <3>1. i + 2 \in 1 .. n /\ i + 1 < n /\ j > i /\ j > 1 /\ j - 1 = i /\ j + 1 = i + 2
              /\ i \in 1 .. n - 1
            BY <2>2
        <3>2. t[j] = s[i + 2] /\ t[i] = s[i]
            BY SMTT(40), <1>4, <3>1
        <3>3. nx = s[i + 2] /\ nx # 0
            BY <1>1, <1>5, <3>1
        <3>. QED
            BY <1>a, <3>1, <3>2, <3>3
    <2>3. CASE j > i + 1
        <3>1. /\ j + 1 \in 1 .. n /\ j + 1 # i + 1 /\ j + 1 # i + 2 /\ j > i /\ j > 1 /\ j + 1 > 1
              /\ j - 1 \in 1 .. n - 1 /\ j - 1 > i /\ (j - 1) + 1 = j /\ (j + 1) - 1 = j
            BY <2>3
        <3>2. t[j] = s[j + 1] /\ t[j - 1] = s[j]
            BY <1>4, <3>1
        <3>3. h[s[j + 1]].prev = g[s[j + 1]].prev
            BY <1>8, <3>1
        <3>4. g[s[j + 1]].prev = s[j]
            BY <1>1, <3>1
        <3>. QED
            BY <3>1, <3>2, <3>3, <3>4
    <2>. QED
        BY <2>1, <2>2, <2>3
<1>15. PICK m : m = Len(t) /\ m = n - 1 /\ m >= 1
    BY <1>2, <1>4
<1>16. InRow(h, t)
    <2>1. /\ \A j \in 1 .. m : t[j] \in LiveOf(h)
          /\ \A j, k \in 1 .. m : t[j] = t[k] => j = k
          /\ \A r \in LiveOf(h) : \E j \in 1 .. m : t[j] = r
        BY <1>10, <1>11, <1>12, <1>15
    <2>2. /\ \A j \in 1 .. m : h[t[j]].next = IF j < m THEN t[j + 1] ELSE 0
          /\ \A j \in 1 .. m : h[t[j]].prev = IF j > 1 THEN t[j - 1] ELSE 0
        BY <1>13, <1>14, <1>15
    <2>3. t \in Seq(1 .. MaxPage)
        BY <1>4
    <2>. QED
        BY <1>15, <2>1, <2>2, <2>3 DEF InRow
<1>. QED
    BY <1>2, <1>3, <1>16

(* The lists of the pages, now and after a step. *)
LEMMA ListsAre ==
    ASSUME IInv, NEW s, InRow(page, s), NEW n \in Nat, n = Len(s)
    PROVE  InOrder = [i \in 1 .. n |-> ItemsOf(page[s[i]].slots, ov)]
<1>1. \A p \in LiveOf(page) : DOMAIN page[p].slots = 1 .. Len(page[p].slots)
    BY HeadsIn, Free, LiveIs
<1>2. OrderIn(page, ov) = [i \in 1 .. n |-> ItemsOf(page[s[i]].slots, ov)]
    BY <1>1, OrderIs
<1>. QED
    BY <1>2, OrderNow

LEMMA ListsThen ==
    ASSUME IInv', NEW s, InRow(page', s), NEW n \in Nat, n = Len(s)
    PROVE  InOrder' = [i \in 1 .. n |-> ItemsOf(page'[s[i]].slots, ov')]
<1>1. \A p \in LiveOf(page') : DOMAIN page'[p].slots = 1 .. Len(page'[p].slots)
    <2>. SUFFICES ASSUME NEW p \in LiveOf(page')
                  PROVE  DOMAIN page'[p].slots = 1 .. Len(page'[p].slots)
        OBVIOUS
    <2>1. PICK q : q = page'[p]
        OBVIOUS
    <2>2. \A r \in Live' : PageOK(page[r])'
        BY DEF IInv
    <2>3. PageOK(q)
        BY <2>1, <2>2, LiveIs DEF PageOK, Exact, Packed
    <2>. QED
        BY <2>1, <2>3, Free
<1>2. PICK g, v : g = page' /\ v = ov'
    OBVIOUS
<1>3. OrderIn(g, v) = [i \in 1 .. n |-> ItemsOf(g[s[i]].slots, v)]
    BY <1>1, <1>2, OrderIs
<1>. QED
    BY <1>2, <1>3, OrderNow

(* What the lists may do, in the terms of this module. *)
LEMMA MayInsert ==
    ASSUME NEW l, l = InOrder, NEW m, m = InOrder', NEW i \in DOMAIN l, i \in DOMAIN m,
           Len(m[i]) = Len(l[i]) + 1, NEW pos \in DOMAIN m[i], NEW d \in UNION Trees,
           Lists!Bytes(l[i]) + (SizeRequired(d) + SlotSize) <= PageSize - HeaderSize,
           m = [l EXCEPT ![i] = InsertAt(@, pos, d)]
    PROVE  Lists!ListsNext
<1>1. m = Lists!Insert(l, i, pos, d)
    BY DEF Lists!Insert, Lists!InsertAt, InsertAt
<1>. QED
    BY <1>1 DEF Lists!ListsNext

LEMMA MayErase ==
    ASSUME NEW l, l = InOrder, NEW m, m = InOrder', NEW i \in DOMAIN l,
           NEW pos \in DOMAIN l[i], m = [l EXCEPT ![i] = RemoveAt(@, pos)]
    PROVE  Lists!ListsNext
<1>1. m = Lists!Erase(l, i, pos)
    BY DEF Lists!Erase, Lists!RemoveAt, RemoveAt
<1>. QED
    BY <1>1 DEF Lists!ListsNext

LEMMA MaySplit ==
    ASSUME NEW l, l = InOrder, NEW m, m = InOrder', NEW i \in DOMAIN l,
           Len(l[i]) >= MinNum, NEW k \in MinNum \div 2 .. Len(l[i]) - MinNum \div 2,
           m = [InsertAt(l, i + 1, SubSeq(l[i], k + 1, Len(l[i]))) EXCEPT ![i] = SubSeq(@, 1, k)]
    PROVE  Lists!ListsNext
<1>1. m = Lists!Split(l, i, k)
    BY DEF Lists!Split, Lists!InsertAt, InsertAt
<1>. QED
    BY <1>1 DEF Lists!ListsNext

LEMMA MayMerge ==
    ASSUME NEW l, l = InOrder, NEW m, m = InOrder', NEW i \in DOMAIN l, i + 1 \in DOMAIN l,
           Lists!Bytes(l[i]) + Lists!Bytes(l[i + 1]) <= PageSize - HeaderSize,
           m = [RemoveAt(l, i + 1) EXCEPT ![i] = @ \o l[i + 1]]
    PROVE  Lists!ListsNext
<1>1. m = Lists!Merge(l, i)
    BY ZenonT(40) DEF Lists!Merge, Lists!RemoveAt, RemoveAt
<1>. QED
    BY ZenonT(40), <1>1 DEF Lists!ListsNext

LEMMA MayTakeNext ==
    ASSUME NEW l, l = InOrder, NEW m, m = InOrder', NEW i \in DOMAIN l, i + 1 \in DOMAIN l,
           l[i + 1] # <<>>,
           m = [l EXCEPT ![i] = Append(@, Head(l[i + 1])), ![i + 1] = Tail(@)]
    PROVE  Lists!ListsNext
<1>1. m = Lists!TakeNext(l, i)
    BY DEF Lists!TakeNext
<1>. QED
    BY <1>1 DEF Lists!ListsNext

LEMMA MayTakePrev ==
    ASSUME NEW l, l = InOrder, NEW m, m = InOrder', NEW i \in DOMAIN l, i + 1 \in DOMAIN l,
           l[i] # <<>>,
           m = [l EXCEPT ![i] = Front(@), ![i + 1] = <<Last(l[i])>> \o @]
    PROVE  Lists!ListsNext
<1>1. m = Lists!TakePrev(l, i)
    BY DEF Lists!TakePrev, Lists!Front, Front, Lists!Last, Last
<1>. QED
    BY <1>1 DEF Lists!ListsNext

(* The pages are a row, and every block is as large as its item makes it.  *)
Listed(g, v) ==
    /\ \E s : InRow(g, s)
    /\ \A p \in LiveOf(g) : Measured(g[p].slots, v)

(* The blocks of a page name heads of chains, or none. *)
LEMMA HeadsNow ==
    ASSUME IInv
    PROVE  \A p \in Live : \A n \in 1 .. Len(page[p].slots) :
                page[p].slots[n].ov \in AllHeads(page) \cup {0}
<1>. SUFFICES ASSUME NEW p \in Live, NEW n \in 1 .. Len(page[p].slots)
              PROVE  page[p].slots[n].ov \in AllHeads(page) \cup {0}
    OBVIOUS
<1>1. PICK o : o = page[p].slots[n].ov
    OBVIOUS
<1>2. o \in 0 .. MaxOv /\ Heads(page[p].slots) \subseteq AllHeads(page)
    BY <1>1, HeadsIn
<1>3. o # 0 => o \in 1 .. MaxOv
    BY <1>2, Numbers
<1>4. o # 0 => o \in Heads(page[p].slots)
    BY <1>1, <1>3 DEF Heads, Named
<1>. QED
    BY <1>1, <1>2, <1>4

LEMMA HeadsThen ==
    ASSUME IInv'
    PROVE  \A p \in LiveOf(page') : \A n \in 1 .. Len(page'[p].slots) :
                page'[p].slots[n].ov \in AllHeads(page') \cup {0}
<1>. SUFFICES ASSUME NEW p \in LiveOf(page'), NEW n \in 1 .. Len(page'[p].slots)
              PROVE  page'[p].slots[n].ov \in AllHeads(page') \cup {0}
    OBVIOUS
<1>1. PICK q : q = page'[p]
    OBVIOUS
<1>2. PageOK(q)
    <2>1. \A r \in Live' : PageOK(page[r])'
        BY DEF IInv
    <2>. QED
        BY <1>1, <2>1, LiveIs DEF PageOK, Exact, Packed
<1>3. PICK b \in Block : b = q.slots[n]
    BY <1>1, <1>2, Free, Blocks9
<1>4. b.ov \in 0 .. MaxOv /\ p \in 1 .. MaxPage
    BY DEF Block, LiveOf
<1>5. PICK o : o = b.ov
    OBVIOUS
<1>6. o # 0 => o \in 1 .. MaxOv
    BY <1>4, <1>5, Numbers
<1>7. o # 0 => o \in Heads(page'[p].slots)
    BY <1>1, <1>3, <1>5, <1>6 DEF Heads, Named
<1>8. o \in AllHeads(page') \cup {0}
    BY <1>4, <1>7 DEF AllHeads
<1>. QED
    BY <1>1, <1>3, <1>5, <1>8

(* A function with one value changed. *)
LEMMA Excepted ==
    ASSUME NEW n, NEW l, l = [j \in 1 .. n |-> l[j]], NEW m, m = [j \in 1 .. n |-> m[j]],
           NEW i \in 1 .. n, NEW e, m[i] = e, \A j \in 1 .. n : j # i => m[j] = l[j]
    PROVE  m = [l EXCEPT ![i] = e]
<1>1. PICK t : t = [l EXCEPT ![i] = e]
    OBVIOUS
<1>2. t = [j \in 1 .. n |-> IF j = i THEN e ELSE l[j]]
    BY <1>1
<1>3. \A j \in 1 .. n : m[j] = IF j = i THEN e ELSE l[j]
    OBVIOUS
<1>4. m = [j \in 1 .. n |-> IF j = i THEN e ELSE l[j]]
    BY <1>3
<1>. QED
    BY <1>1, <1>2, <1>4

(* The items of a block list, and their number. *)
LEMMA ItemsAre ==
    ASSUME NEW p, PageOK(p), NEW v, Measured(p.slots, v)
    PROVE  /\ ItemsOf(p.slots, v) \in Seq(Nat) /\ Len(ItemsOf(p.slots, v)) = Len(p.slots)
           /\ DOMAIN ItemsOf(p.slots, v) = 1 .. Len(p.slots)
           /\ \A n \in 1 .. Len(p.slots) : ItemsOf(p.slots, v)[n] = LengthIn(p.slots[n], v)
<1>1. PICK s : s = p.slots
    OBVIOUS
<1>2. PICK m \in Nat : m = Len(s)
    BY <1>1, Free
<1>3. \A n \in 1 .. m : LengthIn(s[n], v) \in Nat
    BY <1>1, <1>2 DEF Measured, Fits
<1>4. PICK e, S : e = ItemsOf(s, v) /\ S = Nat
    OBVIOUS
<1>5. /\ e \in Seq(S) /\ Len(e) = m /\ DOMAIN e = 1 .. m
      /\ \A n \in 1 .. m : e[n] = LengthIn(s[n], v)
    <2>1. m = Len(s)
        BY <1>2
    <2>2. \A n \in 1 .. m : LengthIn(s[n], v) \in S
        BY <1>3, <1>4
    <2>3. /\ ItemsOf(s, v) \in Seq(S) /\ Len(ItemsOf(s, v)) = m
          /\ DOMAIN ItemsOf(s, v) = 1 .. m
          /\ \A n \in 1 .. m : ItemsOf(s, v)[n] = LengthIn(s[n], v)
        BY <2>1, <2>2, ItemsSeq
    <2>. QED
        BY <1>4, <2>3
<1>. QED
    BY <1>1, <1>2, <1>4, <1>5

(* The chains after a step. *)
LEMMA ChainsThen ==
    ASSUME ChainsKept'
    PROVE  \E e : Follows(e, ov') /\ Owned(e, ov', AllHeads(page'))
BY DEF ChainsKept, NamedApart, AllHeads, Once, Heads, Named, Follows, Owned, On

(* erase() takes an item out of a list. *)
LEMMA EraseLists ==
    ASSUME IInv, IInv', ChainsKept, ChainsKept', Listed(page, ov),
           NEW p \in Live, NEW pos \in 1 .. Len(page[p].slots), Erase(p, pos)
    PROVE  Listed(page', ov') /\ Lists!ListsNext
<1>1. PICK g, w, v : g = page' /\ w = ov' /\ v = ov
    OBVIOUS
<1>2. PICK s : InRow(page, s)
    BY DEF Listed
<1>3. PICK n \in Nat : n = Len(s)
    BY <1>2, Elements DEF InRow
<1>4. PICK q : q = Erased(page[p], pos)
    OBVIOUS
<1>5. PageOK(page[p]) /\ p \in 1 .. MaxPage /\ p \in LiveOf(page)
    BY HeadsIn, LiveIs
<1>6. PageOK(q) /\ q.next = page[p].next /\ q.prev = page[p].prev /\ q # NoPage
    <2>1. PageOK(q) /\ q.next = page[p].next /\ q.prev = page[p].prev
        BY <1>4, <1>5, ErasedKeeps
    <2>. QED
        BY <2>1, NoPageIsNone DEF PageOK
<1>7. /\ DOMAIN page = 1 .. MaxPage /\ page' = [page EXCEPT ![p] = q]
      /\ ov' = ChainFreed(page[p].slots[pos].ov)
    BY <1>4 DEF Erase, IInv, Pages
<1>8. g[p] = q /\ \A r \in 1 .. MaxPage : r # p => g[r] = page[r]
    BY <1>1, <1>5, <1>7
<1>9. LiveOf(g) = LiveOf(page)
    BY <1>5, <1>6, <1>8 DEF LiveOf
<1>10. InRow(g, s)
    <2>1. \A r \in LiveOf(page) : g[r].next = page[r].next /\ g[r].prev = page[r].prev
        BY <1>6, <1>8 DEF LiveOf
    <2>. QED
        BY <1>2, <1>9, <2>1, RowStays
(* What stays is as long as before. *)
<1>11. PICK e : Follows(e, w) /\ Owned(e, w, AllHeads(g))
    BY <1>1, ChainsThen
<1>12. PICK c : Follows(c, v) /\ Owned(c, v, AllHeads(page))
    BY <1>1 DEF ChainsKept
<1>13. v \in OvType /\ w \in OvType
    BY <1>1 DEF IInv, OvType
<1>14. \A o \in 1 .. MaxOv : w[o] # Unused => v[o] = w[o]
    <2>1. PICK a \in 0 .. MaxOv : a = page[p].slots[pos].ov
        BY HeadsIn
    <2>2. \A o \in 1 .. MaxOv : ChainFreed(a)[o] = IF On(c[a], o) THEN Unused ELSE ov[o]
        BY <1>1, <1>12, <1>13, FreedChain
    <2>. QED
        BY <1>1, <1>7, <2>1, <2>2
<1>15. \A r \in LiveOf(g) : /\ ItemsOf(g[r].slots, v) = ItemsOf(g[r].slots, w)
                            /\ Measured(g[r].slots, v) <=> Measured(g[r].slots, w)
    <2>. TAKE r \in LiveOf(g)
    <2>1. PICK b, H : b = g[r].slots /\ H = AllHeads(g)
        OBVIOUS
    <2>2. \A k \in 1 .. Len(b) : b[k].ov \in H \cup {0}
        BY <1>1, <2>1, HeadsThen
    <2>3. Follows(e, w) /\ Owned(e, w, H) /\ Follows(c, v)
        BY <1>11, <1>12, <2>1
    <2>4. ItemsOf(b, v) = ItemsOf(b, w) /\ (Measured(b, v) <=> Measured(b, w))
        BY <1>13, <1>14, <2>2, <2>3, ItemsStay
    <2>. QED
        BY <2>1, <2>4
<1>16. \A r \in LiveOf(page) : Measured(page[r].slots, v)
    BY <1>1 DEF Listed
(* What goes is the item at pos. *)
<1>17. /\ ItemsOf(q.slots, v) = RemoveAt(ItemsOf(page[p].slots, v), pos)
       /\ Measured(q.slots, v)
    <2>1. PICK a, b : a = page[p].slots /\ b = q.slots
        OBVIOUS
    <2>2. Len(b) \in Nat /\ pos \in 1 .. Len(a) /\ Fewer(a, b, pos)
        BY <1>4, <1>5, <1>6, <2>1, Free, ErasedBlocks
    <2>3. ItemsOf(b, v) = RemoveAt(ItemsOf(a, v), pos) /\ (Measured(a, v) => Measured(b, v))
        BY <2>2, FewerItems
    <2>. QED
        BY <1>5, <1>16, <2>1, <2>3
<1>18. \A r \in LiveOf(g) : Measured(g[r].slots, w)
    <2>. TAKE r \in LiveOf(g)
    <2>1. Measured(g[r].slots, v)
        BY <1>8, <1>9, <1>16, <1>17 DEF LiveOf
    <2>. QED
        BY <1>15, <2>1
<1>19. Listed(g, w)
    BY <1>10, <1>18 DEF Listed
<1>20. PICK l, m : l = InOrder /\ m = InOrder'
    OBVIOUS
<1>21. l = [j \in 1 .. n |-> ItemsOf(page[s[j]].slots, v)]
    BY <1>1, <1>2, <1>3, <1>20, ListsAre
<1>22. m = [j \in 1 .. n |-> ItemsOf(g[s[j]].slots, w)]
    BY <1>1, <1>3, <1>10, <1>20, ListsThen
<1>23. PICK i \in 1 .. n : s[i] = p
    BY <1>2, <1>3, <1>5 DEF InRow
<1>24. \A j \in 1 .. n : j # i => m[j] = l[j]
    <2>. SUFFICES ASSUME NEW j \in 1 .. n, j # i PROVE m[j] = l[j]
        OBVIOUS
    <2>1. s[j] \in LiveOf(g) /\ s[j] # p /\ s[j] \in 1 .. MaxPage
        BY <1>2, <1>3, <1>9, <1>23 DEF InRow, LiveOf
    <2>2. g[s[j]] = page[s[j]]
        BY <1>8, <2>1
    <2>3. ItemsOf(g[s[j]].slots, w) = ItemsOf(page[s[j]].slots, v)
        BY <1>15, <2>1, <2>2
    <2>. QED
        BY <1>21, <1>22, <2>3
<1>25. m[i] = RemoveAt(l[i], pos)
    <2>1. m[i] = ItemsOf(q.slots, w) /\ l[i] = ItemsOf(page[p].slots, v)
        BY <1>8, <1>21, <1>22, <1>23
    <2>2. ItemsOf(q.slots, w) = ItemsOf(q.slots, v)
        BY <1>5, <1>8, <1>9, <1>15
    <2>. QED
        BY <1>17, <2>1, <2>2
<1>26. m = [l EXCEPT ![i] = RemoveAt(l[i], pos)]
    <2>1. PICK x : x = RemoveAt(l[i], pos)
        OBVIOUS
    <2>2. l = [j \in 1 .. n |-> l[j]] /\ m = [j \in 1 .. n |-> m[j]]
        BY <1>21, <1>22
    <2>3. m = [l EXCEPT ![i] = x]
        BY <1>24, <1>25, <2>1, <2>2, Excepted
    <2>. QED
        BY <2>1, <2>3
<1>27. i \in DOMAIN l /\ pos \in DOMAIN l[i]
    <2>1. DOMAIN l = 1 .. n /\ l[i] = ItemsOf(page[p].slots, v)
        BY <1>21, <1>23
    <2>2. DOMAIN ItemsOf(page[p].slots, v) = 1 .. Len(page[p].slots)
        BY <1>5, <1>16, ItemsAre
    <2>. QED
        BY <2>1, <2>2
<1>28. Lists!ListsNext
    <2>1. m = [l EXCEPT ![i] = RemoveAt(@, pos)]
        BY <1>26
    <2>. QED
        BY <1>20, <1>27, <2>1, MayErase
<1>. QED
    BY <1>1, <1>19, <1>28

(* What insert() writes: the pages in use stay as they are.                *)
LEMMA InUseStays ==
    ASSUME NEW d \in Nat \ {0}, OvPages(d) <= Cardinality(FreeOv), ov \in OvType,
           NEW w, w = WithChain(d)
    PROVE  \A o \in 1 .. MaxOv : ov[o] # Unused => w[o] = ov[o]
<1>1. /\ \A i \in 1 .. OvPages(d) : ov[Fresh(d)[i]] = Unused
      /\ \A o \in 1 .. MaxOv :
            (\A i \in 1 .. OvPages(d) : Fresh(d)[i] # o) => WithChain(d)[o] = ov[o]
    BY WrittenChain
<1>. QED
    BY <1>1

(* insert() puts one in. *)
LEMMA InsertLists ==
    ASSUME IInv, IInv', ChainsKept, ChainsKept', Listed(page, ov),
           NEW p \in Live, NEW pos \in 1 .. Len(page[p].slots) + 1, NEW d \in data,
           Insert(p, pos, d)
    PROVE  Listed(page', ov') /\ Lists!ListsNext
<1>1. PICK g, w, v : g = page' /\ w = ov' /\ v = ov
    OBVIOUS
<1>2. PICK s : InRow(page, s)
    BY DEF Listed
<1>3. PICK n \in Nat : n = Len(s)
    BY <1>2, Elements DEF InRow
<1>4. PICK b : b = [size |-> SizeRequired(d), ov |-> FirstOv(d)]
    OBVIOUS
<1>5. PICK q : q = Inserted(page[p], pos, b)
    OBVIOUS
<1>6. /\ d \in Nat \ {0} /\ d \in UNION Trees
      /\ page' = [page EXCEPT ![p] = q] /\ w = WithChain(d)
      /\ OvPages(d) <= Cardinality(FreeOv) /\ Accepts(page[p], SizeRequired(d))
      /\ DOMAIN page = 1 .. MaxPage
    BY <1>1, <1>4, <1>5, VariantAssumption DEF Insert, IInv, Pages, VariantAssumption
<1>7. v \in OvType /\ w \in OvType /\ ov \in OvType
    BY <1>1 DEF IInv, OvType
<1>8. /\ PageOK(page[p]) /\ p \in 1 .. MaxPage /\ p \in LiveOf(page)
      /\ Len(page[p].slots) \in Nat
    BY HeadsIn, LiveIs
<1>9. b.size = SizeRequired(d) /\ b.ov = FirstOv(d) /\ b.ov \in 0 .. MaxOv /\ Room(page[p], b.size)
    <2>1. SizeRequired(d) \in 9 .. MaxBlock /\ FirstOv(d) \in 0 .. MaxOv
        BY <1>6, <1>7, RemainIs, ChainTypes
    <2>2. b.size = SizeRequired(d) /\ b.ov = FirstOv(d)
        BY <1>4
    <2>. QED
        BY <1>6, <1>8, <2>1, <2>2 DEF Room
<1>10. /\ PageOK(q) /\ q.next = page[p].next /\ q.prev = page[p].prev /\ q # NoPage
       /\ Fewer(q.slots, page[p].slots, pos) /\ Alike(q.slots[pos], b)
    <2>1. PageOK(q) /\ q.next = page[p].next /\ q.prev = page[p].prev
        BY <1>5, <1>9, InsertedKeeps
    <2>2. Fewer(q.slots, page[p].slots, pos) /\ Alike(q.slots[pos], b)
        BY <1>5, <1>9, InsertedBlocks
    <2>. QED
        BY <2>1, <2>2, NoPageIsNone DEF PageOK
<1>11. g[p] = q /\ \A r \in 1 .. MaxPage : r # p => g[r] = page[r]
    BY <1>1, <1>6, <1>8
<1>12. LiveOf(g) = LiveOf(page)
    BY <1>8, <1>10, <1>11 DEF LiveOf
<1>13. InRow(g, s)
    <2>1. \A r \in LiveOf(page) : g[r].next = page[r].next /\ g[r].prev = page[r].prev
        BY <1>10, <1>11 DEF LiveOf
    <2>. QED
        BY <1>2, <1>12, <2>1, RowStays
(* What is there stays as long as it was. *)
<1>14. PICK e : Follows(e, w)
    BY <1>1, ChainsThen
<1>15. PICK c : Follows(c, v) /\ Owned(c, v, AllHeads(page))
    BY <1>1 DEF ChainsKept
<1>16. \A o \in 1 .. MaxOv : v[o] # Unused => w[o] = v[o]
    BY <1>1, <1>6, <1>7, InUseStays
<1>17. \A r \in LiveOf(page) : /\ ItemsOf(page[r].slots, w) = ItemsOf(page[r].slots, v)
                               /\ Measured(page[r].slots, w) <=> Measured(page[r].slots, v)
    <2>. TAKE r \in LiveOf(page)
    <2>1. PICK a, H : a = page[r].slots /\ H = AllHeads(page)
        OBVIOUS
    <2>2. \A k \in 1 .. Len(a) : a[k].ov \in H \cup {0}
        BY <2>1, HeadsNow, LiveIs
    <2>3. Follows(e, w) /\ Owned(c, v, H) /\ Follows(c, v)
        BY <1>14, <1>15, <2>1
    <2>4. ItemsOf(a, w) = ItemsOf(a, v) /\ (Measured(a, w) <=> Measured(a, v))
        BY <1>7, <1>16, <2>2, <2>3, ItemsStay
    <2>. QED
        BY <2>1, <2>4
<1>18. \A r \in LiveOf(page) : Measured(page[r].slots, v)
    BY <1>1 DEF Listed
(* What is new has the length that it was given. *)
<1>19. pos \in 1 .. Len(q.slots)
    <2>1. PICK k \in Nat : k = Len(page[p].slots)
        BY <1>8
    <2>2. Len(q.slots) = k + 1 /\ pos \in 1 .. k + 1
        BY <1>10, <2>1 DEF Fewer
    <2>. QED
        BY <2>2
<1>20. LengthIn(q.slots[pos], w) = d /\ Fits(q.slots[pos], w)
    <2>1. LengthIn(b, w) = d /\ Fits(b, w)
        BY <1>6, <1>7, <1>9, <1>14, LengthWritten
    <2>2. PICK a : a = q.slots[pos]
        OBVIOUS
    <2>3. LengthIn(a, w) = LengthIn(b, w) /\ (Fits(a, w) <=> Fits(b, w))
        BY <1>10, <2>2, AlikeHold
    <2>. QED
        BY <2>1, <2>2, <2>3
<1>21. /\ ItemsOf(q.slots, w) = InsertAt(ItemsOf(page[p].slots, v), pos, d)
       /\ Measured(q.slots, w)
    <2>1. PICK a, t : a = q.slots /\ t = page[p].slots
        OBVIOUS
    <2>2. Len(t) \in Nat /\ pos \in 1 .. Len(a) /\ Fewer(a, t, pos)
        BY <1>8, <1>10, <1>19, <2>1
    <2>3. /\ ItemsOf(a, w) = InsertAt(ItemsOf(t, w), pos, LengthIn(a[pos], w))
          /\ Measured(t, w) /\ Fits(a[pos], w) => Measured(a, w)
        BY <2>2, FewerItems
    <2>4. ItemsOf(t, w) = ItemsOf(t, v) /\ Measured(t, w)
        BY <1>8, <1>17, <1>18, <2>1
    <2>. QED
        BY <1>20, <2>1, <2>3, <2>4
<1>22. \A r \in LiveOf(g) : Measured(g[r].slots, w)
    BY <1>11, <1>12, <1>17, <1>18, <1>21 DEF LiveOf
<1>23. Listed(g, w)
    BY <1>13, <1>22 DEF Listed
<1>24. PICK l, m : l = InOrder /\ m = InOrder'
    OBVIOUS
<1>25. l = [j \in 1 .. n |-> ItemsOf(page[s[j]].slots, v)]
    BY <1>1, <1>2, <1>3, <1>24, ListsAre
<1>26. m = [j \in 1 .. n |-> ItemsOf(g[s[j]].slots, w)]
    BY <1>1, <1>3, <1>13, <1>24, ListsThen
<1>27. PICK i \in 1 .. n : s[i] = p
    BY <1>2, <1>3, <1>8 DEF InRow
<1>28. \A j \in 1 .. n : j # i => m[j] = l[j]
    <2>. SUFFICES ASSUME NEW j \in 1 .. n, j # i PROVE m[j] = l[j]
        OBVIOUS
    <2>1. s[j] \in LiveOf(page) /\ s[j] # p /\ s[j] \in 1 .. MaxPage
        BY <1>2, <1>3, <1>27 DEF InRow, LiveOf
    <2>2. g[s[j]] = page[s[j]]
        BY <1>11, <2>1
    <2>3. ItemsOf(g[s[j]].slots, w) = ItemsOf(page[s[j]].slots, v)
        BY <1>17, <2>1, <2>2
    <2>. QED
        BY <1>25, <1>26, <2>3
<1>29. /\ l[i] = ItemsOf(page[p].slots, v) /\ m[i] = ItemsOf(q.slots, w)
       /\ m[i] = InsertAt(l[i], pos, d)
    <2>1. l[i] = ItemsOf(page[p].slots, v) /\ m[i] = ItemsOf(q.slots, w)
        BY <1>11, <1>25, <1>26, <1>27
    <2>. QED
        BY <1>21, <2>1
<1>30. m = [l EXCEPT ![i] = InsertAt(@, pos, d)]
    <2>1. PICK x : x = InsertAt(l[i], pos, d)
        OBVIOUS
    <2>2. l = [j \in 1 .. n |-> l[j]] /\ m = [j \in 1 .. n |-> m[j]]
        BY <1>25, <1>26
    <2>3. m = [l EXCEPT ![i] = x]
        BY <1>28, <1>29, <2>1, <2>2, Excepted
    <2>4. m = [l EXCEPT ![i] = InsertAt(l[i], pos, d)]
        BY <2>1, <2>3
    <2>. QED
        BY <2>4
<1>31. i \in DOMAIN l /\ i \in DOMAIN m /\ Len(m[i]) = Len(l[i]) + 1 /\ pos \in DOMAIN m[i]
    <2>1. /\ Len(ItemsOf(page[p].slots, v)) = Len(page[p].slots)
        BY <1>8, <1>18, ItemsAre
    <2>2. /\ Len(ItemsOf(q.slots, w)) = Len(q.slots)
          /\ DOMAIN ItemsOf(q.slots, w) = 1 .. Len(q.slots)
        BY <1>10, <1>21, ItemsAre
    <2>3. Len(q.slots) = Len(page[p].slots) + 1
        BY <1>10 DEF Fewer
    <2>4. Len(m[i]) = Len(l[i]) + 1 /\ pos \in DOMAIN m[i]
        BY <1>19, <1>29, <2>1, <2>2, <2>3
    <2>5. DOMAIN l = 1 .. n /\ DOMAIN m = 1 .. n
        BY <1>25, <1>26
    <2>. QED
        BY <2>4, <2>5
<1>32. Lists!Bytes(l[i]) + (SizeRequired(d) + SlotSize) <= PageSize - HeaderSize
    <2>1. /\ Lists!Bytes(ItemsOf(page[p].slots, v)) = PageSize - HeaderSize - page[p].freeSize
          /\ page[p].freeSize \in Nat
        BY <1>8, <1>18, PageBytes
    <2>2. SizeRequired(d) \in 9 .. MaxBlock
        BY <1>6, RemainIs
    <2>3. PICK fr \in Nat, z \in Nat, y \in Nat :
            fr = page[p].freeSize /\ z = SizeRequired(d) /\ y = PageSize - HeaderSize
        <3>1. PageSize - HeaderSize \in Nat /\ SizeRequired(d) \in Nat
            BY <2>2, Numbers
        <3>. QED
            BY <2>1, <3>1
    <2>4. Lists!Bytes(l[i]) = y - fr
        BY <1>29, <2>1, <2>3
    <2>5. fr >= z + 2
        BY <1>6, <2>3 DEF Accepts, SlotSize
    <2>6. (y - fr) + (z + 2) <= y
        BY <2>3, <2>5
    <2>. QED
        BY <2>3, <2>4, <2>6 DEF SlotSize
<1>33. Lists!ListsNext
    BY ZenonT(40), <1>6, <1>24, <1>30, <1>31, <1>32, MayInsert
<1>. QED
    BY <1>1, <1>23, <1>33

(* What is put in or taken out at an end of a list.                        *)
LEMMA PutLast ==
    ASSUME NEW S, NEW a \in Seq(S), NEW e \in S, NEW n \in Nat, n = Len(a)
    PROVE  InsertAt(a, n + 1, e) = Append(a, e)
<1>1. PICK t, u : t = InsertAt(a, n + 1, e) /\ u = Append(a, e)
    OBVIOUS
<1>2. t \in Seq(S) /\ Longer(t, a, n, e)
    <2>1. n \in 0 .. Len(a)
        OBVIOUS
    <2>. QED
        BY <1>1, <2>1, PutAfter
<1>3. /\ Len(t) = n + 1 /\ t[n + 1] = e
      /\ \A j \in 1 .. n : t[j] = a[j]
    BY <1>2 DEF Longer
<1>4. /\ u \in Seq(S) /\ Len(u) = n + 1 /\ u[n + 1] = e
      /\ \A j \in 1 .. n : u[j] = a[j]
    BY <1>1, AppendProperties
<1>5. \A j \in 1 .. n + 1 : t[j] = u[j]
    <2>1. \A j \in 1 .. n + 1 : j \in 1 .. n \/ j = n + 1
        OBVIOUS
    <2>. QED
        BY <1>3, <1>4, <2>1
<1>. QED
    BY <1>1, <1>2, <1>3, <1>4, <1>5, SeqEqual

LEMMA PutFirst ==
    ASSUME NEW S, NEW a \in Seq(S), NEW e \in S
    PROVE  InsertAt(a, 1, e) = <<e>> \o a
<1>1. PICK t, u : t = InsertAt(a, 0 + 1, e) /\ u = <<e>> \o a
    OBVIOUS
<1>2. PICK n \in Nat : n = Len(a)
    BY Elements
<1>3. 0 \in 0 .. Len(a)
    BY <1>2
<1>4. t \in Seq(S) /\ Longer(t, a, 0, e)
    BY <1>1, <1>3, PutAfter
<1>5. /\ Len(t) = n + 1 /\ t[1] = e
      /\ \A j \in 1 .. n : t[j + 1] = a[j]
    <2>1. \A j \in 1 .. n : j > 0
        OBVIOUS
    <2>. QED
        BY <1>2, <1>4, <2>1 DEF Longer
<1>6. /\ u \in Seq(S) /\ Len(u) = 1 + n /\ u[1] = e
      /\ \A j \in 1 .. n : u[1 + j] = a[j]
    <2>1. <<e>> \in Seq(S) /\ 1 = Len(<<e>>) /\ <<e>>[1] = e /\ 1 \in Nat /\ 1 \in 1 .. 1
        OBVIOUS
    <2>2. /\ <<e>> \o a \in Seq(S) /\ Len(<<e>> \o a) = 1 + n
          /\ \A j \in 1 .. 1 : (<<e>> \o a)[j] = <<e>>[j]
          /\ \A j \in 1 .. n : (<<e>> \o a)[1 + j] = a[j]
        BY <1>2, <2>1, Concat
    <2>. QED
        BY <1>1, <2>1, <2>2
<1>7. \A j \in 1 .. n + 1 : t[j] = u[j]
    <2>. TAKE j \in 1 .. n + 1
    <2>1. CASE j = 1
        BY <1>5, <1>6, <2>1
    <2>2. CASE j # 1
        <3>1. PICK k \in 1 .. n : k + 1 = j /\ 1 + k = j
            <4>1. j - 1 \in 1 .. n /\ (j - 1) + 1 = j /\ 1 + (j - 1) = j
                BY <2>2
            <4>. QED
                BY <4>1
        <3>. QED
            BY <1>5, <1>6, <3>1
    <2>. QED
        BY <2>1, <2>2
<1>8. t = u
    <2>1. Len(t) = n + 1 /\ Len(u) = n + 1
        BY <1>5, <1>6
    <2>. QED
        BY <1>4, <1>6, <1>7, <2>1, SeqEqual
<1>9. 0 + 1 = 1
    OBVIOUS
<1>. QED
    BY <1>1, <1>8, <1>9

LEMMA TakeFirst ==
    ASSUME NEW S, NEW a \in Seq(S), a # <<>>
    PROVE  RemoveAt(a, 1) = Tail(a) /\ a[1] = Head(a)
<1>1. PICK t, u : t = RemoveAt(a, 0 + 1) /\ u = Tail(a)
    OBVIOUS
<1>2. PICK n \in Nat : n = Len(a) /\ n >= 1
    BY EmptySeq
<1>3. 0 \in 0 .. Len(a) - 1
    BY <1>2
<1>4. t \in Seq(S) /\ Shorter(t, a, 0)
    BY <1>1, <1>3, TakenAfter
<1>5. Len(t) = n - 1 /\ \A j \in 1 .. n - 1 : t[j] = a[j + 1]
    <2>1. \A j \in 1 .. n - 1 : j > 0
        OBVIOUS
    <2>. QED
        BY <1>2, <1>4, <2>1 DEF Shorter
<1>6. u \in Seq(S) /\ Len(u) = n - 1 /\ \A j \in 1 .. n - 1 : u[j] = a[j + 1]
    BY <1>1, <1>2, HeadTailProperties
<1>7. t = u
    BY <1>4, <1>5, <1>6, SeqEqual
<1>8. 0 + 1 = 1 /\ a[1] = Head(a)
    BY <1>2
<1>. QED
    BY <1>1, <1>7, <1>8

LEMMA TakeLast ==
    ASSUME NEW S, NEW a \in Seq(S), a # <<>>, NEW n \in Nat, n = Len(a)
    PROVE  RemoveAt(a, n) = Front(a) /\ a[n] = Last(a)
<1>1. n >= 1
    BY EmptySeq
<1>2. PICK k \in Nat : k = n - 1 /\ k + 1 = n
    <2>1. n - 1 \in Nat /\ (n - 1) + 1 = n
        BY <1>1
    <2>. QED
        BY <2>1
<1>3. PICK t, u : t = RemoveAt(a, k + 1) /\ u = SubSeq(a, 1, k)
    OBVIOUS
<1>4. k \in 0 .. Len(a) - 1
    BY <1>2
<1>5. t \in Seq(S) /\ Shorter(t, a, k)
    BY <1>3, <1>4, TakenAfter
<1>6. Len(t) = k /\ \A j \in 1 .. k : t[j] = a[j]
    <2>1. \A j \in 1 .. k : j <= k
        OBVIOUS
    <2>2. Len(a) - 1 = k
        BY <1>2
    <2>. QED
        BY <1>5, <2>1, <2>2 DEF Shorter
<1>7. u \in Seq(S) /\ Len(u) = k /\ \A j \in 1 .. k : u[j] = a[j]
    <2>1. \A j \in 1 .. k : j \in 1 .. n
        BY <1>2
    <2>2. \A j \in 1 .. n : a[j] \in S
        BY Elements
    <2>3. \A j \in 1 .. k : a[j] \in S /\ 1 + j - 1 = j
        BY <2>1, <2>2
    <2>4. 1 \in Int /\ k \in Int /\ k - 1 + 1 = k /\ (~(1 <= k) => k = 0)
        OBVIOUS
    <2>5. /\ SubSeq(a, 1, k) \in Seq(S)
          /\ Len(SubSeq(a, 1, k)) = IF 1 <= k THEN k - 1 + 1 ELSE 0
          /\ \A j \in 1 .. k - 1 + 1 : SubSeq(a, 1, k)[j] = a[1 + j - 1]
        BY SMTT(40), <2>3, <2>4, SubSeqProperties
    <2>. QED
        BY <1>3, <2>3, <2>4, <2>5
<1>8. t = u
    BY <1>5, <1>6, <1>7, SeqEqual
<1>. QED
    BY <1>2, <1>3, <1>8 DEF Front, Last

(* Two lists change. *)
LEMMA ExceptedTwo ==
    ASSUME NEW n, NEW l, l = [j \in 1 .. n |-> l[j]], NEW m, m = [j \in 1 .. n |-> m[j]],
           NEW i \in 1 .. n, NEW k \in 1 .. n, i # k, NEW a, m[i] = a, NEW b, m[k] = b,
           \A j \in 1 .. n : j # i /\ j # k => m[j] = l[j]
    PROVE  m = [[l EXCEPT ![i] = a] EXCEPT ![k] = b]
<1>1. PICK t : t = [l EXCEPT ![i] = a]
    OBVIOUS
<1>2. t = [j \in 1 .. n |-> IF j = i THEN a ELSE l[j]]
    BY <1>1
<1>3. \A j \in 1 .. n : j # k => m[j] = t[j]
    BY <1>2
<1>4. t = [j \in 1 .. n |-> t[j]]
    BY <1>2
<1>5. m = [t EXCEPT ![k] = b]
    BY <1>3, <1>4, Excepted
<1>. QED
    BY <1>1, <1>5

(* Of two lists one gets what the other loses. *)
Moved(l, m, n, i, dest, k, src) ==
    /\ l = [x \in 1 .. n |-> l[x]] /\ m = [x \in 1 .. n |-> m[x]]
    /\ l[i] \in Seq(Nat) /\ l[k] \in Seq(Nat)
    /\ src \in 1 .. Len(l[k])
    /\ m[i] = InsertAt(l[i], dest, l[k][src])
    /\ m[k] = RemoveAt(l[k], src)
    /\ \A x \in 1 .. n : x # i /\ x # k => m[x] = l[x]

(* move_from() takes an item from one list to the other. *)
LEMMA MoveLists ==
    ASSUME IInv, IInv', Listed(page, ov), NEW s, InRow(page, s), NEW n \in Nat, n = Len(s),
           NEW p \in Live, NEW q \in Live, p # q, Underflow(page[p]),
           NEW src \in 1 .. Len(page[q].slots), NEW dest \in 1 .. Len(page[p].slots) + 1,
           MoveFrom(q, src, p, dest),
           NEW i \in 1 .. n, s[i] = p, NEW k \in 1 .. n, s[k] = q
    PROVE  /\ Listed(page', ov')
           /\ Moved(InOrder, InOrder', n, i, dest, k, src)
           /\ Len(InOrder[i]) = Len(page[p].slots) /\ Len(InOrder[k]) = Len(page[q].slots)
<1>1. PICK g, v : g = page' /\ v = ov
    OBVIOUS
<1>2. PICK b : b = page[q].slots[src]
    OBVIOUS
<1>3. PICK c : c = [size |-> b.size, ov |-> b.ov]
    OBVIOUS
<1>4. PICK x, y : x = Inserted(page[p], dest, c) /\ y = Erased(page[q], src)
    OBVIOUS
<1>5. /\ page' = [page EXCEPT ![p] = x, ![q] = y] /\ ov' = v
      /\ DOMAIN page = 1 .. MaxPage
    BY <1>1, <1>2, <1>3, <1>4 DEF MoveFrom, IInv, Pages
<1>6. /\ PageOK(page[p]) /\ p \in 1 .. MaxPage /\ p \in LiveOf(page)
      /\ PageOK(page[q]) /\ q \in 1 .. MaxPage /\ q \in LiveOf(page)
      /\ Len(page[p].slots) \in Nat
    BY HeadsIn, LiveIs
<1>7. b.size \in 9 .. MaxBlock /\ b.ov \in 0 .. MaxOv
    <2>1. b \in Block
        BY <1>2, <1>6, Free, Blocks9
    <2>. QED
        BY <2>1, Numbers DEF Block
<1>8. Accepts(page[p], b.size)
    <2>1. 4 * page[p].freeSize + 68 >= 3 * PageSize /\ page[p].freeSize \in Nat
        BY <1>6, UnderflowRoom, Free
    <2>2. PICK fr \in Nat, z \in 9 .. MaxBlock : fr = page[p].freeSize /\ z = b.size
        BY <2>1, <1>7
    <2>3. 4 * fr + 68 >= 3 * PageSize
        BY <2>1, <2>2
    <2>4. fr >= z + 2
        BY <2>3, Numbers
    <2>. QED
        BY <2>2, <2>4, Numbers DEF Accepts
<1>9. c.size = b.size /\ c.ov = b.ov /\ c.ov \in 0 .. MaxOv /\ Room(page[p], c.size)
    <2>1. c.size = b.size /\ c.ov = b.ov
        BY <1>3
    <2>. QED
        BY <1>6, <1>7, <1>8, <2>1 DEF Room
<1>10. /\ PageOK(x) /\ x.next = page[p].next /\ x.prev = page[p].prev /\ x # NoPage
       /\ Fewer(x.slots, page[p].slots, dest) /\ Alike(x.slots[dest], c)
    <2>1. PageOK(x) /\ x.next = page[p].next /\ x.prev = page[p].prev
        BY <1>4, <1>9, InsertedKeeps
    <2>2. Fewer(x.slots, page[p].slots, dest) /\ Alike(x.slots[dest], c)
        BY <1>4, <1>9, InsertedBlocks
    <2>. QED
        BY <2>1, <2>2, NoPageIsNone DEF PageOK
<1>11. /\ PageOK(y) /\ y.next = page[q].next /\ y.prev = page[q].prev /\ y # NoPage
       /\ Fewer(page[q].slots, y.slots, src)
    <2>1. PageOK(y) /\ y.next = page[q].next /\ y.prev = page[q].prev
        BY <1>4, <1>6, ErasedKeeps
    <2>2. Fewer(page[q].slots, y.slots, src)
        BY <1>4, <1>6, ErasedBlocks
    <2>. QED
        BY <2>1, <2>2, NoPageIsNone DEF PageOK
<1>12. g[p] = x /\ g[q] = y /\ \A r \in 1 .. MaxPage : r # p /\ r # q => g[r] = page[r]
    BY <1>1, <1>5, <1>6
<1>13. LiveOf(g) = LiveOf(page)
    BY <1>6, <1>10, <1>11, <1>12 DEF LiveOf
<1>14. InRow(g, s)
    <2>1. \A r \in LiveOf(page) : g[r].next = page[r].next /\ g[r].prev = page[r].prev
        BY <1>10, <1>11, <1>12 DEF LiveOf
    <2>. QED
        BY <1>13, <2>1, RowStays
<1>15. \A r \in LiveOf(page) : Measured(page[r].slots, v)
    BY <1>1 DEF Listed
(* What the one page loses. *)
<1>16. /\ ItemsOf(y.slots, v) = RemoveAt(ItemsOf(page[q].slots, v), src)
       /\ Measured(y.slots, v) /\ Fits(b, v)
    <2>1. PICK t, u : t = page[q].slots /\ u = y.slots
        OBVIOUS
    <2>2. Len(u) \in Nat /\ src \in 1 .. Len(t) /\ Fewer(t, u, src)
        BY <1>11, <2>1, Free
    <2>3. /\ ItemsOf(u, v) = RemoveAt(ItemsOf(t, v), src)
          /\ Measured(t, v) => Measured(u, v) /\ Fits(t[src], v)
        BY <2>2, FewerItems
    <2>. QED
        BY <1>2, <1>6, <1>15, <2>1, <2>3
(* What the other one gets. *)
<1>17. dest \in 1 .. Len(x.slots)
    <2>1. PICK j \in Nat : j = Len(page[p].slots)
        BY <1>6
    <2>2. Len(x.slots) = j + 1 /\ dest \in 1 .. j + 1
        BY <1>10, <2>1 DEF Fewer
    <2>. QED
        BY <2>2
<1>18. LengthIn(x.slots[dest], v) = LengthIn(b, v) /\ Fits(x.slots[dest], v)
    <2>1. PICK t : t = x.slots[dest] /\ Alike(t, b)
        BY <1>9, <1>10 DEF Alike
    <2>2. LengthIn(t, v) = LengthIn(b, v) /\ (Fits(t, v) <=> Fits(b, v))
        BY <2>1, AlikeHold
    <2>. QED
        BY <1>16, <2>1, <2>2
<1>19. /\ ItemsOf(x.slots, v) = InsertAt(ItemsOf(page[p].slots, v), dest, LengthIn(b, v))
       /\ Measured(x.slots, v)
    <2>1. PICK t, u : t = x.slots /\ u = page[p].slots
        OBVIOUS
    <2>2. Len(u) \in Nat /\ dest \in 1 .. Len(t) /\ Fewer(t, u, dest)
        BY <1>6, <1>10, <1>17, <2>1
    <2>3. /\ ItemsOf(t, v) = InsertAt(ItemsOf(u, v), dest, LengthIn(t[dest], v))
          /\ Measured(u, v) /\ Fits(t[dest], v) => Measured(t, v)
        BY <2>2, FewerItems
    <2>. QED
        BY <1>6, <1>15, <1>18, <2>1, <2>3
<1>20. Listed(g, v)
    <2>1. \A r \in LiveOf(g) : Measured(g[r].slots, v)
        BY <1>12, <1>13, <1>15, <1>16, <1>19 DEF LiveOf
    <2>. QED
        BY <1>14, <2>1 DEF Listed
<1>21. PICK l, m : l = InOrder /\ m = InOrder'
    OBVIOUS
<1>22. l = [j \in 1 .. n |-> ItemsOf(page[s[j]].slots, v)]
    BY <1>1, <1>21, ListsAre
<1>23. m = [j \in 1 .. n |-> ItemsOf(g[s[j]].slots, v)]
    <2>1. PICK w : w = ov'
        OBVIOUS
    <2>2. m = [j \in 1 .. n |-> ItemsOf(g[s[j]].slots, w)]
        BY <1>1, <1>14, <1>21, <2>1, ListsThen
    <2>. QED
        BY <1>5, <2>1, <2>2
<1>24. \A j \in 1 .. n : j # i /\ j # k => m[j] = l[j]
    <2>. SUFFICES ASSUME NEW j \in 1 .. n, j # i, j # k PROVE m[j] = l[j]
        OBVIOUS
    <2>1. s[j] # p /\ s[j] # q /\ s[j] \in 1 .. MaxPage
        BY DEF InRow, LiveOf
    <2>2. g[s[j]] = page[s[j]]
        BY <1>12, <2>1
    <2>. QED
        BY <1>22, <1>23, <2>2
<1>25. /\ l[i] = ItemsOf(page[p].slots, v) /\ m[i] = ItemsOf(x.slots, v)
       /\ l[k] = ItemsOf(page[q].slots, v) /\ m[k] = ItemsOf(y.slots, v)
    BY <1>12, <1>22, <1>23
<1>26. /\ l[i] \in Seq(Nat) /\ Len(l[i]) = Len(page[p].slots)
       /\ l[k] \in Seq(Nat) /\ Len(l[k]) = Len(page[q].slots)
       /\ l[k][src] = LengthIn(b, v)
    <2>1. /\ ItemsOf(page[p].slots, v) \in Seq(Nat)
          /\ Len(ItemsOf(page[p].slots, v)) = Len(page[p].slots)
        BY <1>6, <1>15, ItemsAre
    <2>2. /\ ItemsOf(page[q].slots, v) \in Seq(Nat)
          /\ Len(ItemsOf(page[q].slots, v)) = Len(page[q].slots)
          /\ ItemsOf(page[q].slots, v)[src] = LengthIn(page[q].slots[src], v)
        BY <1>6, <1>15, ItemsAre
    <2>. QED
        BY <1>2, <1>25, <2>1, <2>2
<1>27. Moved(l, m, n, i, dest, k, src)
    <2>1. l = [j \in 1 .. n |-> l[j]] /\ m = [j \in 1 .. n |-> m[j]]
        BY <1>22, <1>23
    <2>2. m[i] = InsertAt(l[i], dest, l[k][src]) /\ m[k] = RemoveAt(l[k], src)
        BY <1>16, <1>19, <1>25, <1>26
    <2>3. src \in 1 .. Len(l[k])
        BY <1>26
    <2>. QED
        BY <1>24, <1>26, <2>1, <2>2, <2>3 DEF Moved
<1>. QED
    BY <1>1, <1>5, <1>20, <1>21, <1>26, <1>27

(* The neighbours of a page are its neighbours in the row. *)
LEMMA RowNext ==
    ASSUME NEW g, NEW s, InRow(g, s), NEW n \in Nat, n = Len(s), NEW i \in 1 .. n,
           g[s[i]].next # 0
    PROVE  i + 1 \in 1 .. n /\ s[i + 1] = g[s[i]].next
<1>1. g[s[i]].next = IF i < n THEN s[i + 1] ELSE 0
    BY DEF InRow
<1>. QED
    BY <1>1

LEMMA RowPrev ==
    ASSUME NEW g, NEW s, InRow(g, s), NEW n \in Nat, n = Len(s), NEW i \in 1 .. n,
           g[s[i]].prev # 0
    PROVE  i - 1 \in 1 .. n /\ (i - 1) + 1 = i /\ s[i - 1] = g[s[i]].prev
<1>1. g[s[i]].prev = IF i > 1 THEN s[i - 1] ELSE 0
    BY DEF InRow
<1>. QED
    BY <1>1

(* What a page takes from the next one. *)
LEMMA TakeNextLists ==
    ASSUME IInv, IInv', Listed(page, ov), NEW p \in Live, TakeNext(p)
    PROVE  Listed(page', ov') /\ Lists!ListsNext
<1>1. PICK s : InRow(page, s)
    BY DEF Listed
<1>2. PICK n \in Nat : n = Len(s)
    BY <1>1, Elements DEF InRow
<1>3. PICK q, d : q = page[p].next /\ d = Len(page[p].slots) + 1
    OBVIOUS
<1>4. /\ q \in Live /\ q # p /\ q # 0 /\ Underflow(page[p])
      /\ 1 \in 1 .. Len(page[q].slots) /\ d \in 1 .. Len(page[p].slots) + 1
      /\ MoveFrom(q, 1, p, d)
    BY <1>3, Takes DEF Lends
<1>8. PICK i \in 1 .. n : s[i] = p
    BY <1>1, <1>2, LiveIs DEF InRow
<1>9. PICK k \in 1 .. n : k = i + 1 /\ s[k] = q
    BY SMTT(40), <1>1, <1>2, <1>3, <1>4, <1>8, RowNext
<1>10. /\ Listed(page', ov') /\ Moved(InOrder, InOrder', n, i, d, k, 1)
       /\ Len(InOrder[i]) = Len(page[p].slots)
    BY <1>1, <1>2, <1>4, <1>8, <1>9, MoveLists
<1>11. PICK l, m : l = InOrder /\ m = InOrder'
    OBVIOUS
<1>12. /\ l = [x \in 1 .. n |-> l[x]] /\ m = [x \in 1 .. n |-> m[x]]
       /\ l[i] \in Seq(Nat) /\ l[k] \in Seq(Nat)
       /\ 1 \in 1 .. Len(l[k])
       /\ m[i] = InsertAt(l[i], d, l[k][1])
       /\ m[k] = RemoveAt(l[k], 1)
       /\ \A x \in 1 .. n : x # i /\ x # k => m[x] = l[x]
    BY <1>10, <1>11 DEF Moved
<1>13. PICK a, b, e, h : a = l[i] /\ b = l[k] /\ e = b[1] /\ h = Len(a)
    OBVIOUS
<1>14. b # <<>> /\ e \in Nat
    BY <1>12, <1>13
<1>15. RemoveAt(b, 1) = Tail(b) /\ b[1] = Head(b)
    BY <1>12, <1>13, <1>14, TakeFirst
<1>16. InsertAt(a, d, e) = Append(a, e)
    <2>1. h \in Nat /\ d = h + 1
        BY <1>3, <1>10, <1>11, <1>12, <1>13, Elements
    <2>2. InsertAt(a, h + 1, e) = Append(a, e)
        BY <1>12, <1>13, <1>14, <2>1, PutLast
    <2>. QED
        BY <2>1, <2>2
<1>17. m[i] = Append(a, Head(b)) /\ m[k] = Tail(b)
    BY <1>12, <1>13, <1>15, <1>16
<1>18. i # k
    BY <1>9
<1>19. m = [[l EXCEPT ![i] = Append(a, Head(b))] EXCEPT ![k] = Tail(b)]
    <2>1. PICK x, y : x = Append(a, Head(b)) /\ y = Tail(b)
        OBVIOUS
    <2>2. m[i] = x /\ m[k] = y
        BY <1>17, <2>1
    <2>3. m = [[l EXCEPT ![i] = x] EXCEPT ![k] = y]
        BY <1>12, <1>18, <2>2, ExceptedTwo
    <2>. QED
        BY <2>1, <2>3
<1>20. m = [l EXCEPT ![i] = Append(@, Head(l[i + 1])), ![i + 1] = Tail(@)]
    BY <1>9, <1>12, <1>13, <1>18, <1>19
<1>21. i \in DOMAIN l /\ i + 1 \in DOMAIN l /\ l[i + 1] # <<>>
    BY <1>9, <1>12, <1>13, <1>14
<1>. QED
    BY <1>10, <1>11, <1>20, <1>21, MayTakeNext

(* What a page takes from the previous one. *)
LEMMA TakePrevLists ==
    ASSUME IInv, IInv', Listed(page, ov), NEW p \in Live, TakePrev(p)
    PROVE  Listed(page', ov') /\ Lists!ListsNext
<1>1. PICK s : InRow(page, s)
    BY DEF Listed
<1>2. PICK n \in Nat : n = Len(s)
    BY <1>1, Elements DEF InRow
<1>3. PICK q, d : q = page[p].prev /\ d = Len(page[q].slots)
    OBVIOUS
<1>4. /\ q \in Live /\ q # p /\ q # 0 /\ Underflow(page[p])
      /\ d \in 1 .. Len(page[q].slots) /\ 1 \in 1 .. Len(page[p].slots) + 1
      /\ MoveFrom(q, d, p, 1)
    BY <1>3, Takes DEF Lends
<1>8. PICK k \in 1 .. n : s[k] = p
    BY <1>1, <1>2, LiveIs DEF InRow
<1>9. PICK i \in 1 .. n : k = i + 1 /\ s[i] = q
    BY <1>1, <1>2, <1>3, <1>4, <1>8, RowPrev
<1>10. /\ Listed(page', ov') /\ Moved(InOrder, InOrder', n, k, 1, i, d)
       /\ Len(InOrder[i]) = Len(page[q].slots)
    BY <1>1, <1>2, <1>4, <1>8, <1>9, MoveLists
<1>11. PICK l, m : l = InOrder /\ m = InOrder'
    OBVIOUS
<1>12. /\ l = [x \in 1 .. n |-> l[x]] /\ m = [x \in 1 .. n |-> m[x]]
       /\ l[i] \in Seq(Nat) /\ l[k] \in Seq(Nat)
       /\ d \in 1 .. Len(l[i])
       /\ m[k] = InsertAt(l[k], 1, l[i][d])
       /\ m[i] = RemoveAt(l[i], d)
       /\ \A x \in 1 .. n : x # i /\ x # k => m[x] = l[x]
    BY <1>10, <1>11 DEF Moved
<1>13. PICK a, b, e : a = l[i] /\ b = l[k] /\ e = a[d]
    OBVIOUS
<1>14. a # <<>> /\ e \in Nat
    BY <1>12, <1>13, Elements
<1>15. RemoveAt(a, d) = Front(a) /\ a[d] = Last(a)
    <2>1. d \in Nat /\ d = Len(a)
        BY SMTT(40), <1>3, <1>10, <1>11, <1>12, <1>13
    <2>. QED
        BY <1>12, <1>13, <1>14, <2>1, TakeLast
<1>16. InsertAt(b, 1, e) = <<e>> \o b
    BY <1>12, <1>13, <1>14, PutFirst
<1>17. m[i] = Front(a) /\ m[k] = <<Last(a)>> \o b
    BY <1>12, <1>13, <1>15, <1>16
<1>18. i # k
    BY <1>9
<1>19. m = [[l EXCEPT ![i] = Front(a)] EXCEPT ![k] = <<Last(a)>> \o b]
    <2>1. PICK x, y : x = Front(a) /\ y = <<Last(a)>> \o b
        OBVIOUS
    <2>2. m[i] = x /\ m[k] = y
        BY <1>17, <2>1
    <2>3. m = [[l EXCEPT ![i] = x] EXCEPT ![k] = y]
        BY <1>12, <1>18, <2>2, ExceptedTwo
    <2>. QED
        BY <2>1, <2>3
<1>20. m = [l EXCEPT ![i] = Front(@), ![i + 1] = <<Last(l[i])>> \o @]
    BY <1>9, <1>12, <1>13, <1>18, <1>19
<1>21. i \in DOMAIN l /\ i + 1 \in DOMAIN l /\ l[i] # <<>>
    BY <1>9, <1>12, <1>13, <1>14
<1>. QED
    BY ZenonT(40), <1>10, <1>11, <1>20, <1>21, MayTakePrev

(* Either part of a split has half the least number of blocks. *)
LEMMA Halves ==
    ASSUME NEW p, PageOK(p), Len(p.slots) >= MinNum
    PROVE  LowerNum(p) \in MinNum \div 2 .. Len(p.slots) - MinNum \div 2
<1>1. PICK n \in Nat : n = Len(p.slots) /\ n >= 4
    BY Free, Numbers
<1>2. MinNum \div 2 = 2
    BY Numbers
<1>3. PICK S : S = {k \in 2 .. n - 1 : StopsAt(p, k)}
    OBVIOUS
<1>4. LowerNum(p) = Max(S)
    BY <1>1, <1>2, <1>3 DEF LowerNum
<1>5. LowerNum(p) \in S
    <2>1. n - 1 \in Nat /\ S \in SUBSET (0 .. n - 1) /\ 2 \in 2 .. n - 1
        BY SMTT(40), <1>1, <1>3
    <2>2. 2 \in S
        BY <1>2, <1>3, <2>1 DEF StopsAt
    <2>. QED
        BY <1>4, <2>1, <2>2, MaxOf
<1>6. PICK k \in 2 .. n - 1 : k = LowerNum(p) /\ (k = 2 \/ n - k >= 2)
    BY <1>1, <1>2, <1>3, <1>5 DEF StopsAt
<1>7. k \in 2 .. n - 2
    BY <1>1, <1>6
<1>. QED
    BY <1>1, <1>2, <1>6, <1>7

(* split() makes two lists of one. *)
LEMMA SplitLists ==
    ASSUME IInv, IInv', Listed(page, ov), NEW p \in Live, Split(p)
    PROVE  Listed(page', ov') /\ Lists!ListsNext
<1>1. PICK h, v : h = page' /\ v = ov
    OBVIOUS
<1>2. PICK s : InRow(page, s)
    BY DEF Listed
<1>3. PICK n \in Nat : n = Len(s)
    BY <1>2, Elements DEF InRow
<1>4. PICK x : SplitTo(h, p, x)
    BY <1>1, SplitPages
<1>5. ov' = v /\ Len(page[p].slots) >= MinNum
    BY <1>1 DEF Split
<1>6. /\ PageOK(page[p]) /\ p \in 1 .. MaxPage /\ p \in LiveOf(page) /\ p # 0
      /\ Len(page[p].slots) \in Nat
    BY HeadsIn, LiveIs
<1>7. PICK i \in 1 .. n : s[i] = p
    BY <1>2, <1>3, <1>6 DEF InRow
<1>8. PICK t : t = InsertAt(s, i + 1, x)
    OBVIOUS
<1>9. InRow(h, t)
    <2>1. PICK nx : nx = page[p].next
        OBVIOUS
    <2>2. /\ x \in 1 .. MaxPage /\ x \notin LiveOf(page) /\ LiveOf(h) = LiveOf(page) \cup {x}
          /\ h[x].next = nx /\ h[x].prev = p /\ h[p].next = x /\ h[p].prev = page[p].prev
          /\ nx # 0 => h[nx].next = page[nx].next /\ h[nx].prev = x
          /\ \A r \in 1 .. MaxPage : r # p /\ r # x /\ r # nx => h[r] = page[r]
        BY <1>4, <2>1 DEF SplitTo
    <2>3. InRow(h, InsertAt(s, i + 1, x))
        BY <1>2, <1>3, <1>7, <2>1, <2>2, RowIn
    <2>. QED
        BY <1>8, <2>3
<1>10. /\ Len(t) = n + 1 /\ t[i + 1] = x
       /\ \A j \in 1 .. n : j <= i => t[j] = s[j]
       /\ \A j \in 1 .. n : j > i => t[j + 1] = s[j]
    <2>1. PICK S : S = 1 .. MaxPage
        OBVIOUS
    <2>2. s \in Seq(S) /\ x \in S /\ i \in 0 .. Len(s)
        BY <1>2, <1>3, <1>4, <2>1 DEF InRow, SplitTo
    <2>3. Longer(t, s, i, x)
        BY <1>8, <2>2, PutAfter
    <2>. QED
        BY <1>3, <2>3 DEF Longer
(* The one list becomes two. *)
<1>11. PICK k \in MinNum \div 2 .. Len(page[p].slots) - MinNum \div 2 : k = LowerNum(page[p])
    BY <1>5, <1>6, Halves
<1>12. PICK a, b, c : a = page[p].slots /\ b = h[p].slots /\ c = h[x].slots
    BY SMTT(40)
<1>13. PICK y \in Nat, z \in Nat : y = Len(a) /\ z = y - k /\ k \in Nat /\ k \in 0 .. y /\ k + z = y
    <2>1. MinNum \div 2 = 2
        BY Numbers
    <2>2. k \in Nat /\ k \in 0 .. Len(a) /\ Len(a) \in Nat
        BY <1>6, <1>11, <1>12, <2>1
    <2>3. Len(a) - k \in Nat /\ k + (Len(a) - k) = Len(a)
        BY <2>2
    <2>. QED
        BY ZenonT(40), <2>2, <2>3
<1>14. Both(a, b, c) /\ Len(b) = k /\ Len(c) = z
    <2>1. Suffix(page[p], k) + 2 * (Len(page[p].slots) - k) + 20 <= PageSize
        BY <1>5, <1>6, <1>11, LowerNumFits
    <2>2. k \in 0 .. Len(page[p].slots)
        BY <1>12, <1>13
    <2>3. /\ Both(page[p].slots, Lower(page[p], k).slots, Upper(page[p], k).slots)
          /\ Len(Lower(page[p], k).slots) = k
          /\ Len(Upper(page[p], k).slots) = Len(page[p].slots) - k
        BY <1>6, <2>1, <2>2, SplitBlocks
    <2>4. b = Lower(page[p], k).slots /\ c = Upper(page[p], k).slots
        BY <1>4, <1>11, <1>12 DEF SplitTo
    <2>. QED
        BY <1>12, <1>13, <2>3, <2>4
<1>15. \A r \in LiveOf(page) : Measured(page[r].slots, v)
    BY <1>1 DEF Listed
<1>16. PICK e, f, u : e = ItemsOf(a, v) /\ f = ItemsOf(b, v) /\ u = ItemsOf(c, v)
    OBVIOUS
<1>17. /\ f = SubSeq(e, 1, k) /\ u = SubSeq(e, k + 1, y)
       /\ Measured(b, v) /\ Measured(c, v)
    <2>1. k = Len(b) /\ z = Len(c) /\ Both(a, b, c)
        BY <1>14
    <2>2. /\ ItemsOf(b, v) = SubSeq(ItemsOf(a, v), 1, k)
          /\ ItemsOf(c, v) = SubSeq(ItemsOf(a, v), k + 1, k + z)
          /\ Measured(a, v) => Measured(b, v) /\ Measured(c, v)
        BY <1>13, <2>1, BothItems
    <2>. QED
        BY <1>6, <1>12, <1>13, <1>15, <1>16, <2>2
<1>18. Listed(h, v)
    <2>1. \A r \in LiveOf(h) : Measured(h[r].slots, v)
        <3>1. \A r \in LiveOf(h) : r = p \/ r = x \/ (r \in LiveOf(page) /\ h[r].slots = page[r].slots)
            BY <1>4 DEF SplitTo, LiveOf
        <3>. QED
            BY <1>12, <1>15, <1>17, <3>1
    <2>. QED
        BY <1>9, <2>1 DEF Listed
<1>19. PICK l, m : l = InOrder /\ m = InOrder'
    OBVIOUS
<1>20. l = [j \in 1 .. n |-> ItemsOf(page[s[j]].slots, v)]
    BY <1>1, <1>2, <1>3, <1>19, ListsAre
<1>21. m = [j \in 1 .. n + 1 |-> ItemsOf(h[t[j]].slots, v)]
    <2>1. PICK w : w = ov'
        OBVIOUS
    <2>2. PICK o \in Nat : o = n + 1 /\ o = Len(t)
        BY <1>10
    <2>3. m = [j \in 1 .. o |-> ItemsOf(h[t[j]].slots, w)]
        BY <1>1, <1>9, <1>19, <2>1, <2>2, ListsThen
    <2>. QED
        BY <1>5, <2>1, <2>2, <2>3
<1>22. l[i] = e /\ m[i] = f /\ m[i + 1] = u
    <2>1. i \in 1 .. n + 1 /\ i + 1 \in 1 .. n + 1 /\ t[i] = p /\ t[i + 1] = x
        BY <1>7, <1>10
    <2>. QED
        BY <1>7, <1>12, <1>16, <1>20, <1>21, <2>1
<1>23. \A j \in 1 .. n : j # i => h[s[j]].slots = page[s[j]].slots
    <2>1. \A j \in 1 .. n : j # i => s[j] \in 1 .. MaxPage /\ s[j] # p /\ s[j] # x
        BY <1>2, <1>3, <1>4, <1>7 DEF InRow, LiveOf, SplitTo
    <2>. QED
        BY <1>4, <2>1 DEF SplitTo
<1>24. /\ \A j \in 1 .. n : j < i => m[j] = l[j]
       /\ \A j \in 1 .. n : j > i => m[j + 1] = l[j]
    <2>1. \A j \in 1 .. n : j < i => j \in 1 .. n + 1 /\ j <= i /\ j # i
        OBVIOUS
    <2>2. \A j \in 1 .. n : j > i => j + 1 \in 1 .. n + 1 /\ j # i
        OBVIOUS
    <2>3. \A j \in 1 .. n : j < i => m[j] = l[j]
        BY <1>10, <1>20, <1>21, <1>23, <2>1
    <2>4. \A j \in 1 .. n : j > i => m[j + 1] = l[j]
        BY <1>10, <1>20, <1>21, <1>23, <2>2
    <2>. QED
        BY <2>3, <2>4
<1>25. PICK d : d = InsertAt(l, i + 1, u)
    OBVIOUS
<1>26. /\ d = [j \in 1 .. n + 1 |-> d[j]] /\ d[i + 1] = u
       /\ \A j \in 1 .. n : j <= i => d[j] = l[j]
       /\ \A j \in 1 .. n : j > i => d[j + 1] = l[j]
    <2>1. PICK S : S = {l[j] : j \in 1 .. n} \cup {u}
        OBVIOUS
    <2>2. l \in [1 .. n -> S]
        BY <1>20, <2>1
    <2>3. l \in Seq(S) /\ u \in S /\ Len(l) = n
        BY SMTT(40), <2>1, <2>2
    <2>4. i \in 0 .. Len(l)
        BY <2>3
    <2>5. d \in Seq(S) /\ Longer(d, l, i, u)
        BY <1>25, <2>3, <2>4, PutAfter
    <2>6. /\ Len(d) = n + 1 /\ d[i + 1] = u
          /\ \A j \in 1 .. n : j <= i => d[j] = l[j]
          /\ \A j \in 1 .. n : j > i => d[j + 1] = l[j]
        BY <2>3, <2>5 DEF Longer
    <2>7. d = [j \in 1 .. n + 1 |-> d[j]]
        BY <2>5, <2>6
    <2>. QED
        BY <2>6, <2>7
<1>27. \A j \in 1 .. n + 1 : j # i => m[j] = d[j]
    <2>. SUFFICES ASSUME NEW j \in 1 .. n + 1, j # i PROVE m[j] = d[j]
        OBVIOUS
    <2>1. CASE j < i
        <3>1. j \in 1 .. n /\ j <= i
            BY <2>1
        <3>. QED
            BY <1>24, <1>26, <2>1, <3>1
    <2>2. CASE j = i + 1
        BY <1>22, <1>26, <2>2
    <2>3. CASE j > i + 1
        <3>1. PICK o \in 1 .. n : o > i /\ o + 1 = j
            <4>1. j - 1 \in 1 .. n /\ j - 1 > i /\ (j - 1) + 1 = j
                BY <2>3
            <4>. QED
                BY <4>1
        <3>. QED
            BY <1>24, <1>26, <3>1
    <2>. QED
        BY <2>1, <2>2, <2>3
<1>28. m = [d EXCEPT ![i] = f]
    <2>1. PICK o : o = n + 1
        OBVIOUS
    <2>2. i \in 1 .. o /\ m[i] = f
        BY <1>22, <2>1
    <2>3. m = [j \in 1 .. o |-> m[j]] /\ d = [j \in 1 .. o |-> d[j]]
        BY <1>21, <1>26, <2>1
    <2>4. \A j \in 1 .. o : j # i => m[j] = d[j]
        BY <1>27, <2>1
    <2>. QED
        BY <2>2, <2>3, <2>4, Excepted
<1>29. Len(l[i]) = y
    <2>1. Len(ItemsOf(page[p].slots, v)) = Len(page[p].slots)
        BY <1>6, <1>15, ItemsAre
    <2>. QED
        BY <1>12, <1>13, <1>16, <1>22, <2>1
<1>30. m = [InsertAt(l, i + 1, SubSeq(l[i], k + 1, Len(l[i]))) EXCEPT ![i] = SubSeq(@, 1, k)]
    <2>0. d[i] = l[i]
        <3>1. i \in 1 .. n /\ i <= i
            OBVIOUS
        <3>. QED
            BY <1>26, <3>1
    <2>1. d[i] = e /\ u = SubSeq(l[i], k + 1, Len(l[i])) /\ f = SubSeq(e, 1, k)
        BY <1>17, <1>22, <1>29, <2>0
    <2>2. m = [d EXCEPT ![i] = SubSeq(d[i], 1, k)]
        BY <1>28, <2>1
    <2>3. m = [d EXCEPT ![i] = SubSeq(@, 1, k)]
        BY <2>2
    <2>. QED
        BY <1>25, <2>1, <2>3
<1>31. /\ i \in DOMAIN l /\ Len(l[i]) >= MinNum
       /\ k \in MinNum \div 2 .. Len(l[i]) - MinNum \div 2
    <2>1. DOMAIN l = 1 .. n /\ Len(l[i]) = Len(page[p].slots)
        BY <1>12, <1>13, <1>20, <1>29
    <2>. QED
        BY <1>5, <1>11, <2>1
<1>. QED
    BY <1>1, <1>5, <1>18, <1>19, <1>30, <1>31, MaySplit

(* merge() makes one list of two. *)
LEMMA MergeLists ==
    ASSUME IInv, IInv', Listed(page, ov), NEW p \in Live, Merge(p)
    PROVE  Listed(page', ov') /\ Lists!ListsNext
<1>1. PICK h, v : h = page' /\ v = ov
    OBVIOUS
<1>2. PICK s : InRow(page, s)
    BY DEF Listed
<1>3. PICK n \in Nat : n = Len(s)
    BY <1>2, Elements DEF InRow
<1>4. PICK q : q = page[p].next
    OBVIOUS
<1>5. PICK nx : nx = page[q].next
    OBVIOUS
<1>6. /\ q \in LiveOf(page) /\ q # p /\ q # 0
      /\ LiveOf(h) = LiveOf(page) \ {q}
      /\ h[p].next = nx /\ h[p].prev = page[p].prev
      /\ nx # 0 => h[nx].next = page[nx].next /\ h[nx].prev = p
      /\ \A r \in 1 .. MaxPage : r # p /\ r # q /\ r # nx => h[r] = page[r]
      /\ \A r \in 1 .. MaxPage : r # p /\ r # q => h[r].slots = page[r].slots
      /\ h[p].slots = Merged(page[p], page[q]).slots
    BY <1>1, <1>4, <1>5, MergePages DEF MergedTo
<1>7. ov' = v /\ SpaceReq(page[q]) <= page[p].freeSize
    BY <1>1, <1>4 DEF Merge
<1>8. /\ PageOK(page[p]) /\ p \in 1 .. MaxPage /\ p \in LiveOf(page)
      /\ PageOK(page[q]) /\ Len(page[p].slots) \in Nat /\ Len(page[q].slots) \in Nat
    BY <1>6, HeadsIn, LiveIs
<1>9. PICK i \in 1 .. n : s[i] = p
    BY <1>2, <1>3, <1>8 DEF InRow
<1>10. PICK t : t = RemoveAt(s, i + 1)
    OBVIOUS
<1>11. i + 1 \in 1 .. n /\ s[i + 1] = q /\ InRow(h, t)
    <2>1. TakenOut(page, h, p, q, nx)
        BY <1>4, <1>5, <1>6 DEF TakenOut
    <2>2. InRow(page, s) /\ n = Len(s) /\ p = s[i]
        BY <1>2, <1>3, <1>9
    <2>3. i + 1 \in 1 .. n
        BY Zenon, <2>1, <2>2, RowOut
    <2>4. InRow(h, RemoveAt(s, i + 1))
        BY Zenon, <2>1, <2>2, RowOut
    <2>5. page[s[i]].next = IF i < n THEN s[i + 1] ELSE 0
        BY <2>2 DEF InRow
    <2>. QED
        BY <1>4, <1>6, <1>10, <2>2, <2>3, <2>4, <2>5
<1>12. PICK o \in Nat : o = n - 1 /\ o + 1 = n /\ i \in 1 .. o
    <2>1. n - 1 \in Nat /\ (n - 1) + 1 = n /\ i \in 1 .. n - 1
        BY <1>11
    <2>. QED
        BY <2>1
<1>13. /\ Len(t) = o
       /\ \A j \in 1 .. o : j <= i => t[j] = s[j]
       /\ \A j \in 1 .. o : j > i => t[j] = s[j + 1]
    <2>1. PICK S : S = 1 .. MaxPage
        OBVIOUS
    <2>2. s \in Seq(S) /\ i \in 0 .. Len(s) - 1
        BY <1>2, <1>3, <1>12, <2>1 DEF InRow
    <2>3. Shorter(t, s, i)
        BY <1>10, <2>2, TakenAfter
    <2>. QED
        BY <1>3, <1>12, <2>3 DEF Shorter
(* The two lists become one. *)
<1>14. PICK a, b, c : a = h[p].slots /\ b = page[p].slots /\ c = page[q].slots
    OBVIOUS
<1>15. Both(a, b, c)
    BY <1>6, <1>8, <1>14, MergedBlocks
<1>16. \A r \in LiveOf(page) : Measured(page[r].slots, v)
    BY <1>1 DEF Listed
<1>17. ItemsOf(a, v) = ItemsOf(b, v) \o ItemsOf(c, v) /\ Measured(a, v)
    <2>1. PICK y \in Nat, z \in Nat : y = Len(b) /\ z = Len(c)
        BY <1>8, <1>14
    <2>2. /\ ItemsOf(a, v) = ItemsOf(b, v) \o ItemsOf(c, v)
          /\ Measured(b, v) /\ Measured(c, v) => Measured(a, v)
        BY <1>15, <2>1, BothItems
    <2>. QED
        BY <1>6, <1>8, <1>14, <1>16, <2>2
<1>18. Listed(h, v)
    <2>1. \A r \in LiveOf(h) : Measured(h[r].slots, v)
        <3>1. \A r \in LiveOf(h) : r = p \/ (r \in LiveOf(page) /\ h[r].slots = page[r].slots)
            BY <1>6 DEF LiveOf
        <3>. QED
            BY <1>14, <1>16, <1>17, <3>1
    <2>. QED
        BY <1>11, <2>1 DEF Listed
<1>19. PICK l, m : l = InOrder /\ m = InOrder'
    OBVIOUS
<1>20. l = [j \in 1 .. n |-> ItemsOf(page[s[j]].slots, v)]
    BY <1>1, <1>2, <1>3, <1>19, ListsAre
<1>21. m = [j \in 1 .. o |-> ItemsOf(h[t[j]].slots, v)]
    <2>1. PICK w : w = ov'
        OBVIOUS
    <2>2. m = [j \in 1 .. o |-> ItemsOf(h[t[j]].slots, w)]
        BY <1>1, <1>11, <1>13, <1>19, <2>1, ListsThen
    <2>. QED
        BY <1>7, <2>1, <2>2
<1>22. l[i] = ItemsOf(b, v) /\ l[i + 1] = ItemsOf(c, v) /\ m[i] = l[i] \o l[i + 1]
    <2>1. t[i] = p
        BY <1>9, <1>12, <1>13
    <2>2. l[i] = ItemsOf(b, v) /\ l[i + 1] = ItemsOf(c, v)
        BY <1>9, <1>11, <1>14, <1>20
    <2>3. m[i] = ItemsOf(a, v)
        BY <1>12, <1>14, <1>21, <2>1
    <2>. QED
        BY <1>17, <2>2, <2>3
<1>23. \A j \in 1 .. n : j # i /\ j # i + 1 => h[s[j]].slots = page[s[j]].slots
    <2>1. \A j \in 1 .. n : j # i /\ j # i + 1 => s[j] \in 1 .. MaxPage /\ s[j] # p /\ s[j] # q
        BY <1>2, <1>3, <1>9, <1>11 DEF InRow, LiveOf
    <2>. QED
        BY <1>6, <2>1
<1>24. /\ \A j \in 1 .. o : j < i => m[j] = l[j]
       /\ \A j \in 1 .. o : j > i => m[j] = l[j + 1]
    <2>1. \A j \in 1 .. o : j < i => j \in 1 .. n /\ j <= i /\ j # i /\ j # i + 1
        BY <1>12
    <2>2. \A j \in 1 .. o : j > i => j + 1 \in 1 .. n /\ j + 1 # i /\ j + 1 # i + 1
        BY <1>12
    <2>3. \A j \in 1 .. o : j < i => m[j] = l[j]
        BY <1>13, <1>20, <1>21, <1>23, <2>1
    <2>4. \A j \in 1 .. o : j > i => m[j] = l[j + 1]
        BY <1>13, <1>20, <1>21, <1>23, <2>2
    <2>. QED
        BY <2>3, <2>4
<1>25. PICK d : d = RemoveAt(l, i + 1)
    OBVIOUS
<1>26. /\ d = [j \in 1 .. o |-> d[j]]
       /\ \A j \in 1 .. o : j <= i => d[j] = l[j]
       /\ \A j \in 1 .. o : j > i => d[j] = l[j + 1]
    <2>1. PICK S : S = {l[j] : j \in 1 .. n}
        OBVIOUS
    <2>2. l \in [1 .. n -> S]
        BY <1>20, <2>1
    <2>3. l \in Seq(S) /\ Len(l) = n
        BY <2>2
    <2>4. i \in 0 .. Len(l) - 1
        BY <1>12, <2>3
    <2>5. d \in Seq(S) /\ Shorter(d, l, i)
        BY <1>25, <2>3, <2>4, TakenAfter
    <2>6. /\ Len(d) = o
          /\ \A j \in 1 .. o : j <= i => d[j] = l[j]
          /\ \A j \in 1 .. o : j > i => d[j] = l[j + 1]
        BY <1>12, <2>3, <2>5 DEF Shorter
    <2>7. d = [j \in 1 .. o |-> d[j]]
        BY <2>5, <2>6
    <2>. QED
        BY <2>6, <2>7
<1>27. \A j \in 1 .. o : j # i => m[j] = d[j]
    <2>1. \A j \in 1 .. o : j # i => (j < i /\ j <= i) \/ j > i
        OBVIOUS
    <2>. QED
        BY <1>24, <1>26, <2>1
<1>28. m = [d EXCEPT ![i] = @ \o l[i + 1]]
    <2>1. PICK f : f = l[i] \o l[i + 1]
        OBVIOUS
    <2>2. m = [j \in 1 .. o |-> m[j]] /\ m[i] = f
        BY <1>21, <1>22, <2>1
    <2>3. m = [d EXCEPT ![i] = f]
        BY <1>12, <1>26, <1>27, <2>2, Excepted
    <2>4. d[i] = l[i]
        BY <1>12, <1>26
    <2>. QED
        BY <2>1, <2>3, <2>4
(* They fit. *)
<1>29. Lists!Bytes(l[i]) + Lists!Bytes(l[i + 1]) <= PageSize - HeaderSize
    <2>1. /\ Lists!Bytes(ItemsOf(page[p].slots, v)) = PageSize - HeaderSize - page[p].freeSize
          /\ page[p].freeSize \in Nat
        BY <1>8, <1>16, PageBytes
    <2>2. /\ Lists!Bytes(ItemsOf(page[q].slots, v)) = PageSize - HeaderSize - page[q].freeSize
          /\ page[q].freeSize \in Nat
        BY <1>6, <1>8, <1>16, PageBytes
    <2>3. PICK x \in Nat, y \in Nat, u \in Nat :
            x = page[p].freeSize /\ y = page[q].freeSize /\ u = PageSize
        BY <2>1, <2>2, Numbers
    <2>4. Lists!Bytes(l[i]) = u - 20 - x /\ Lists!Bytes(l[i + 1]) = u - 20 - y
        BY <1>14, <1>22, <2>1, <2>2, <2>3 DEF HeaderSize
    <2>5. u - y - 20 <= x
        BY <1>7, <2>3 DEF SpaceReq, HeaderSize
    <2>6. (u - 20 - x) + (u - 20 - y) <= u - 20
        BY <2>5
    <2>. QED
        BY <2>3, <2>4, <2>6 DEF HeaderSize
<1>30. i \in DOMAIN l /\ i + 1 \in DOMAIN l
    BY <1>11, <1>20
<1>31. m = [RemoveAt(l, i + 1) EXCEPT ![i] = @ \o l[i + 1]]
    BY <1>25, <1>28
<1>. QED
    BY <1>1, <1>7, <1>18, <1>19, <1>29, <1>30, <1>31, MayMerge

(* Where no page changes, no list does. *)
LEMMA SameLists ==
    ASSUME Listed(page, ov), page' = page, ov' = ov
    PROVE  Listed(page', ov') /\ InOrder' = InOrder
<1>1. Listed(page', ov')
    <2>1. PICK g, v : g = page /\ v = ov
        OBVIOUS
    <2>2. g = page' /\ v = ov' /\ Listed(g, v)
        BY <2>1
    <2>. QED
        BY <2>2
<1>2. InOrder' = InOrder
    <2>1. PICK g, v : g = page /\ v = ov
        OBVIOUS
    <2>2. InOrder = OrderIn(g, v)
        BY <2>1, OrderNow
    <2>3. g = page' /\ v = ov'
        BY <2>1
    <2>4. InOrder' = OrderIn(g, v)
        BY <2>3, OrderNow
    <2>. QED
        BY <2>2, <2>4
<1>. QED
    BY <1>1, <1>2

(* At first there is one page, and it is empty. *)
LEMMA InitLists == Init => Listed(page, ov) /\ Lists!ListsInit
<1>. SUFFICES ASSUME Init PROVE Listed(page, ov) /\ Lists!ListsInit
    OBVIOUS
<1>1. IInv
    BY InitIInv
<1>2. page = [p \in 1 .. MaxPage |-> IF p = 1 THEN NewPage ELSE NoPage]
    BY DEF Init
<1>3. \A p \in LiveOf(page) : p = 1 /\ page[p] = NewPage
    BY <1>2 DEF LiveOf
<1>4. 1 \in LiveOf(page)
    <2>1. 1 \in 1 .. MaxPage
        BY VariantAssumption DEF VariantAssumption
    <2>. QED
        BY <1>2, <2>1, NewPageOK, NoPageIsNone DEF LiveOf, PageOK
<1>5. PICK s : s = <<1>>
    OBVIOUS
<1>6. s \in Seq(1 .. MaxPage) /\ Len(s) = 1 /\ s[1] = 1
    <2>1. 1 \in 1 .. MaxPage
        BY <1>4 DEF LiveOf
    <2>. QED
        BY <1>5, <2>1
<1>7. InRow(page, s)
    <2>1. page[1].next = 0 /\ page[1].prev = 0
        BY <1>3, <1>4, NewPageOK
    <2>2. \A i \in 1 .. 1 : i = 1 /\ ~(i < 1) /\ ~(i > 1)
        OBVIOUS
    <2>. QED
        BY <1>3, <1>4, <1>6, <2>1, <2>2 DEF InRow
<1>8. page[1].slots = <<>>
    BY <1>3, <1>4 DEF NewPage
<1>9. \A p \in LiveOf(page) : Measured(page[p].slots, ov)
    <2>1. \A n \in 1 .. Len(<<>>) : FALSE
        OBVIOUS
    <2>. QED
        BY <1>3, <1>8, <2>1 DEF Measured
<1>10. InOrder = << <<>> >>
    <2>1. PICK n \in Nat : n = 1 /\ n = Len(s)
        BY <1>6
    <2>2. InOrder = [i \in 1 .. n |-> ItemsOf(page[s[i]].slots, ov)]
        BY <1>1, <1>7, <2>1, ListsAre
    <2>3. ItemsOf(<<>>, ov) = <<>>
        BY DEF ItemsOf
    <2>4. InOrder = [i \in 1 .. 1 |-> <<>>]
        BY <1>6, <1>8, <2>1, <2>2, <2>3
    <2>5. [i \in 1 .. 1 |-> <<>>] = << <<>> >>
        OBVIOUS
    <2>. QED
        BY <2>4, <2>5
<1>. QED
    BY <1>7, <1>9, <1>10 DEF Listed, Lists!ListsInit

(* Each step is one of the lists. *)
LEMMA StepLists ==
    IInv /\ IInv' /\ ChainsKept /\ ChainsKept' /\ Listed(page, ov) /\ [Next]_vars
        => Listed(page, ov)' /\ [Lists!ListsNext]_InOrder
<1>. SUFFICES ASSUME IInv, IInv', ChainsKept, ChainsKept', Listed(page, ov), [Next]_vars
              PROVE  Listed(page, ov)' /\ [Lists!ListsNext]_InOrder
    BY SMTT(40)
<1>1. Listed(page', ov') => Listed(page, ov)'
    BY ZenonT(40) DEF Listed, InRow, LiveOf, Measured, Fits, LengthIn, ChainIn
<1>2. CASE Next
    <2>1. PICK p \in Live :
            \/ \E pos \in Places(Len(page[p].slots)) \cap 1 .. Len(page[p].slots) + 1, d \in data :
                    Insert(p, pos, d)
            \/ \E pos \in DOMAIN page[p].slots : Erase(p, pos)
            \/ Split(p) \/ Merge(p) \/ TakeNext(p) \/ TakePrev(p)
        BY <1>2 DEF Next
    <2>2. CASE \E pos \in Places(Len(page[p].slots)) \cap 1 .. Len(page[p].slots) + 1, d \in data :
                    Insert(p, pos, d)
        <3>1. PICK pos \in 1 .. Len(page[p].slots) + 1, d \in data : Insert(p, pos, d)
            BY <2>2
        <3>. QED
            BY <1>1, <3>1, InsertLists
    <2>3. CASE \E pos \in DOMAIN page[p].slots : Erase(p, pos)
        <3>1. DOMAIN page[p].slots = 1 .. Len(page[p].slots)
            BY HeadsIn, Free
        <3>2. PICK pos \in 1 .. Len(page[p].slots) : Erase(p, pos)
            BY <2>3, <3>1
        <3>. QED
            BY <1>1, <3>2, EraseLists
    <2>. QED
        BY <1>1, <2>1, <2>2, <2>3, SplitLists, MergeLists, TakeNextLists, TakePrevLists
<1>3. CASE UNCHANGED vars
    <2>1. page' = page /\ ov' = ov
        BY <1>3 DEF vars
    <2>. QED
        BY <1>1, <2>1, SameLists
<1>. QED
    BY <1>2, <1>3

(* The pages implement lists of items: what was inserted reads back as long *)
(* as it was and where it was put, whatever is packed, split, merged and    *)
(* moved, and whatever chains of overflow pages it has; a page takes an     *)
(* item only if its bytes leave room, and either part of a split has half   *)
(* the least number of blocks.                                              *)
THEOREM ItemListsImplemented == Spec => ImplementsItemLists
<1>1. Spec => []ChainsKept
    BY InitChains, StepChains, Invariant, PTL DEF Spec
<1>2. Lists!ListsInit /\ [][Lists!ListsNext]_InOrder => ImplementsItemLists
    BY DEF ImplementsItemLists, Lists!ListsSpec
<1>3. Spec => Lists!ListsInit /\ [][Lists!ListsNext]_InOrder
    BY <1>1, InitLists, StepLists, Invariant, PTL DEF Spec
<1>. QED
    BY <1>2, <1>3, PTL
=============================================================================
