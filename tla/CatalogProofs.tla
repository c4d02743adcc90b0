----------------------------- MODULE CatalogProofs -----------------------------
(***************************************************************************)
(* Proofs about the catalog: the database objects stay well formed, and    *)
(* wherever the process dies, a database nobody works on lists only whole  *)
(* tables and leaves no file behind.                                       *)
(*                                                                         *)
(* A statement is a plan, todo, that runs step by step.  What a file will  *)
(* hold once the plan has run does not change while it runs; the           *)
(* invariant is about that.  Its parts are Openable (what memory holds,    *)
(* and that a database to be opened will have its list), PlanFits (what a  *)
(* statement may have planned) and Healthy (what the files will hold).     *)
(* Where statements open lists that are missing or damaged none of that    *)
(* holds; a weaker invariant, Formed, says what is left of memory then.    *)
(***************************************************************************)
EXTENDS Catalog, SequenceTheorems, Induction

(* What open() makes of a list that is there, and the steps that do so.    *)
OpenedList(d) ==
    [NewObject(d) EXCEPT !.names = list[d],
                         !.tables = [i \in DOMAIN list[d] |-> Manage(list[d][i])]]

FilesOpen(d) ==
    /\ data' = [t \in Tab |-> data[t] \/ t \in Listed(d)]
    /\ held' = [t \in Tab |-> IF t \in Listed(d) THEN OnDisk(t) ELSE held[t]]
    /\ UNCHANGED <<list, head>>

OpensCur ==
    /\ Do("open") /\ Done
    /\ FilesOpen(Arg) /\ cur' = OpenedList(Arg)
    /\ UNCHANGED <<db, hurt>>

OpensSecond ==
    /\ Do("show") \/ Do("drop")
    /\ FilesOpen(Arg) /\ db' = OpenedList(Arg)
    /\ todo' = (IF Do("show") THEN CloseObject(db') ELSE DropObject(db'))
                    \o << <<"end">> >>
    /\ UNCHANGED <<cur, hurt>>

(* Element e is in sequence s. *)
In(s, e) == \E k \in DOMAIN s : s[k] = e

(* E says what a step sets a file to, {} or {value}.  None of s sets it;   *)
(* the last step of s that sets it sets it to x; s leads from v to x.      *)
Idles(s, E) == \A k \in DOMAIN s : E[s[k]] = {}

Fixes(s, E, x) ==
    \E k \in DOMAIN s : E[s[k]] = {x} /\ \A j \in DOMAIN s : j > k => E[s[j]] = {}

Leads(s, E, v, x) == Fixes(s, E, x) \/ (x = v /\ Idles(s, E))

-----------------------------------------------------------------------------
(* Facts about sequences of steps.                                         *)

(* The library's fact, in the form the provers use. *)
Regroups(x, y, z) == (x \o y) \o z = x \o (y \o z)

(* Concatenation may be regrouped. *)
LEMMA ConcatIsAssociative ==
    ASSUME NEW S, NEW x \in Seq(S), NEW y \in Seq(S), NEW z \in Seq(S)
    PROVE  Regroups(x, y, z)
BY ConcatAssociative DEF Regroups

(* What is in a concatenation is in one of its parts. *)
LEMMA InConcat ==
    ASSUME NEW S, NEW s \in Seq(S), NEW r \in Seq(S)
    PROVE  /\ s \o r \in Seq(S)
           /\ DOMAIN (s \o r) = 1 .. Len(s) + Len(r)
           /\ \A k \in DOMAIN s : k \in DOMAIN (s \o r) /\ (s \o r)[k] = s[k]
           /\ \A k \in DOMAIN r : /\ Len(s) + k \in DOMAIN (s \o r)
                                  /\ (s \o r)[Len(s) + k] = r[k]
           /\ \A k \in DOMAIN (s \o r) : \/ k \in DOMAIN s
                                         \/ k - Len(s) \in DOMAIN r /\ k > Len(s)
<1>1. /\ s \o r \in Seq(S)
      /\ Len(s \o r) = Len(s) + Len(r)
      /\ \A i \in 1 .. Len(s) + Len(r) :
            (s \o r)[i] = IF i <= Len(s) THEN s[i] ELSE r[i - Len(s)]
    BY ConcatProperties
<1>2. /\ Len(s) \in Nat /\ Len(r) \in Nat
      /\ DOMAIN s = 1 .. Len(s) /\ DOMAIN r = 1 .. Len(r)
      /\ DOMAIN (s \o r) = 1 .. Len(s) + Len(r)
    BY <1>1, LenProperties
<1>3. \A k \in 1 .. Len(r) : Len(s) + k \in 1 .. Len(s) + Len(r)
                             /\ Len(s) + k > Len(s) /\ (Len(s) + k) - Len(s) = k
    BY <1>2
<1>4. \A k \in 1 .. Len(s) + Len(r) :
          k \in 1 .. Len(s) \/ (k - Len(s) \in 1 .. Len(r) /\ k > Len(s))
    BY <1>2
<1>5. \A k \in 1 .. Len(s) : k \in 1 .. Len(s) + Len(r) /\ k <= Len(s)
    BY <1>2
<1>6. \A k \in 1 .. Len(r) : (s \o r)[Len(s) + k] = r[k]
    <2>. SUFFICES ASSUME NEW k \in 1 .. Len(r) PROVE (s \o r)[Len(s) + k] = r[k]
        OBVIOUS
    <2>1. ~(Len(s) + k <= Len(s))
        BY <1>2
    <2>. QED
        BY <1>1, <1>3, <2>1
<1>. QED
    BY <1>1, <1>2, <1>3, <1>4, <1>5, <1>6

(* What is in a concatenation is in one of its parts. *)
LEMMA ElementOfConcat ==
    ASSUME NEW S, NEW s \in Seq(S), NEW r \in Seq(S), NEW k \in DOMAIN (s \o r)
    PROVE  In(s, (s \o r)[k]) \/ In(r, (s \o r)[k])
<1>1. CASE k \in DOMAIN s
    BY <1>1, InConcat DEF In
<1>2. CASE k - Len(s) \in DOMAIN r /\ k > Len(s)
    <2>1. k \in Nat /\ Len(s) \in Nat /\ Len(s) + (k - Len(s)) = k
        BY InConcat, LenProperties
    <2>2. (s \o r)[k] = r[k - Len(s)]
        BY <1>2, <2>1, InConcat
    <2>. QED
        BY <1>2, <2>2 DEF In
<1>. QED
    BY <1>1, <1>2, InConcat

(* Parts that set nothing set nothing together. *)
LEMMA IdlesConcat ==
    ASSUME NEW S, NEW E, NEW s \in Seq(S), NEW r \in Seq(S), Idles(s, E), Idles(r, E)
    PROVE  Idles(s \o r, E)
<1>1. ASSUME NEW k \in DOMAIN (s \o r) PROVE E[(s \o r)[k]] = {}
    <2>1. CASE k \in DOMAIN s
        BY <2>1, InConcat DEF Idles
    <2>2. CASE k - Len(s) \in DOMAIN r /\ k > Len(s)
        <3>1. k \in Nat /\ Len(s) \in Nat /\ Len(s) + (k - Len(s)) = k
            BY InConcat, LenProperties
        <3>2. (s \o r)[k] = r[k - Len(s)]
            BY <2>2, <3>1, InConcat
        <3>. QED
            BY <2>2, <3>2 DEF Idles
    <2>. QED
        BY <2>1, <2>2, InConcat
<1>. QED
    BY <1>1 DEF Idles

(* What the last part fixes, the whole fixes. *)
LEMMA FixesAfter ==
    ASSUME NEW S, NEW E, NEW s \in Seq(S), NEW r \in Seq(S), NEW x, Fixes(r, E, x)
    PROVE  Fixes(s \o r, E, x)
<1>1. PICK k \in DOMAIN r : E[r[k]] = {x} /\ \A j \in DOMAIN r : j > k => E[r[j]] = {}
    BY DEF Fixes
<1>2. Len(s) + k \in DOMAIN (s \o r) /\ E[(s \o r)[Len(s) + k]] = {x}
    BY <1>1, InConcat
<1>3. ASSUME NEW j \in DOMAIN (s \o r), j > Len(s) + k PROVE E[(s \o r)[j]] = {}
    <2>1. /\ Len(s) \in Nat /\ DOMAIN s = 1 .. Len(s) /\ DOMAIN r = 1 .. Len(r)
          /\ j \in Nat /\ k \in Nat
        BY InConcat, LenProperties
    <2>2. j - Len(s) \in DOMAIN r /\ j - Len(s) > k /\ Len(s) + (j - Len(s)) = j
        BY <1>3, <2>1, InConcat
    <2>3. (s \o r)[j] = r[j - Len(s)]
        BY <2>2, InConcat
    <2>. QED
        BY <1>1, <2>2, <2>3
<1>. QED
    BY <1>2, <1>3 DEF Fixes

(* Steps that set nothing may come after. *)
LEMMA FixesBefore ==
    ASSUME NEW S, NEW E, NEW s \in Seq(S), NEW r \in Seq(S), NEW x,
           Fixes(s, E, x), Idles(r, E)
    PROVE  Fixes(s \o r, E, x)
<1>1. PICK k \in DOMAIN s : E[s[k]] = {x} /\ \A j \in DOMAIN s : j > k => E[s[j]] = {}
    BY DEF Fixes
<1>2. k \in DOMAIN (s \o r) /\ E[(s \o r)[k]] = {x}
    BY <1>1, InConcat
<1>3. ASSUME NEW j \in DOMAIN (s \o r), j > k PROVE E[(s \o r)[j]] = {}
    <2>1. CASE j \in DOMAIN s
        BY <1>1, <1>3, <2>1, InConcat
    <2>2. CASE j - Len(s) \in DOMAIN r /\ j > Len(s)
        <3>1. Len(s) + (j - Len(s)) = j
            BY InConcat, LenProperties
        <3>2. (s \o r)[j] = r[j - Len(s)]
            BY <2>2, <3>1, InConcat
        <3>. QED
            BY <2>2, <3>2 DEF Idles
    <2>. QED
        BY <2>1, <2>2, InConcat
<1>. QED
    BY <1>2, <1>3 DEF Fixes

(* Running the first step changes nothing about where the plan leads. *)
LEMMA LeadsTail ==
    ASSUME NEW S, NEW E, NEW s \in Seq(S), s # <<>>, NEW v, NEW w, NEW x,
           Leads(s, E, v, x),
           (E[Head(s)] = {} /\ w = v) \/ E[Head(s)] = {w}
    PROVE  Leads(Tail(s), E, w, x)
<1>1. /\ Len(s) \in Nat /\ DOMAIN s = 1 .. Len(s) /\ Len(s) # 0
      /\ Head(s) = s[1] /\ DOMAIN Tail(s) = 1 .. Len(s) - 1
      /\ \A k \in 1 .. Len(s) - 1 : Tail(s)[k] = s[k + 1]
    <2>1. Tail(s) \in Seq(S) /\ Len(Tail(s)) = Len(s) - 1
          /\ \A i \in 1 .. Len(Tail(s)) : Tail(s)[i] = s[i + 1]
        BY HeadTailProperties
    <2>. QED
        BY <2>1, LenProperties, EmptySeq
<1>2. \A k \in 2 .. Len(s) : k - 1 \in DOMAIN Tail(s) /\ Tail(s)[k - 1] = s[k]
    BY <1>1
<1>3. CASE x = v /\ Idles(s, E)
    <2>1. E[Head(s)] = {} /\ w = v
        BY <1>1, <1>3 DEF Idles
    <2>2. Idles(Tail(s), E)
        BY <1>1, <1>3 DEF Idles
    <2>. QED
        BY <1>3, <2>1, <2>2 DEF Leads, Fixes
<1>4. ASSUME NEW k \in DOMAIN s, E[s[k]] = {x},
             \A j \in DOMAIN s : j > k => E[s[j]] = {}
      PROVE  Leads(Tail(s), E, w, x)
    <2>1. \A j \in DOMAIN Tail(s) : j + 1 \in DOMAIN s /\ Tail(s)[j] = s[j + 1] /\ j \in Nat
        BY <1>1
    <2>2. CASE k = 1
        <3>1. w = x
            BY <1>1, <1>4, <2>2
        <3>2. Idles(Tail(s), E)
            BY <1>1, <1>4, <2>1, <2>2 DEF Idles
        <3>. QED
            BY <3>1, <3>2 DEF Leads, Fixes
    <2>3. CASE k # 1
        <3>1. k - 1 \in DOMAIN Tail(s) /\ Tail(s)[k - 1] = s[k] /\ k \in Nat
            BY <1>1, <1>2, <2>3
        <3>2. \A j \in DOMAIN Tail(s) : j > k - 1 => E[Tail(s)[j]] = {}
            BY <1>4, <2>1, <3>1
        <3>. QED
            BY <1>4, <3>1, <3>2 DEF Leads, Fixes
    <2>. QED
        BY <2>2, <2>3
<1>. QED
    BY <1>3, <1>4 DEF Leads, Fixes

(* A plan that sets nothing leads nowhere else. *)
LEMMA LeadsIdle ==
    ASSUME NEW E, NEW s, NEW v, NEW x, Idles(s, E)
    PROVE  Leads(s, E, v, x) <=> x = v
BY DEF Leads, Fixes, Idles

(* Two steps and three steps. *)
LEMMA TwoSteps ==
    ASSUME NEW S, NEW a \in S, NEW b \in S
    PROVE  /\ <<a, b>> \in Seq(S)
           /\ \A E : E[a] = {} /\ E[b] = {} => Idles(<<a, b>>, E)
           /\ \A E, x : E[b] = {x} => Fixes(<<a, b>>, E, x)
           /\ \A E, x : E[a] = {x} /\ E[b] = {} => Fixes(<<a, b>>, E, x)
           /\ In(<<a, b>>, a) /\ In(<<a, b>>, b)
           /\ \A e : In(<<a, b>>, e) => e = a \/ e = b
<1> DEFINE p == <<a, b>>
<1>1. /\ p \in Seq(S) /\ 1 \in DOMAIN p /\ 2 \in DOMAIN p
      /\ \A j \in DOMAIN p : j = 1 \/ j = 2
      /\ p[1] = a /\ p[2] = b
    OBVIOUS
<1>. HIDE DEF p
<1>2. \A j \in DOMAIN p : ~(j > 2) /\ (j > 1 => j = 2)
    BY <1>1
<1>. QED
    BY <1>1, <1>2 DEF Idles, Fixes, In, p

(* The same of plans of three steps. *)
LEMMA ThreeSteps ==
    ASSUME NEW S, NEW a \in S, NEW b \in S, NEW c \in S
    PROVE  /\ <<a, b, c>> \in Seq(S)
           /\ \A E : E[a] = {} /\ E[b] = {} /\ E[c] = {} => Idles(<<a, b, c>>, E)
           /\ \A E, x : E[c] = {x} => Fixes(<<a, b, c>>, E, x)
           /\ \A E, x : E[b] = {x} /\ E[c] = {} => Fixes(<<a, b, c>>, E, x)
           /\ \A e : In(<<a, b, c>>, e) => e = a \/ e = b \/ e = c
<1> DEFINE p == <<a, b, c>>
<1>1. /\ p \in Seq(S) /\ 1 \in DOMAIN p /\ 2 \in DOMAIN p /\ 3 \in DOMAIN p
      /\ \A j \in DOMAIN p : j = 1 \/ j = 2 \/ j = 3
      /\ p[1] = a /\ p[2] = b /\ p[3] = c
    OBVIOUS
<1>. HIDE DEF p
<1>2. \A j \in DOMAIN p : ~(j > 3) /\ (j > 2 => j = 3)
    BY <1>1
<1>. QED
    BY <1>1, <1>2 DEF Idles, Fixes, In, p

-----------------------------------------------------------------------------
(* FlattenSeq puts the sequences after each other: before and after the    *)
(* i-th come only elements of the others.                                  *)
FromOthers(s, bs, i) ==
    \A k \in DOMAIN s : \E j \in DOMAIN bs \ {i} : In(bs[j], s[k])

Flattens(c, bs, n) ==
    /\ c[1] = bs[1]
    /\ \A i \in 2 .. n : c[i] = c[i - 1] \o bs[i]
    /\ FlattenSeq(bs) = c[n]

(* FlattenSeq is built by one concatenation after the other. *)
LEMMA FlattenSteps ==
    ASSUME NEW S, NEW n \in Nat \ {0}, NEW bs \in [1 .. n -> Seq(S)]
    PROVE  \E c \in [1 .. n -> Seq(S)] : Flattens(c, bs, n)
<1> DEFINE f == [a \in Nat \X Seq(S) |->
                    IF a[1] + 2 <= n THEN a[2] \o bs[a[1] + 2] ELSE a[2]]
<1>0. Len(bs) = n /\ bs[1] \in Seq(S) /\ bs \in Seq(Seq(S))
    <2>1. bs \in Seq(Seq(S))
        OBVIOUS
    <2>2. DOMAIN bs = 1 .. Len(bs) /\ Len(bs) \in Nat
        BY <2>1, LenProperties
    <2>3. Len(bs) = n
        BY <2>2
    <2>. QED
        BY <2>1, <2>3
<1>1. f \in [Nat \X Seq(S) -> Seq(S)]
    <2>1. ASSUME NEW a \in Nat \X Seq(S)
          PROVE  (IF a[1] + 2 <= n THEN a[2] \o bs[a[1] + 2] ELSE a[2]) \in Seq(S)
        <3>1. a[1] \in Nat /\ a[2] \in Seq(S)
            OBVIOUS
        <3>2. CASE a[1] + 2 <= n
            <4>1. a[1] + 2 \in 1 .. n
                BY <3>1, <3>2
            <4>2. bs[a[1] + 2] \in Seq(S)
                BY <4>1
            <4>. QED
                BY <3>1, <3>2, <4>2, ConcatProperties
        <3>. QED
            BY <3>1, <3>2
    <2>. QED
        BY <2>1
<1>. HIDE DEF f
<1>2. PICK g \in Goes(Seq(S), bs[1], f) : TRUE
    <2>1. PICK Q : Q = Seq(S)
        OBVIOUS
    <2>2. bs[1] \in Q /\ f \in [Nat \X Q -> Q]
        BY <1>0, <1>1, <2>1
    <2>3. Goes(Q, bs[1], f) # {}
        BY <2>2, RecursionExists
    <2>. QED
        BY <2>1, <2>3
<1>3. g \in [Nat -> Seq(S)] /\ g[0] = bs[1] /\ \A m \in Nat : g[m + 1] = f[<<m, g[m]>>]
    BY <1>2 DEF Goes
<1>4. PICK w \in [1 .. n -> Seq(S)] : \A i \in 1 .. n : w[i] = g[i - 1]
    <2>1. [i \in 1 .. n |-> g[i - 1]] \in [1 .. n -> Seq(S)]
        BY <1>3
    <2>. QED
        BY <2>1
<1>5. ASSUME NEW i \in 1 .. n
      PROVE  w[i] = IF i = 1 THEN bs[i] ELSE w[i - 1] \o bs[i]
    <2>1. CASE i = 1
        BY <1>3, <1>4, <2>1
    <2>2. CASE i # 1
        <3>1. i - 2 \in Nat /\ i - 1 \in 1 .. n /\ (i - 2) + 1 = i - 1 /\ (i - 2) + 2 = i
              /\ (i - 1) - 1 = i - 2 /\ i <= n
            BY <2>2
        <3>2. g[i - 1] = f[<<i - 2, g[i - 2]>>]
            BY <1>3, <3>1
        <3>3. g[i - 2] \in Seq(S) /\ <<i - 2, g[i - 2]>> \in Nat \X Seq(S)
            BY <1>3, <3>1
        <3>4. f[<<i - 2, g[i - 2]>>] = g[i - 2] \o bs[i]
            BY <3>1, <3>3 DEF f
        <3>. QED
            BY <1>4, <2>2, <3>1, <3>2, <3>4
    <2>. QED
        BY <2>1, <2>2
<1>6. w = [i \in 1 .. Len(bs) |-> IF i = 1 THEN bs[i] ELSE w[i - 1] \o bs[i]]
    BY <1>0, <1>5
<1> DEFINE c == CHOOSE c : c = [i \in 1 .. Len(bs) |->
                                   IF i = 1 THEN bs[i] ELSE c[i - 1] \o bs[i]]
<1>7. c = [i \in 1 .. Len(bs) |-> IF i = 1 THEN bs[i] ELSE c[i - 1] \o bs[i]]
    BY <1>6
<1>8. FlattenSeq(bs) = c[n]
    BY <1>0 DEF FlattenSeq
<1>. HIDE DEF c
<1>9. c[1] = bs[1] /\ \A i \in 2 .. n : c[i] = c[i - 1] \o bs[i]
    <2>1. \A i \in 1 .. n : c[i] = IF i = 1 THEN bs[i] ELSE c[i - 1] \o bs[i]
        BY <1>0, <1>7
    <2>2. 1 \in 1 .. n /\ \A i \in 2 .. n : i \in 1 .. n /\ i # 1
        OBVIOUS
    <2>. QED
        BY <2>1, <2>2
<1> DEFINE Ok == {i \in Nat : i + 1 \in 1 .. n => c[i + 1] \in Seq(S)}
<1>10. 0 \in Ok
    BY <1>0, <1>9
<1>11. ASSUME NEW i \in Nat, i \in Ok PROVE i + 1 \in Ok
    <2>. SUFFICES ASSUME (i + 1) + 1 \in 1 .. n PROVE c[(i + 1) + 1] \in Seq(S)
        OBVIOUS
    <2>1. (i + 1) + 1 \in 2 .. n /\ ((i + 1) + 1) - 1 = i + 1 /\ i + 1 \in 1 .. n
        OBVIOUS
    <2>2. c[(i + 1) + 1] = c[i + 1] \o bs[(i + 1) + 1] /\ c[i + 1] \in Seq(S)
        BY <1>9, <1>11, <2>1
    <2>3. bs[(i + 1) + 1] \in Seq(S)
        OBVIOUS
    <2>. QED
        BY <2>2, <2>3, ConcatProperties
<1>12. Nat \subseteq Ok
    <2>. HIDE DEF Ok
    <2>. QED
        BY <1>10, <1>11, AllNat
<1>13. ASSUME NEW i \in 1 .. n PROVE c[i] \in Seq(S)
    <2>1. i - 1 \in Nat /\ (i - 1) + 1 = i
        OBVIOUS
    <2>. QED
        BY <1>12, <2>1
<1>14. c \in [1 .. n -> Seq(S)]
    BY <1>0, <1>7, <1>13
<1>. QED
    BY <1>8, <1>9, <1>14 DEF Flattens

(* The first m sequences together, as the i-th is seen from there.         *)
LEMMA FlattenParts ==
    ASSUME NEW S, NEW n \in Nat \ {0}, NEW bs \in [1 .. n -> Seq(S)], NEW i \in 1 .. n
    PROVE  \E s, r \in Seq(S) : /\ FlattenSeq(bs) = (s \o bs[i]) \o r
                                /\ FromOthers(s, bs, i)
                                /\ FromOthers(r, bs, i)
<1>0. PICK c \in [1 .. n -> Seq(S)] : Flattens(c, bs, n)
    BY FlattenSteps
<1>1. /\ c[1] = bs[1]
      /\ \A m \in 2 .. n : c[m] = c[m - 1] \o bs[m]
      /\ FlattenSeq(bs) = c[n]
    BY <1>0 DEF Flattens
<1> DEFINE Below == {m \in Nat : m \in 1 .. n =>
                        \A k \in DOMAIN c[m] : \E j \in 1 .. m : In(bs[j], c[m][k])}
<1>2. 0 \in Below
    OBVIOUS
<1>3. ASSUME NEW m \in Nat, m \in Below PROVE m + 1 \in Below
    <2>. SUFFICES ASSUME m + 1 \in 1 .. n, NEW k \in DOMAIN c[m + 1]
                  PROVE  \E j \in 1 .. m + 1 : In(bs[j], c[m + 1][k])
        OBVIOUS
    <2>1. CASE m = 0
        <3>1. c[m + 1] = bs[1] /\ 1 \in 1 .. m + 1
            BY <1>1, <2>1
        <3>. QED
            BY <3>1 DEF In
    <2>2. CASE m # 0
        <3>1. m + 1 \in 2 .. n /\ (m + 1) - 1 = m /\ m \in 1 .. n
            BY <2>2
        <3>2. c[m + 1] = c[m] \o bs[m + 1] /\ c[m] \in Seq(S) /\ bs[m + 1] \in Seq(S)
            BY <1>1, <3>1
        <3>3. k \in DOMAIN (c[m] \o bs[m + 1])
            BY <3>2
        <3>4. In(c[m], c[m + 1][k]) \/ In(bs[m + 1], c[m + 1][k])
            BY <3>2, <3>3, ElementOfConcat
        <3>5. ASSUME In(c[m], c[m + 1][k])
              PROVE  \E j \in 1 .. m + 1 : In(bs[j], c[m + 1][k])
            <4>1. PICK j \in 1 .. m : In(bs[j], c[m + 1][k])
                BY <1>3, <3>1, <3>5, ZenonT(40) DEF In
            <4>2. j \in 1 .. m + 1
                OBVIOUS
            <4>. QED
                BY <4>1, <4>2
        <3>6. m + 1 \in 1 .. m + 1
            OBVIOUS
        <3>. QED
            BY <3>4, <3>5, <3>6
    <2>. QED
        BY <2>1, <2>2
<1>4. Nat \subseteq Below
    <2>. HIDE DEF Below
    <2>. QED
        BY <1>2, <1>3, AllNat
<1>5. PICK s \in Seq(S) : c[i] = s \o bs[i] /\ FromOthers(s, bs, i)
    <2>1. CASE i = 1
        <3>1. c[i] = <<>> \o bs[i] /\ <<>> \in Seq(S)
            BY <1>1, <2>1, ConcatEmptySeq
        <3>2. FromOthers(<<>>, bs, i)
            BY DEF FromOthers
        <3>. QED
            BY <3>1, <3>2
    <2>2. CASE i # 1
        <3>1. i - 1 \in 1 .. n /\ i - 1 \in Nat /\ i \in 2 .. n
            BY <2>2
        <3>2. c[i] = c[i - 1] \o bs[i] /\ c[i - 1] \in Seq(S)
            BY <1>1, <3>1
        <3>3. \A k \in DOMAIN c[i - 1] : \E j \in 1 .. i - 1 : In(bs[j], c[i - 1][k])
            BY <1>4, <3>1
        <3>4. 1 .. i - 1 \subseteq DOMAIN bs \ {i}
            OBVIOUS
        <3>5. FromOthers(c[i - 1], bs, i)
            BY <3>3, <3>4 DEF FromOthers
        <3>. QED
            BY <3>2, <3>5
    <2>. QED
        BY <2>1, <2>2
<1> DEFINE Reach(m) == \E r \in Seq(S) : c[m] = c[i] \o r /\ FromOthers(r, bs, i)
           More == {d \in Nat : i + d \in 1 .. n => Reach(i + d)}
<1>6. 0 \in More
    <2>1. <<>> \in Seq(S) /\ i + 0 = i /\ c[i] = c[i] \o <<>>
        BY ConcatEmptySeq
    <2>2. FromOthers(<<>>, bs, i)
        BY DEF FromOthers
    <2>. QED
        BY <2>1, <2>2
<1>7. ASSUME NEW d \in Nat, d \in More PROVE d + 1 \in More
    <2>. SUFFICES ASSUME i + (d + 1) \in 1 .. n PROVE Reach(i + (d + 1))
        <3>. HIDE DEF Reach
        <3>. QED
            OBVIOUS
    <2>0. i + (d + 1) \in 2 .. n /\ i + (d + 1) - 1 = i + d /\ i + (d + 1) # i
        <3>1. i \in Nat /\ i >= 1
            OBVIOUS
        <3>. QED
            BY <3>1
    <2>1. PICK m \in 2 .. n : m = i + (d + 1) /\ m - 1 = i + d /\ m # i
        BY <2>0
    <2>2. m - 1 \in 1 .. n /\ m \in 1 .. n
        BY <2>1
    <2>a. Reach(m - 1)
        <3>. HIDE DEF Reach
        <3>. QED
            BY <1>7, <2>1, <2>2
    <2>3. PICK r \in Seq(S) : c[m - 1] = c[i] \o r /\ FromOthers(r, bs, i)
        BY <2>a
    <2>4. bs[m] \in Seq(S) /\ c[i] \in Seq(S)
        BY <2>2
    <2>5. c[m] = c[i] \o (r \o bs[m]) /\ r \o bs[m] \in Seq(S)
        <3>1. PICK x \in Seq(S) : x = c[i]
            BY <2>4
        <3>2. PICK z \in Seq(S) : z = bs[m]
            BY <2>4
        <3>3. c[m] = c[m - 1] \o z /\ c[m - 1] = x \o r
            BY <1>1, <2>3, <3>1, <3>2
        <3>4. Regroups(x, r, z)
            BY ConcatIsAssociative, Zenon
        <3>5. c[m] = x \o (r \o z)
            BY <3>3, <3>4, Zenon DEF Regroups
        <3>6. r \o z \in Seq(S)
            BY ConcatProperties
        <3>. QED
            BY <3>1, <3>2, <3>5, <3>6
    <2>6. FromOthers(r \o bs[m], bs, i)
        <3>. SUFFICES ASSUME NEW k \in DOMAIN (r \o bs[m])
                      PROVE  \E j \in DOMAIN bs \ {i} : In(bs[j], (r \o bs[m])[k])
            BY DEF FromOthers
        <3>1. In(r, (r \o bs[m])[k]) \/ In(bs[m], (r \o bs[m])[k])
            BY <2>4, ElementOfConcat
        <3>2. m \in DOMAIN bs \ {i}
            BY <2>1
        <3>3. In(r, (r \o bs[m])[k]) => \E j \in DOMAIN bs \ {i} : In(bs[j], (r \o bs[m])[k])
            BY <2>3, ZenonT(40) DEF FromOthers, In
        <3>. QED
            BY <3>1, <3>2, <3>3
    <2>. QED
        BY <2>1, <2>5, <2>6
<1>8. Nat \subseteq More
    <2>. HIDE DEF More
    <2>. QED
        BY <1>6, <1>7, AllNat
<1>9. PICK r \in Seq(S) : c[n] = c[i] \o r /\ FromOthers(r, bs, i)
    <2>1. n - i \in Nat /\ i + (n - i) = n /\ n \in 1 .. n
        OBVIOUS
    <2>. QED
        BY <1>8, <2>1
<1>. QED
    BY <1>1, <1>5, <1>9

(* What holds of the elements of every sequence holds of their             *)
(* concatenation.                                                          *)
LEMMA FlattenAll ==
    ASSUME NEW S, NEW n \in Nat, NEW bs \in [1 .. n -> Seq(S)], NEW P \in SUBSET S,
           \A i \in 1 .. n : \A k \in DOMAIN bs[i] : bs[i][k] \in P
    PROVE  FlattenSeq(bs) \in Seq(P)
<1>1. CASE n = 0
    <2>1. bs = <<>> /\ Len(bs) = 0
        BY <1>1
    <2>. QED
        BY <2>1 DEF FlattenSeq
<1>2. CASE n # 0
    <2>1. ASSUME NEW i \in 1 .. n PROVE bs[i] \in Seq(P)
        <3>1. bs[i] \in Seq(S) /\ DOMAIN bs[i] = 1 .. Len(bs[i]) /\ Len(bs[i]) \in Nat
            BY LenProperties
        <3>. QED
            BY <3>1
    <2>2. bs \in [1 .. n -> Seq(P)]
        BY <2>1
    <2>3. PICK c \in [1 .. n -> Seq(P)] : Flattens(c, bs, n)
        BY <1>2, <2>2, FlattenSteps
    <2>. QED
        BY <1>2, <2>3 DEF Flattens
<1>. QED
    BY <1>1, <1>2
-----------------------------------------------------------------------------
(* The plan of a statement: steps on the files of one database, and steps  *)
(* that begin or end its turn.                                             *)
Names(d)    == {l \in Seq(Home[d]) : IsInjective(l)}
Managers(d) == [file : Home[d], val : Value \cup {Junk}, dirty : BOOLEAN]

Work(d) ==
    {<<"cut", t>> : t \in Home[d]}
    \cup {<<"head", m>> : m \in Managers(d)}
    \cup {<<"data", m>> : m \in Managers(d)}
    \cup {<<"remove head", t>> : t \in Home[d]}
    \cup {<<"remove data", t>> : t \in Home[d]}
    \cup {<<"cut list", d>>, <<"remove list", d>>}
    \cup {<<"list", d, l>> : l \in Names(d)}

Turns ==
    {<<"open", d>> : d \in Db} \cup {<<"show", d>> : d \in Db} \cup {<<"drop", d>> : d \in Db}

Steps == (UNION {Work(d) : d \in Db}) \cup Turns \cup {<<"leave">>, <<"end">>}

(* What a step sets each kind of file to. *)
HeadSets(t) ==
    [e \in Steps |->
        IF e[1] = "cut" /\ e[2] = t THEN {"cut"}
        ELSE IF e[1] = "head" /\ e[2].file = t THEN {"ok"}
        ELSE IF e[1] = "remove head" /\ e[2] = t THEN {"none"} ELSE {}]

DataSets(t) ==
    [e \in Steps |-> IF e[1] = "remove data" /\ e[2] = t THEN {FALSE} ELSE {}]

HeldSets(t) ==
    [e \in Steps |->
        IF e[1] = "head" /\ e[2].file = t /\ e[2].dirty THEN {Junk}
        ELSE IF e[1] = "data" /\ e[2].file = t /\ e[2].dirty THEN {e[2].val} ELSE {}]

ListSets(d) ==
    [e \in Steps |->
        IF e[1] = "cut list" /\ e[2] = d THEN {Damaged}
        ELSE IF e[1] = "list" /\ e[2] = d THEN {e[3]}
        ELSE IF e[1] = "remove list" /\ e[2] = d THEN {Missing} ELSE {}]

(* What an object has at each index; none of its tables twice. *)
Sound(o) ==
    /\ o \in Object
    /\ o.names \in Names(o.name)
    /\ Len(o.names) = Len(o.tables)
    /\ \A i \in DOMAIN o.names : o.names[i] = o.tables[i].file

(* A flattened plan fixes what one of its parts fixes and the others leave *)
(* alone.                                                                  *)
LEMMA OnePartFixes ==
    ASSUME NEW S, NEW n \in Nat, NEW bs \in [1 .. n -> Seq(S)], NEW i \in 1 .. n,
           NEW E, NEW x, Fixes(bs[i], E, x),
           \A j \in 1 .. n : j # i => Idles(bs[j], E)
    PROVE  Fixes(FlattenSeq(bs), E, x)
<1>1. PICK s \in Seq(S), r \in Seq(S) : /\ FlattenSeq(bs) = (s \o bs[i]) \o r
                                        /\ FromOthers(s, bs, i)
                                        /\ FromOthers(r, bs, i)
    <2>1. n \in Nat \ {0}
        OBVIOUS
    <2>. QED
        BY <2>1, FlattenParts
<1>2. ASSUME NEW q, FromOthers(q, bs, i) PROVE Idles(q, E)
    <2>. SUFFICES ASSUME NEW k \in DOMAIN q PROVE E[q[k]] = {}
        BY DEF Idles
    <2>1. PICK j \in DOMAIN bs \ {i} : In(bs[j], q[k])
        BY <1>2 DEF FromOthers
    <2>2. PICK h \in DOMAIN bs[j] : bs[j][h] = q[k]
        BY <2>1 DEF In
    <2>3. Idles(bs[j], E)
        BY <2>1
    <2>. QED
        BY <2>2, <2>3 DEF Idles
<1>3. bs[i] \in Seq(S) /\ s \o bs[i] \in Seq(S)
    BY ConcatProperties
<1>4. Fixes(s \o bs[i], E, x)
    BY <1>3, FixesAfter
<1>5. Fixes((s \o bs[i]) \o r, E, x)
    BY <1>1, <1>2, <1>3, <1>4, FixesBefore
<1>. QED
    BY <1>1, <1>5

(* A flattened plan sets nothing if none of its parts does. *)
LEMMA NoPartLeads ==
    ASSUME NEW S, NEW n \in Nat, NEW bs \in [1 .. n -> Seq(S)], NEW E,
           \A j \in 1 .. n : Idles(bs[j], E)
    PROVE  Idles(FlattenSeq(bs), E)
<1> DEFINE P == {e \in S : E[e] = {}}
<1>1. ASSUME NEW j \in 1 .. n, NEW k \in DOMAIN bs[j] PROVE bs[j][k] \in P
    <2>1. bs[j] \in Seq(S) /\ DOMAIN bs[j] = 1 .. Len(bs[j])
        BY LenProperties
    <2>. QED
        BY <2>1 DEF Idles
<1>2. FlattenSeq(bs) \in Seq(P)
    <2>. P \in SUBSET S
        OBVIOUS
    <2>. HIDE DEF P
    <2>. QED
        BY <1>1, FlattenAll
<1>3. \A k \in DOMAIN FlattenSeq(bs) : FlattenSeq(bs)[k] \in P
    <2>. HIDE DEF P
    <2>. QED
        BY <1>2, LenProperties, ElementOfSeq
<1>. QED
    BY <1>3 DEF Idles
(* What a step on the files of a database is. *)
Kind(e, d) ==
    /\ e \in Steps
    /\ e[1] \in {"cut", "remove head", "remove data"} => e[2] \in Home[d]
    /\ e[1] \in {"head", "data"} => e[2] \in Managers(d)
    /\ e[1] \in {"cut list", "remove list", "list"} => e[2] = d
    /\ e[1] = "list" => e[3] \in Names(d)
    /\ e[1] \in {"cut", "remove head", "remove data", "head", "data",
                 "cut list", "remove list", "list"}

(* The parts of a step on the files of a database are the ones its name    *)
(* calls for.                                                              *)
LEMMA WorkKinds ==
    ASSUME NEW d \in Db, NEW e \in Work(d)
    PROVE  Kind(e, d)
<1>1. e \in Steps
    BY DEF Steps
<1>2. ASSUME NEW t \in Home[d],
             \E s \in {"cut", "remove head", "remove data"} : e = <<s, t>>
      PROVE  Kind(e, d)
    <2>1. PICK s \in {"cut", "remove head", "remove data"} : e = <<s, t>>
        BY <1>2
    <2>2. e[1] = s /\ e[2] = t
        BY <2>1
    <2>. QED
        BY <1>1, <2>2 DEF Kind
<1>3. ASSUME NEW m \in Managers(d), \E s \in {"head", "data"} : e = <<s, m>>
      PROVE  Kind(e, d)
    <2>1. PICK s \in {"head", "data"} : e = <<s, m>>
        BY <1>3
    <2>2. e[1] = s /\ e[2] = m
        BY <2>1
    <2>. QED
        BY <1>1, <2>2 DEF Kind
<1>4. ASSUME \E s \in {"cut list", "remove list"} : e = <<s, d>>
      PROVE  Kind(e, d)
    <2>1. PICK s \in {"cut list", "remove list"} : e = <<s, d>>
        BY <1>4
    <2>2. e[1] = s /\ e[2] = d
        BY <2>1
    <2>. QED
        BY <1>1, <2>2 DEF Kind
<1>5. ASSUME NEW l \in Names(d), e = <<"list", d, l>>
      PROVE  Kind(e, d)
    <2>1. e[1] = "list" /\ e[2] = d /\ e[3] = l
        BY <1>5
    <2>. QED
        BY <1>1, <2>1 DEF Kind
<1>6. \/ \E t \in Home[d] : \E s \in {"cut", "remove head", "remove data"} : e = <<s, t>>
      \/ \E m \in Managers(d) : \E s \in {"head", "data"} : e = <<s, m>>
      \/ \E s \in {"cut list", "remove list"} : e = <<s, d>>
      \/ \E l \in Names(d) : e = <<"list", d, l>>
    BY DEF Work
<1>. QED
    BY <1>2, <1>3, <1>4, <1>5, <1>6

(* What each step sets. *)
LEMMA CutSets ==
    ASSUME NEW e \in Steps, NEW f, e = <<"cut", f>>, NEW t
    PROVE  /\ HeadSets(t)[e] = IF f = t THEN {"cut"} ELSE {}
           /\ DataSets(t)[e] = {}
           /\ HeldSets(t)[e] = {}
           /\ ListSets(t)[e] = {}
<1>1. e[1] = "cut" /\ e[2] = f
    OBVIOUS
<1>. QED
    BY <1>1 DEF HeadSets, DataSets, HeldSets, ListSets

(* The header; the pages it names are not there yet. *)
LEMMA WriteHeadSets ==
    ASSUME NEW e \in Steps, NEW m, e = <<"head", m>>, NEW t
    PROVE  /\ HeadSets(t)[e] = IF m.file = t THEN {"ok"} ELSE {}
           /\ DataSets(t)[e] = {}
           /\ HeldSets(t)[e] = IF m.file = t /\ m.dirty THEN {Junk} ELSE {}
           /\ ListSets(t)[e] = {}
<1>1. e[1] = "head" /\ e[2] = m
    OBVIOUS
<1>. QED
    BY <1>1 DEF HeadSets, DataSets, HeldSets, ListSets

(* The pages. *)
LEMMA WriteDataSets ==
    ASSUME NEW e \in Steps, NEW m, e = <<"data", m>>, NEW t
    PROVE  /\ HeadSets(t)[e] = {}
           /\ DataSets(t)[e] = {}
           /\ HeldSets(t)[e] = IF m.file = t /\ m.dirty THEN {m.val} ELSE {}
           /\ ListSets(t)[e] = {}
<1>1. e[1] = "data" /\ e[2] = m
    OBVIOUS
<1>. QED
    BY <1>1 DEF HeadSets, DataSets, HeldSets, ListSets

(* The removal of a header. *)
LEMMA RemoveHeadSets ==
    ASSUME NEW e \in Steps, NEW f, e = <<"remove head", f>>, NEW t
    PROVE  /\ HeadSets(t)[e] = IF f = t THEN {"none"} ELSE {}
           /\ DataSets(t)[e] = {}
           /\ HeldSets(t)[e] = {}
           /\ ListSets(t)[e] = {}
<1>1. e[1] = "remove head" /\ e[2] = f
    OBVIOUS
<1>. QED
    BY <1>1 DEF HeadSets, DataSets, HeldSets, ListSets

(* The removal of a data file. *)
LEMMA RemoveDataSets ==
    ASSUME NEW e \in Steps, NEW f, e = <<"remove data", f>>, NEW t
    PROVE  /\ HeadSets(t)[e] = {}
           /\ DataSets(t)[e] = IF f = t THEN {FALSE} ELSE {}
           /\ HeldSets(t)[e] = {}
           /\ ListSets(t)[e] = {}
<1>1. e[1] = "remove data" /\ e[2] = f
    OBVIOUS
<1>. QED
    BY <1>1 DEF HeadSets, DataSets, HeldSets, ListSets

(* The .database file, cut. *)
LEMMA CutListSets ==
    ASSUME NEW e \in Steps, NEW d, e = <<"cut list", d>>, NEW t
    PROVE  /\ HeadSets(t)[e] = {}
           /\ DataSets(t)[e] = {}
           /\ HeldSets(t)[e] = {}
           /\ ListSets(t)[e] = IF d = t THEN {Damaged} ELSE {}
<1>1. e[1] = "cut list" /\ e[2] = d
    OBVIOUS
<1>. QED
    BY <1>1 DEF HeadSets, DataSets, HeldSets, ListSets

(* The .database file, written. *)
LEMMA WriteListSets ==
    ASSUME NEW e \in Steps, NEW d, NEW l, e = <<"list", d, l>>, NEW t
    PROVE  /\ HeadSets(t)[e] = {}
           /\ DataSets(t)[e] = {}
           /\ HeldSets(t)[e] = {}
           /\ ListSets(t)[e] = IF d = t THEN {l} ELSE {}
<1>1. e[1] = "list" /\ e[2] = d /\ e[3] = l
    OBVIOUS
<1>. QED
    BY <1>1 DEF HeadSets, DataSets, HeldSets, ListSets

(* The .database file, removed. *)
LEMMA RemoveListSets ==
    ASSUME NEW e \in Steps, NEW d, e = <<"remove list", d>>, NEW t
    PROVE  /\ HeadSets(t)[e] = {}
           /\ DataSets(t)[e] = {}
           /\ HeldSets(t)[e] = {}
           /\ ListSets(t)[e] = IF d = t THEN {Missing} ELSE {}
<1>1. e[1] = "remove list" /\ e[2] = d
    OBVIOUS
<1>. QED
    BY <1>1 DEF HeadSets, DataSets, HeldSets, ListSets

(* Closing a table writes its header and its pages and nothing else.       *)
LEMMA CloseTableLeads ==
    ASSUME NEW d \in Db, NEW m \in Managers(d)
    PROVE  /\ CloseTable(m) \in Seq(Work(d))
           /\ Fixes(CloseTable(m), HeadSets(m.file), "ok")
           /\ m.dirty => Fixes(CloseTable(m), HeldSets(m.file), m.val)
           /\ \A t : ~m.dirty \/ t # m.file => Idles(CloseTable(m), HeldSets(t))
           /\ \A t : t # m.file => Idles(CloseTable(m), HeadSets(t))
           /\ \A t : Idles(CloseTable(m), DataSets(t))
           /\ \A e : Idles(CloseTable(m), ListSets(e))
<1>1. PICK a \in Work(d) : a = <<"cut", m.file>>
    BY DEF Managers, Work
<1>2. PICK b \in Work(d) : b = <<"head", m>>
    BY DEF Work
<1>3. PICK c \in Work(d) : c = <<"data", m>>
    BY DEF Work
<1>4. a \in Steps /\ b \in Steps /\ c \in Steps
    BY DEF Steps
<1>5. CloseTable(m) = <<a, b, c>>
    BY <1>1, <1>2, <1>3 DEF CloseTable
<1>6. ASSUME NEW t
      PROVE  /\ HeadSets(t)[a] = (IF m.file = t THEN {"cut"} ELSE {})
             /\ HeadSets(t)[b] = (IF m.file = t THEN {"ok"} ELSE {})
             /\ HeadSets(t)[c] = {}
             /\ HeldSets(t)[a] = {}
             /\ HeldSets(t)[b] = (IF m.file = t /\ m.dirty THEN {Junk} ELSE {})
             /\ HeldSets(t)[c] = (IF m.file = t /\ m.dirty THEN {m.val} ELSE {})
             /\ DataSets(t)[a] = {} /\ DataSets(t)[b] = {} /\ DataSets(t)[c] = {}
             /\ ListSets(t)[a] = {} /\ ListSets(t)[b] = {} /\ ListSets(t)[c] = {}
    <2>1. HeadSets(t)[a] = (IF m.file = t THEN {"cut"} ELSE {})
          /\ HeldSets(t)[a] = {} /\ DataSets(t)[a] = {} /\ ListSets(t)[a] = {}
        BY <1>1, <1>4, CutSets
    <2>2. /\ HeadSets(t)[b] = (IF m.file = t THEN {"ok"} ELSE {})
          /\ HeldSets(t)[b] = (IF m.file = t /\ m.dirty THEN {Junk} ELSE {})
          /\ DataSets(t)[b] = {} /\ ListSets(t)[b] = {}
        <3>1. b[1] = "head" /\ b[2] = m
            BY <1>2
        <3>. QED
            BY <1>4, <3>1 DEF HeadSets, HeldSets, DataSets, ListSets
    <2>3. /\ HeldSets(t)[c] = (IF m.file = t /\ m.dirty THEN {m.val} ELSE {})
          /\ HeadSets(t)[c] = {} /\ DataSets(t)[c] = {} /\ ListSets(t)[c] = {}
        BY <1>3, <1>4, WriteDataSets
    <2>. QED
        BY <2>1, <2>2, <2>3
<1>7. <<a, b, c>> \in Seq(Work(d))
    BY ThreeSteps
<1>8. Fixes(<<a, b, c>>, HeadSets(m.file), "ok")
    BY <1>6, ThreeSteps
<1>9. m.dirty => Fixes(<<a, b, c>>, HeldSets(m.file), m.val)
    BY <1>6, ThreeSteps
<1>10. ASSUME NEW t, ~m.dirty \/ t # m.file PROVE Idles(<<a, b, c>>, HeldSets(t))
    BY <1>6, <1>10, ThreeSteps
<1>11. ASSUME NEW t, t # m.file PROVE Idles(<<a, b, c>>, HeadSets(t))
    BY <1>6, <1>11, ThreeSteps
<1>12. ASSUME NEW t PROVE Idles(<<a, b, c>>, DataSets(t)) /\ Idles(<<a, b, c>>, ListSets(t))
    BY <1>6, ThreeSteps
<1>. QED
    BY <1>5, <1>7, <1>8, <1>9, <1>10, <1>11, <1>12

(* Dropping a table removes both its files and touches no other's.         *)
LEMMA DropTableLeads ==
    ASSUME NEW d \in Db, NEW m \in Managers(d)
    PROVE  /\ DropTableFiles(m) \in Seq(Work(d))
           /\ Fixes(DropTableFiles(m), HeadSets(m.file), "none")
           /\ Fixes(DropTableFiles(m), DataSets(m.file), FALSE)
           /\ \A t : t # m.file => /\ Idles(DropTableFiles(m), HeadSets(t))
                                   /\ Idles(DropTableFiles(m), DataSets(t))
                                   /\ Idles(DropTableFiles(m), HeldSets(t))
           /\ \A e : Idles(DropTableFiles(m), ListSets(e))
<1>1. PICK a \in Work(d) : a = <<"remove head", m.file>>
    BY DEF Managers, Work
<1>2. PICK b \in Work(d) : b = <<"remove data", m.file>>
    BY DEF Managers, Work
<1>3. a \in Steps /\ b \in Steps
    BY DEF Steps
<1>4. DropTableFiles(m) = CloseTable(m) \o <<a, b>>
    BY <1>1, <1>2 DEF DropTableFiles
<1>5. /\ CloseTable(m) \in Seq(Work(d))
      /\ \A t : t # m.file => Idles(CloseTable(m), HeldSets(t)) /\ Idles(CloseTable(m), HeadSets(t))
      /\ \A t : Idles(CloseTable(m), DataSets(t))
      /\ \A e : Idles(CloseTable(m), ListSets(e))
    BY CloseTableLeads
<1>6. ASSUME NEW t
      PROVE  /\ HeadSets(t)[a] = (IF m.file = t THEN {"none"} ELSE {})
             /\ HeadSets(t)[b] = {}
             /\ DataSets(t)[a] = {}
             /\ DataSets(t)[b] = (IF m.file = t THEN {FALSE} ELSE {})
             /\ HeldSets(t)[a] = {} /\ HeldSets(t)[b] = {}
             /\ ListSets(t)[a] = {} /\ ListSets(t)[b] = {}
    <2>1. HeadSets(t)[a] = (IF m.file = t THEN {"none"} ELSE {})
          /\ HeldSets(t)[a] = {} /\ DataSets(t)[a] = {} /\ ListSets(t)[a] = {}
        BY <1>1, <1>3, RemoveHeadSets
    <2>2. DataSets(t)[b] = (IF m.file = t THEN {FALSE} ELSE {})
          /\ HeadSets(t)[b] = {} /\ HeldSets(t)[b] = {} /\ ListSets(t)[b] = {}
        BY <1>2, <1>3, RemoveDataSets
    <2>. QED
        BY <2>1, <2>2
<1>7. PICK r \in Seq(Work(d)) : r = <<a, b>>
    BY TwoSteps
<1>8. Fixes(r, HeadSets(m.file), "none") /\ Fixes(r, DataSets(m.file), FALSE)
    <2>1. Fixes(<<a, b>>, HeadSets(m.file), "none")
        BY <1>6, TwoSteps
    <2>2. Fixes(<<a, b>>, DataSets(m.file), FALSE)
        <3>1. DataSets(m.file)[b] = {FALSE}
            BY <1>6
        <3>. QED
            BY <3>1, TwoSteps, Zenon
    <2>. QED
        BY <1>7, <2>1, <2>2
<1>9. ASSUME NEW t PROVE Idles(r, HeldSets(t)) /\ Idles(r, ListSets(t))
    BY <1>6, <1>7, TwoSteps
<1>10. ASSUME NEW t, t # m.file
      PROVE  Idles(r, HeadSets(t)) /\ Idles(r, DataSets(t))
    BY <1>6, <1>7, <1>10, TwoSteps
<1>11. PICK c \in Seq(Work(d)) : c = CloseTable(m)
    BY <1>5
<1>12. c \o r \in Seq(Work(d))
    BY ConcatProperties
<1>13. Fixes(c \o r, HeadSets(m.file), "none") /\ Fixes(c \o r, DataSets(m.file), FALSE)
    BY <1>8, FixesAfter
<1>14. ASSUME NEW t, t # m.file
       PROVE  /\ Idles(c \o r, HeadSets(t))
              /\ Idles(c \o r, DataSets(t))
              /\ Idles(c \o r, HeldSets(t))
    BY <1>5, <1>9, <1>10, <1>11, <1>14, IdlesConcat
<1>15. ASSUME NEW e PROVE Idles(c \o r, ListSets(e))
    BY <1>5, <1>9, <1>11, IdlesConcat
<1>. QED
    BY <1>4, <1>7, <1>11, <1>12, <1>13, <1>14, <1>15

(* The managers of an object, each of a table of its own.                  *)
LEMMA ObjectTables ==
    ASSUME NEW o, Sound(o)
    PROVE  /\ o.name \in Db
           /\ Len(o.tables) \in Nat
           /\ DOMAIN o.names = 1 .. Len(o.tables) /\ DOMAIN o.tables = 1 .. Len(o.tables)
           /\ \A i \in 1 .. Len(o.tables) : /\ o.tables[i] \in Managers(o.name)
                                            /\ o.tables[i].file = o.names[i]
           /\ \A i, j \in 1 .. Len(o.tables) : i # j => o.tables[i].file # o.tables[j].file
<1>1. /\ o.name \in Db /\ o.tables \in Seq(Manager)
      /\ o.names \in Seq(Home[o.name]) /\ IsInjective(o.names)
      /\ Len(o.names) = Len(o.tables)
      /\ \A i \in DOMAIN o.names : o.names[i] = o.tables[i].file
    BY DEF Sound, Object, Names
<1>2. /\ Len(o.tables) \in Nat
      /\ DOMAIN o.names = 1 .. Len(o.tables) /\ DOMAIN o.tables = 1 .. Len(o.tables)
      /\ \A i \in 1 .. Len(o.tables) : o.tables[i] \in Manager /\ o.names[i] \in Home[o.name]
    BY <1>1, LenProperties, ElementOfSeq
<1>3. ASSUME NEW i \in 1 .. Len(o.tables)
      PROVE  o.tables[i] \in Managers(o.name) /\ o.tables[i].file = o.names[i]
    BY <1>1, <1>2 DEF Manager, Managers
<1>4. ASSUME NEW i \in 1 .. Len(o.tables), NEW j \in 1 .. Len(o.tables), i # j
      PROVE  o.tables[i].file # o.tables[j].file
    BY <1>1, <1>2, <1>3, <1>4 DEF IsInjective
<1>. QED
    BY <1>1, <1>2, <1>3, <1>4

(* Closing an object writes its list and the headers of its tables, and    *)
(* the pages of those that were changed.                                   *)
LEMMA CloseObjectLeads ==
    ASSUME NEW o, Sound(o)
    PROVE  /\ CloseObject(o) \in Seq(Work(o.name))
           /\ Fixes(CloseObject(o), ListSets(o.name), o.names)
           /\ \A i \in DOMAIN o.tables :
                 /\ Fixes(CloseObject(o), HeadSets(o.tables[i].file), "ok")
                 /\ o.tables[i].dirty =>
                        Fixes(CloseObject(o), HeldSets(o.tables[i].file), o.tables[i].val)
                 /\ ~o.tables[i].dirty => Idles(CloseObject(o), HeldSets(o.tables[i].file))
           /\ \A t : ~In(o.names, t) => /\ Idles(CloseObject(o), HeadSets(t))
                                        /\ Idles(CloseObject(o), HeldSets(t))
           /\ \A t : Idles(CloseObject(o), DataSets(t))
<1>1. PICK d \in Db, n \in Nat :
          /\ d = o.name
          /\ n = Len(o.tables)
          /\ DOMAIN o.names = 1 .. n /\ DOMAIN o.tables = 1 .. n
    BY ObjectTables
<1>2. \A i \in 1 .. n : o.tables[i] \in Managers(d) /\ o.tables[i].file = o.names[i]
    BY <1>1, ObjectTables
<1>3. \A i, j \in 1 .. n : i # j => o.tables[i].file # o.tables[j].file
    BY <1>1, ObjectTables
<1>4. PICK bs \in [1 .. n -> Seq(Work(d))] : bs = [i \in DOMAIN o.tables |-> CloseTable(o.tables[i])]
    BY <1>1, <1>2, CloseTableLeads
<1>5. \A i \in 1 .. n : bs[i] = CloseTable(o.tables[i])
    BY <1>1, <1>4
<1>6. PICK a \in Work(d) : a = <<"cut list", d>>
    BY DEF Work
<1>7. PICK b \in Work(d) : b = <<"list", d, o.names>>
    <2>1. o.names \in Names(d)
        BY <1>1 DEF Sound
    <2>. QED
        BY <2>1 DEF Work
<1>8. a \in Steps /\ b \in Steps
    BY DEF Steps
<1>9. PICK p \in Seq(Work(d)) : p = FlattenSeq(bs)
    <2>1. ASSUME NEW i \in 1 .. n, NEW k \in DOMAIN bs[i] PROVE bs[i][k] \in Work(d)
        <3>1. bs[i] \in Seq(Work(d))
            OBVIOUS
        <3>. QED
            BY <3>1, LenProperties, ElementOfSeq
    <2>2. FlattenSeq(bs) \in Seq(Work(d))
        BY <2>1, FlattenAll
    <2>. QED
        BY <2>2
<1>10. PICK r \in Seq(Work(d)) : r = <<a, b>>
    BY TwoSteps
<1>11. CloseObject(o) = p \o r
    BY <1>1, <1>4, <1>6, <1>7, <1>9, <1>10 DEF CloseObject
<1>12. ASSUME NEW t
       PROVE  Idles(r, HeadSets(t)) /\ Idles(r, DataSets(t)) /\ Idles(r, HeldSets(t))
    <2>1. HeadSets(t)[a] = {} /\ DataSets(t)[a] = {} /\ HeldSets(t)[a] = {}
        BY <1>6, <1>8, CutListSets
    <2>2. HeadSets(t)[b] = {} /\ DataSets(t)[b] = {} /\ HeldSets(t)[b] = {}
        BY <1>7, <1>8, WriteListSets
    <2>. QED
        BY <1>10, <2>1, <2>2, TwoSteps
<1>13. Fixes(r, ListSets(d), o.names)
    <2>1. ListSets(d)[b] = {o.names}
        <3>1. PICK l : l = o.names
            OBVIOUS
        <3>2. b = <<"list", d, l>>
            BY <1>7, <3>1
        <3>3. ListSets(d)[b] = {l}
            BY <1>8, <3>2, WriteListSets
        <3>. QED
            BY <3>1, <3>3
    <2>2. \A E, x : E[b] = {x} => Fixes(<<a, b>>, E, x)
        BY TwoSteps, Zenon
    <2>3. Fixes(<<a, b>>, ListSets(d), o.names)
        BY <2>1, <2>2, Zenon
    <2>. QED
        BY <1>10, <2>3
<1>14. p \o r \in Seq(Work(d))
    BY ConcatProperties
<1>15. Fixes(p \o r, ListSets(d), o.names)
    BY <1>13, FixesAfter
<1>16. ASSUME NEW i \in 1 .. n, NEW E, NEW x, Fixes(bs[i], E, x),
              \A j \in 1 .. n : j # i => Idles(bs[j], E), Idles(r, E)
       PROVE  Fixes(p \o r, E, x)
    <2>1. Fixes(p, E, x)
        BY <1>9, <1>16, OnePartFixes
    <2>. QED
        BY <1>16, <2>1, FixesBefore
<1>17. ASSUME NEW E, \A j \in 1 .. n : Idles(bs[j], E), Idles(r, E)
       PROVE  Idles(p \o r, E)
    <2>1. Idles(p, E)
        BY <1>9, <1>17, NoPartLeads
    <2>. QED
        BY <1>17, <2>1, IdlesConcat
<1>18. ASSUME NEW i \in 1 .. n
       PROVE  /\ Fixes(p \o r, HeadSets(o.tables[i].file), "ok")
              /\ o.tables[i].dirty => Fixes(p \o r, HeldSets(o.tables[i].file), o.tables[i].val)
              /\ ~o.tables[i].dirty => Idles(p \o r, HeldSets(o.tables[i].file))
    <2>1. ASSUME NEW j \in 1 .. n, j # i
          PROVE  /\ Idles(bs[j], HeadSets(o.tables[i].file))
                 /\ Idles(bs[j], HeldSets(o.tables[i].file))
        BY <1>2, <1>3, <1>5, <2>1, CloseTableLeads
    <2>2. Fixes(bs[i], HeadSets(o.tables[i].file), "ok")
        BY <1>2, <1>5, CloseTableLeads
    <2>3. Fixes(p \o r, HeadSets(o.tables[i].file), "ok")
        BY <1>12, <1>16, <2>1, <2>2
    <2>4. ASSUME o.tables[i].dirty
          PROVE  Fixes(p \o r, HeldSets(o.tables[i].file), o.tables[i].val)
        <3>1. Fixes(bs[i], HeldSets(o.tables[i].file), o.tables[i].val)
            BY <1>2, <1>5, <2>4, CloseTableLeads
        <3>. QED
            BY <1>12, <1>16, <2>1, <3>1
    <2>5. ASSUME ~o.tables[i].dirty PROVE Idles(p \o r, HeldSets(o.tables[i].file))
        <3>1. Idles(bs[i], HeldSets(o.tables[i].file))
            BY <1>2, <1>5, <2>5, CloseTableLeads
        <3>. QED
            BY <1>12, <1>17, <2>1, <3>1
    <2>. QED
        BY <2>3, <2>4, <2>5
<1>19. ASSUME NEW t, ~In(o.names, t)
       PROVE  Idles(p \o r, HeadSets(t)) /\ Idles(p \o r, HeldSets(t))
    <2>1. \A i \in 1 .. n : o.tables[i].file # t
        BY <1>1, <1>2, <1>19 DEF In
    <2>2. \A i \in 1 .. n : Idles(bs[i], HeadSets(t)) /\ Idles(bs[i], HeldSets(t))
        BY <1>2, <1>5, <2>1, CloseTableLeads
    <2>. QED
        BY <1>12, <1>17, <2>2
<1>20. ASSUME NEW t PROVE Idles(p \o r, DataSets(t))
    <2>1. \A i \in 1 .. n : Idles(bs[i], DataSets(t))
        BY <1>2, <1>5, CloseTableLeads
    <2>. QED
        BY <1>12, <1>17, <2>1
<1>. QED
    BY <1>1, <1>11, <1>14, <1>15, <1>18, <1>19, <1>20

(* Dropping an object removes its list and the files of its tables.        *)
LEMMA DropObjectLeads ==
    ASSUME NEW o, Sound(o)
    PROVE  /\ DropObject(o) \in Seq(Work(o.name))
           /\ Fixes(DropObject(o), ListSets(o.name), Missing)
           /\ \A i \in DOMAIN o.tables :
                 /\ Fixes(DropObject(o), HeadSets(o.tables[i].file), "none")
                 /\ Fixes(DropObject(o), DataSets(o.tables[i].file), FALSE)
           /\ \A t : ~In(o.names, t) => /\ Idles(DropObject(o), HeadSets(t))
                                        /\ Idles(DropObject(o), DataSets(t))
<1>1. PICK d \in Db, n \in Nat :
          /\ d = o.name
          /\ n = Len(o.tables)
          /\ DOMAIN o.names = 1 .. n /\ DOMAIN o.tables = 1 .. n
    BY ObjectTables
<1>2. \A i \in 1 .. n : o.tables[i] \in Managers(d) /\ o.tables[i].file = o.names[i]
    BY <1>1, ObjectTables
<1>3. \A i, j \in 1 .. n : i # j => o.tables[i].file # o.tables[j].file
    BY <1>1, ObjectTables
<1>4. PICK bs \in [1 .. n -> Seq(Work(d))] :
          bs = [i \in DOMAIN o.tables |-> DropTableFiles(o.tables[i])]
    BY <1>1, <1>2, DropTableLeads
<1>5. \A i \in 1 .. n : bs[i] = DropTableFiles(o.tables[i])
    BY <1>1, <1>4
<1>6. PICK a \in Work(d) : a = <<"cut list", d>>
    BY DEF Work
<1>7. PICK b \in Work(d) : b = <<"list", d, <<>> >>
    <2>1. <<>> \in Names(d)
        BY DEF Names, IsInjective
    <2>. QED
        BY <2>1 DEF Work
<1>8. PICK c \in Work(d) : c = <<"remove list", d>>
    BY DEF Work
<1>9. a \in Steps /\ b \in Steps /\ c \in Steps
    BY DEF Steps
<1>10. PICK p \in Seq(Work(d)) : p = FlattenSeq(bs)
    <2>1. ASSUME NEW i \in 1 .. n, NEW k \in DOMAIN bs[i] PROVE bs[i][k] \in Work(d)
        <3>1. bs[i] \in Seq(Work(d))
            OBVIOUS
        <3>. QED
            BY <3>1, LenProperties, ElementOfSeq
    <2>2. FlattenSeq(bs) \in Seq(Work(d))
        BY <2>1, FlattenAll
    <2>. QED
        BY <2>2
<1>11. PICK r \in Seq(Work(d)) : r = <<a, b, c>>
    BY ThreeSteps
<1>12. DropObject(o) = p \o r
    BY <1>1, <1>4, <1>6, <1>7, <1>8, <1>10, <1>11 DEF DropObject
<1>13. ASSUME NEW t
       PROVE  Idles(r, HeadSets(t)) /\ Idles(r, DataSets(t))
    <2>0. ASSUME NEW E, E[a] = {}, E[b] = {}, E[c] = {} PROVE Idles(<<a, b, c>>, E)
        <3>1. \A j \in DOMAIN <<a, b, c>> : j = 1 \/ j = 2 \/ j = 3
            OBVIOUS
        <3>. QED
            BY <2>0, <3>1 DEF Idles
    <2>1. HeadSets(t)[a] = {} /\ DataSets(t)[a] = {}
        BY <1>6, <1>9, CutListSets
    <2>2. HeadSets(t)[b] = {} /\ DataSets(t)[b] = {}
        BY <1>7, <1>9, WriteListSets
    <2>3. HeadSets(t)[c] = {} /\ DataSets(t)[c] = {}
        BY <1>8, <1>9, RemoveListSets
    <2>. QED
        BY <1>11, <2>0, <2>1, <2>2, <2>3
<1>14. Fixes(r, ListSets(d), Missing)
    <2>1. ListSets(d)[c] = {Missing}
        BY <1>8, <1>9, RemoveListSets
    <2>2. \A E, x : E[c] = {x} => Fixes(<<a, b, c>>, E, x)
        BY ThreeSteps, Zenon
    <2>3. Fixes(<<a, b, c>>, ListSets(d), Missing)
        BY <2>1, <2>2, Zenon
    <2>. QED
        BY <1>11, <2>3
<1>15. p \o r \in Seq(Work(d))
    BY ConcatProperties
<1>16. Fixes(p \o r, ListSets(d), Missing)
    BY <1>14, FixesAfter
<1>17. ASSUME NEW i \in 1 .. n, NEW E, NEW x, Fixes(bs[i], E, x),
              \A j \in 1 .. n : j # i => Idles(bs[j], E), Idles(r, E)
       PROVE  Fixes(p \o r, E, x)
    <2>1. Fixes(p, E, x)
        BY <1>10, <1>17, OnePartFixes
    <2>. QED
        BY <1>17, <2>1, FixesBefore
<1>18. ASSUME NEW E, \A j \in 1 .. n : Idles(bs[j], E), Idles(r, E)
       PROVE  Idles(p \o r, E)
    <2>1. Idles(p, E)
        BY <1>10, <1>18, NoPartLeads
    <2>. QED
        BY <1>18, <2>1, IdlesConcat
<1>19. ASSUME NEW i \in 1 .. n
       PROVE  /\ Fixes(p \o r, HeadSets(o.tables[i].file), "none")
              /\ Fixes(p \o r, DataSets(o.tables[i].file), FALSE)
    <2>1. ASSUME NEW j \in 1 .. n, j # i
          PROVE  /\ Idles(bs[j], HeadSets(o.tables[i].file))
                 /\ Idles(bs[j], DataSets(o.tables[i].file))
        BY <1>2, <1>3, <1>5, <2>1, DropTableLeads
    <2>2. /\ Fixes(bs[i], HeadSets(o.tables[i].file), "none")
          /\ Fixes(bs[i], DataSets(o.tables[i].file), FALSE)
        BY <1>2, <1>5, DropTableLeads
    <2>. QED
        BY <1>13, <1>17, <2>1, <2>2
<1>20. ASSUME NEW t, ~In(o.names, t)
       PROVE  Idles(p \o r, HeadSets(t)) /\ Idles(p \o r, DataSets(t))
    <2>1. \A i \in 1 .. n : o.tables[i].file # t
        BY <1>1, <1>2, <1>20 DEF In
    <2>2. \A i \in 1 .. n : Idles(bs[i], HeadSets(t)) /\ Idles(bs[i], DataSets(t))
        BY <1>2, <1>5, <2>1, DropTableLeads
    <2>. QED
        BY <1>13, <1>18, <2>2
<1>. QED
    BY <1>1, <1>12, <1>15, <1>16, <1>19, <1>20

(* The plan for one database sets nothing of another.                      *)
LEMMA ElsewhereIdles ==
    ASSUME NEW d \in Db, NEW s \in Seq(Work(d))
    PROVE  /\ \A t : t \notin Home[d] => /\ Idles(s, HeadSets(t))
                                         /\ Idles(s, DataSets(t))
                                         /\ Idles(s, HeldSets(t))
           /\ \A e : e # d => Idles(s, ListSets(e))
<1>1. ASSUME NEW k \in DOMAIN s PROVE Kind(s[k], d)
    <2>1. s[k] \in Work(d)
        BY LenProperties, ElementOfSeq
    <2>. QED
        BY <2>1, WorkKinds
<1>2. ASSUME NEW t, t \notin Home[d], NEW k \in DOMAIN s
      PROVE  HeadSets(t)[s[k]] = {} /\ DataSets(t)[s[k]] = {} /\ HeldSets(t)[s[k]] = {}
    <2>1. PICK e \in Steps : e = s[k] /\ Kind(e, d)
        BY <1>1 DEF Kind
    <2>2. /\ ~(e[1] = "cut" /\ e[2] = t)
          /\ ~(e[1] = "remove head" /\ e[2] = t)
          /\ ~(e[1] = "remove data" /\ e[2] = t)
          /\ ~(e[1] = "head" /\ e[2].file = t)
          /\ ~(e[1] = "data" /\ e[2].file = t)
        BY <1>2, <2>1 DEF Kind, Managers
    <2>3. HeadSets(t)[e] = {} /\ DataSets(t)[e] = {} /\ HeldSets(t)[e] = {}
        BY <2>2 DEF HeadSets, DataSets, HeldSets
    <2>. QED
        BY <2>1, <2>3
<1>3. ASSUME NEW f, f # d, NEW k \in DOMAIN s
      PROVE  ListSets(f)[s[k]] = {}
    <2>1. PICK e \in Steps : e = s[k] /\ Kind(e, d)
        BY <1>1 DEF Kind
    <2>2. /\ ~(e[1] = "cut list" /\ e[2] = f)
          /\ ~(e[1] = "list" /\ e[2] = f)
          /\ ~(e[1] = "remove list" /\ e[2] = f)
        BY <1>3, <2>1 DEF Kind
    <2>3. ListSets(f)[e] = {}
        BY <2>2 DEF ListSets
    <2>. QED
        BY <2>1, <2>3
<1>. QED
    BY <1>2, <1>3 DEF Idles
-----------------------------------------------------------------------------
(* What the files will hold once the plan has run.                         *)
HeadEnds(t, x) == Leads(todo, HeadSets(t), head[t], x)
DataEnds(t, x) == Leads(todo, DataSets(t), data[t], x)
HeldEnds(t, x) == Leads(todo, HeldSets(t), held[t], x)
ListEnds(d, x) == Leads(todo, ListSets(d), list[d], x)

Typed ==
    /\ list \in [Db -> Seq(Tab) \cup {Missing, Damaged}]
    /\ \A d \in Db : list[d] \in Names(d) \cup {Missing, Damaged}
    /\ head \in [Tab -> {"none", "cut", "ok"}]
    /\ data \in [Tab -> BOOLEAN]
    /\ held \in [Tab -> Value \cup {Junk}]
    /\ cur = NoDb \/ Sound(cur)
    /\ db = NoDb \/ Sound(db)
    /\ todo \in Seq(Steps)
    /\ hurt \subseteq Db

(* A database is opened at the end of a plan, and then it has a list.      *)
TurnsLast == \A k \in DOMAIN todo : todo[k] \in Turns \cup {<<"end">>} => k = Len(todo)

TurnsOpen ==
    \A d \in Db : \A k \in DOMAIN todo :
        todo[k] \in {<<"open", d>>, <<"show", d>>, <<"drop", d>>} =>
            \E l \in Names(d) : ListEnds(d, l)

Openable == Typed /\ TurnsLast /\ TurnsOpen

(* The kinds of steps are apart. *)
LEMMA StepKinds ==
    ASSUME NEW e \in Steps
    PROVE  /\ e[1] \in {"cut", "remove head", "remove data", "head", "data",
                        "cut list", "remove list", "list"}
                => e \notin Turns \cup {<<"leave">>, <<"end">>} /\ \E d \in Db : e \in Work(d)
           /\ e[1] = "open" => \E d \in Db : e = <<"open", d>>
           /\ e[1] = "show" => \E d \in Db : e = <<"show", d>>
           /\ e[1] = "drop" => \E d \in Db : e = <<"drop", d>>
           /\ e[1] = "leave" => e = <<"leave">>
           /\ e[1] = "end" => e = <<"end">>
<1> DEFINE Files == {"cut", "remove head", "remove data", "head", "data",
                     "cut list", "remove list", "list"}
<1>1. ASSUME NEW d \in Db, e \in Work(d) PROVE e[1] \in Files
    BY <1>1, WorkKinds DEF Kind
<1>2. ASSUME e \in Turns
      PROVE  \E d \in Db : \E s \in {"open", "show", "drop"} : e = <<s, d>> /\ e[1] = s
    BY <1>2 DEF Turns
<1>3. <<"leave">>[1] = "leave" /\ <<"end">>[1] = "end"
    OBVIOUS
<1>4. (\E d \in Db : e \in Work(d)) \/ e \in Turns \/ e = <<"leave">> \/ e = <<"end">>
    BY DEF Steps
<1>5. Files \cap {"open", "show", "drop", "leave", "end"} = {}
    OBVIOUS
<1>. HIDE DEF Files
<1>6. e[1] \in Files => e \notin Turns \cup {<<"leave">>, <<"end">>}
    BY <1>2, <1>3, <1>5
<1>7. e[1] \in Files => \E d \in Db : e \in Work(d)
    BY <1>4, <1>6
<1>8. ASSUME e[1] \in {"open", "show", "drop", "leave", "end"}
      PROVE  e \in Turns \/ e = <<"leave">> \/ e = <<"end">>
    BY <1>1, <1>4, <1>5, <1>8
<1>9. ASSUME NEW s \in {"open", "show", "drop"}, e[1] = s PROVE \E d \in Db : e = <<s, d>>
    <2>1. e \in Turns
        BY <1>3, <1>8, <1>9
    <2>. QED
        BY <1>2, <1>9, <2>1
<1>10. e[1] = "leave" => e = <<"leave">>
    BY <1>2, <1>3, <1>8
<1>11. e[1] = "end" => e = <<"end">>
    BY <1>2, <1>3, <1>8
<1>. QED
    BY <1>6, <1>7, <1>9, <1>10, <1>11 DEF Files

(* The first step runs and the others are left. *)
LEMMA Runs ==
    ASSUME Typed, Done
    PROVE  /\ todo # <<>> /\ todo' = Tail(todo) /\ todo' \in Seq(Steps)
           /\ Len(todo) \in Nat /\ DOMAIN todo = 1 .. Len(todo) /\ 1 \in DOMAIN todo
           /\ Head(todo) = todo[1] /\ Head(todo) \in Steps
           /\ Len(todo') = Len(todo) - 1 /\ DOMAIN todo' = 1 .. Len(todo) - 1
           /\ \A k \in DOMAIN todo' : k + 1 \in DOMAIN todo /\ todo'[k] = todo[k + 1]
<1>1. todo # <<>> /\ todo' = Tail(todo) /\ todo \in Seq(Steps)
    BY DEF Done, Idle, Typed
<1>2. /\ Tail(todo) \in Seq(Steps) /\ Len(Tail(todo)) = Len(todo) - 1
      /\ Head(todo) \in Steps
      /\ \A i \in 1 .. Len(Tail(todo)) : Tail(todo)[i] = todo[i + 1]
    BY <1>1, HeadTailProperties
<1>3. /\ Len(todo) \in Nat /\ DOMAIN todo = 1 .. Len(todo) /\ Len(todo) # 0
      /\ Head(todo) = todo[1]
    BY <1>1, LenProperties, EmptySeq
<1>4. DOMAIN Tail(todo) = 1 .. Len(todo) - 1
    BY <1>2, LenProperties
<1>5. \A k \in 1 .. Len(todo) - 1 : k + 1 \in 1 .. Len(todo)
    BY <1>3
<1>. QED
    BY <1>1, <1>2, <1>3, <1>4, <1>5

(* A step that writes or removes a file. *)
FileStep == CutHead \/ WriteHead \/ WriteData \/ WriteList \/ RemoveFile

(* What the step says it sets is what it sets.                             *)
LEMMA FileStepSets ==
    ASSUME Typed, FileStep
    PROVE  /\ Done /\ UNCHANGED <<cur, db, hurt>>
           /\ \E d \in Db : Head(todo) \in Work(d)
           /\ \A t \in Tab :
                /\ \/ HeadSets(t)[Head(todo)] = {} /\ head'[t] = head[t]
                   \/ HeadSets(t)[Head(todo)] = {head'[t]}
                /\ \/ DataSets(t)[Head(todo)] = {} /\ data'[t] = data[t]
                   \/ DataSets(t)[Head(todo)] = {FALSE} /\ data'[t] = FALSE
                /\ \/ HeldSets(t)[Head(todo)] = {} /\ held'[t] = held[t]
                   \/ HeldSets(t)[Head(todo)] = {held'[t]}
           /\ \A d \in Db :
                \/ ListSets(d)[Head(todo)] = {} /\ list'[d] = list[d]
                \/ ListSets(d)[Head(todo)] = {list'[d]}
<1>1. /\ head \in [Tab -> {"none", "cut", "ok"}] /\ data \in [Tab -> BOOLEAN]
      /\ held \in [Tab -> Value \cup {Junk}]
      /\ list \in [Db -> Seq(Tab) \cup {Missing, Damaged}]
    BY DEF Typed
<1>2. Done /\ UNCHANGED <<cur, db, hurt>>
    BY DEF FileStep, CutHead, WriteHead, WriteData, WriteList, RemoveFile
<1>3. PICK e \in Steps : e = Head(todo)
    BY <1>2, Runs
<1>4. CASE CutHead
    <2>1. /\ e[1] = "cut" /\ head' = [head EXCEPT ![e[2]] = "cut"]
          /\ UNCHANGED <<list, data, held>>
        BY <1>3, <1>4 DEF CutHead, Do, Arg
    <2>2. ASSUME NEW t
          PROVE  /\ HeadSets(t)[e] = (IF e[2] = t THEN {"cut"} ELSE {})
                 /\ DataSets(t)[e] = {} /\ HeldSets(t)[e] = {} /\ ListSets(t)[e] = {}
        BY <2>1 DEF HeadSets, DataSets, HeldSets, ListSets
    <2>3. \E d \in Db : e \in Work(d)
        BY <2>1, StepKinds
    <2>4. \A t \in Tab : \/ HeadSets(t)[e] = {} /\ head'[t] = head[t]
                         \/ HeadSets(t)[e] = {head'[t]}
        BY <1>1, <2>1, <2>2
    <2>. QED
        BY <1>2, <1>3, <2>1, <2>2, <2>3, <2>4
<1>5. CASE WriteHead
    <2>1. /\ e[1] = "head" /\ head' = [head EXCEPT ![e[2].file] = "ok"]
          /\ held' = IF e[2].dirty THEN [held EXCEPT ![e[2].file] = Junk] ELSE held
          /\ UNCHANGED <<list, data>>
        BY <1>3, <1>5 DEF WriteHead, Do, Arg
    <2>2. ASSUME NEW t
          PROVE  /\ HeadSets(t)[e] = (IF e[2].file = t THEN {"ok"} ELSE {})
                 /\ DataSets(t)[e] = {} /\ ListSets(t)[e] = {}
                 /\ HeldSets(t)[e] = (IF e[2].file = t /\ e[2].dirty THEN {Junk} ELSE {})
        BY <2>1 DEF HeadSets, DataSets, HeldSets, ListSets
    <2>3. \E d \in Db : e \in Work(d)
        BY <2>1, StepKinds
    <2>4. \A t \in Tab : \/ HeadSets(t)[e] = {} /\ head'[t] = head[t]
                         \/ HeadSets(t)[e] = {head'[t]}
        BY <1>1, <2>1, <2>2
    <2>5. \A t \in Tab : \/ HeldSets(t)[e] = {} /\ held'[t] = held[t]
                         \/ HeldSets(t)[e] = {held'[t]}
        BY <1>1, <2>1, <2>2
    <2>. QED
        BY <1>2, <1>3, <2>1, <2>2, <2>3, <2>4, <2>5
<1>6. CASE WriteData
    <2>1. /\ e[1] = "data"
          /\ held' = IF e[2].dirty THEN [held EXCEPT ![e[2].file] = e[2].val] ELSE held
          /\ UNCHANGED <<list, head, data>>
        BY <1>3, <1>6 DEF WriteData, Do, Arg
    <2>2. ASSUME NEW t
          PROVE  /\ HeadSets(t)[e] = {} /\ DataSets(t)[e] = {} /\ ListSets(t)[e] = {}
                 /\ HeldSets(t)[e] = (IF e[2].file = t /\ e[2].dirty THEN {e[2].val} ELSE {})
        BY <2>1 DEF HeadSets, DataSets, HeldSets, ListSets
    <2>3. \E d \in Db : e \in Work(d)
        BY <2>1, StepKinds
    <2>4. \A t \in Tab : \/ HeldSets(t)[e] = {} /\ held'[t] = held[t]
                         \/ HeldSets(t)[e] = {held'[t]}
        BY <1>1, <2>1, <2>2
    <2>. QED
        BY <1>2, <1>3, <2>1, <2>2, <2>3, <2>4
<1>7. CASE WriteList
    <2>1. /\ \/ e[1] = "cut list" /\ list' = [list EXCEPT ![e[2]] = Damaged]
             \/ e[1] = "list" /\ list' = [list EXCEPT ![e[2]] = e[3]]
          /\ UNCHANGED <<head, data, held>>
        BY <1>3, <1>7 DEF WriteList, Do, Arg
    <2>2. ASSUME NEW t PROVE HeadSets(t)[e] = {} /\ DataSets(t)[e] = {} /\ HeldSets(t)[e] = {}
        BY <2>1 DEF HeadSets, DataSets, HeldSets
    <2>3. \E d \in Db : e \in Work(d)
        BY <2>1, StepKinds
    <2>4. ASSUME NEW d \in Db
          PROVE  \/ ListSets(d)[e] = {} /\ list'[d] = list[d]
                 \/ ListSets(d)[e] = {list'[d]}
        BY <1>1, <2>1 DEF ListSets
    <2>. QED
        BY <1>2, <1>3, <2>1, <2>2, <2>3, <2>4
<1>8. CASE RemoveFile
    <2>1. CASE Do("remove head")
        <3>1. /\ e[1] = "remove head" /\ head' = [head EXCEPT ![e[2]] = "none"]
              /\ UNCHANGED <<list, data, held>>
            BY <1>3, <1>8, <2>1 DEF RemoveFile, Do, Arg
        <3>2. ASSUME NEW t
              PROVE  /\ HeadSets(t)[e] = (IF e[2] = t THEN {"none"} ELSE {})
                     /\ DataSets(t)[e] = {} /\ HeldSets(t)[e] = {} /\ ListSets(t)[e] = {}
            BY <3>1 DEF HeadSets, DataSets, HeldSets, ListSets
        <3>3. \E d \in Db : e \in Work(d)
            BY <3>1, StepKinds
        <3>4. \A t \in Tab : \/ HeadSets(t)[e] = {} /\ head'[t] = head[t]
                             \/ HeadSets(t)[e] = {head'[t]}
            BY <1>1, <3>1, <3>2
        <3>. QED
            BY <1>2, <1>3, <3>1, <3>2, <3>3, <3>4
    <2>2. CASE Do("remove data")
        <3>1. /\ e[1] = "remove data" /\ data' = [data EXCEPT ![e[2]] = FALSE]
              /\ UNCHANGED <<list, head, held>>
            BY <1>3, <1>8, <2>2 DEF RemoveFile, Do, Arg
        <3>2. ASSUME NEW t
              PROVE  /\ DataSets(t)[e] = (IF e[2] = t THEN {FALSE} ELSE {})
                     /\ HeadSets(t)[e] = {} /\ HeldSets(t)[e] = {} /\ ListSets(t)[e] = {}
            BY <3>1 DEF HeadSets, DataSets, HeldSets, ListSets
        <3>3. \E d \in Db : e \in Work(d)
            BY <3>1, StepKinds
        <3>4. \A t \in Tab : \/ DataSets(t)[e] = {} /\ data'[t] = data[t]
                             \/ DataSets(t)[e] = {FALSE} /\ data'[t] = FALSE
            BY <1>1, <3>1, <3>2
        <3>. QED
            BY <1>2, <1>3, <3>1, <3>2, <3>3, <3>4
    <2>3. CASE Do("remove list")
        <3>1. /\ e[1] = "remove list" /\ list' = [list EXCEPT ![e[2]] = Missing]
              /\ UNCHANGED <<head, data, held>>
            BY <1>3, <1>8, <2>3 DEF RemoveFile, Do, Arg
        <3>2. ASSUME NEW t
              PROVE  /\ ListSets(t)[e] = (IF e[2] = t THEN {Missing} ELSE {})
                     /\ HeadSets(t)[e] = {} /\ HeldSets(t)[e] = {} /\ DataSets(t)[e] = {}
            BY <3>1 DEF HeadSets, DataSets, HeldSets, ListSets
        <3>3. \E d \in Db : e \in Work(d)
            BY <3>1, StepKinds
        <3>4. \A d \in Db : \/ ListSets(d)[e] = {} /\ list'[d] = list[d]
                            \/ ListSets(d)[e] = {list'[d]}
            BY <1>1, <3>1, <3>2
        <3>. QED
            BY <1>2, <1>3, <3>1, <3>2, <3>3, <3>4
    <2>. QED
        BY <1>8, <2>1, <2>2, <2>3 DEF RemoveFile
<1>. QED
    BY <1>4, <1>5, <1>6, <1>7, <1>8 DEF FileStep

(* Running the first step does not change where the plan leads.            *)
LEMMA EndsKept ==
    ASSUME Typed, Done,
           \A t \in Tab :
                /\ \/ HeadSets(t)[Head(todo)] = {} /\ head'[t] = head[t]
                   \/ HeadSets(t)[Head(todo)] = {head'[t]}
                /\ \/ DataSets(t)[Head(todo)] = {} /\ data'[t] = data[t]
                   \/ DataSets(t)[Head(todo)] = {FALSE} /\ data'[t] = FALSE
                /\ \/ HeldSets(t)[Head(todo)] = {} /\ held'[t] = held[t]
                   \/ HeldSets(t)[Head(todo)] = {held'[t]},
           \A d \in Db :
                \/ ListSets(d)[Head(todo)] = {} /\ list'[d] = list[d]
                \/ ListSets(d)[Head(todo)] = {list'[d]}
    PROVE  /\ \A t \in Tab : \A x : /\ HeadEnds(t, x) => HeadEnds(t, x)'
                                    /\ DataEnds(t, x) => DataEnds(t, x)'
                                    /\ HeldEnds(t, x) => HeldEnds(t, x)'
           /\ \A d \in Db : \A x : ListEnds(d, x) => ListEnds(d, x)'
<1>1. PICK s \in Seq(Steps) : s = todo /\ s # <<>> /\ todo' = Tail(s) /\ Head(s) = Head(todo)
    BY Runs DEF Typed
<1>2. ASSUME NEW t \in Tab, NEW x, HeadEnds(t, x) PROVE HeadEnds(t, x)'
    <2>1. Leads(s, HeadSets(t), head[t], x)
        BY <1>1, <1>2 DEF HeadEnds
    <2>2. Leads(Tail(s), HeadSets(t), head'[t], x)
        BY <1>1, <2>1, LeadsTail
    <2>. QED
        BY <1>1, <2>2 DEF HeadEnds
<1>3. ASSUME NEW t \in Tab, NEW x, HeldEnds(t, x) PROVE HeldEnds(t, x)'
    <2>1. Leads(s, HeldSets(t), held[t], x)
        BY <1>1, <1>3 DEF HeldEnds
    <2>2. Leads(Tail(s), HeldSets(t), held'[t], x)
        BY <1>1, <2>1, LeadsTail
    <2>. QED
        BY <1>1, <2>2 DEF HeldEnds
<1>4. ASSUME NEW t \in Tab, NEW x, DataEnds(t, x) PROVE DataEnds(t, x)'
    <2>1. Leads(s, DataSets(t), data[t], x)
        BY <1>1, <1>4 DEF DataEnds
    <2>2. PICK v, w : v = data[t] /\ w = data'[t]
        OBVIOUS
    <2>3. (DataSets(t)[Head(s)] = {} /\ w = v) \/ DataSets(t)[Head(s)] = {w}
        BY <1>1, <2>2
    <2>4. Leads(s, DataSets(t), v, x)
        BY <2>1, <2>2
    <2>5. Leads(Tail(s), DataSets(t), w, x)
        BY <1>1, <2>3, <2>4, LeadsTail
    <2>. QED
        BY <1>1, <2>2, <2>5 DEF DataEnds
<1>5. ASSUME NEW d \in Db, NEW x, ListEnds(d, x) PROVE ListEnds(d, x)'
    <2>1. Leads(s, ListSets(d), list[d], x)
        BY <1>1, <1>5 DEF ListEnds
    <2>2. Leads(Tail(s), ListSets(d), list'[d], x)
        BY <1>1, <2>1, LeadsTail
    <2>. QED
        BY <1>1, <2>2 DEF ListEnds
<1>. QED
    BY <1>2, <1>3, <1>4, <1>5

(* The steps before the last one. *)
Plain == (UNION {Work(d) : d \in Db}) \cup {<<"leave">>}

(* A plan, and the same with one more step.                                *)
LEMMA PlanThen ==
    ASSUME NEW p \in Seq(Plain), NEW e \in Steps
    PROVE  /\ p \in Seq(Steps) /\ p \o <<e>> \in Seq(Steps)
           /\ Len(p \o <<e>>) \in DOMAIN (p \o <<e>>)
           /\ (p \o <<e>>)[Len(p \o <<e>>)] = e
           /\ \A k \in DOMAIN (p \o <<e>>) :
                \/ k = Len(p \o <<e>>)
                \/ k \in DOMAIN p /\ (p \o <<e>>)[k] = p[k] /\ p[k] \in Plain
<1>1. Plain \subseteq Steps
    BY DEF Plain, Steps
<1>2. p \in Seq(Steps)
    BY <1>1
<1>3. <<e>> \in Seq(Steps) /\ Len(<<e>>) = 1 /\ DOMAIN <<e>> = 1 .. 1 /\ <<e>>[1] = e
    OBVIOUS
<1>4. PICK r \in Seq(Steps) : r = <<e>> /\ Len(r) = 1 /\ DOMAIN r = 1 .. 1 /\ r[1] = e
    BY <1>3
<1>5. p \o r \in Seq(Steps) /\ Len(p \o r) = Len(p) + 1 /\ Len(p) \in Nat
    BY <1>2, <1>4, ConcatProperties, LenProperties
<1>6. DOMAIN (p \o r) = 1 .. Len(p) + 1 /\ (p \o r)[Len(p) + 1] = e
    <2>1. 1 \in DOMAIN r
        BY <1>4
    <2>. QED
        BY <1>2, <1>4, <1>5, <2>1, InConcat
<1>7. ASSUME NEW k \in DOMAIN (p \o r), k # Len(p) + 1
      PROVE  k \in DOMAIN p /\ (p \o r)[k] = p[k] /\ p[k] \in Plain
    <2>1. k \in DOMAIN p
        BY <1>2, <1>5, <1>6, <1>7, LenProperties
    <2>2. (p \o r)[k] = p[k]
        BY <1>2, <2>1, InConcat
    <2>3. p[k] \in Plain
        BY <2>1, LenProperties, ElementOfSeq
    <2>. QED
        BY <2>1, <2>2, <2>3
<1>. QED
    BY <1>2, <1>4, <1>5, <1>6, <1>7

(* Plain steps neither open a database nor end a statement. *)
LEMMA PlainSteps ==
    ASSUME NEW e \in Plain
    PROVE  e \in Steps /\ e \notin Turns \cup {<<"end">>}
<1>1. e \in Steps
    BY DEF Plain, Steps
<1>2. CASE \E d \in Db : e \in Work(d)
    <2>1. PICK d \in Db : e \in Work(d)
        BY <1>2
    <2>2. Kind(e, d)
        BY <2>1, WorkKinds
    <2>3. e[1] \in {"cut", "remove head", "remove data", "head", "data",
                    "cut list", "remove list", "list"}
        BY <2>2 DEF Kind
    <2>. QED
        BY <1>1, <2>3, StepKinds
<1>3. CASE e = <<"leave">>
    <2>1. e[1] = "leave" /\ <<"end">>[1] = "end"
        BY <1>3
    <2>2. \A d \in Db : /\ e # <<"open", d>> /\ e # <<"show", d>> /\ e # <<"drop", d>>
        <3>1. \A d \in Db : /\ <<"open", d>>[1] = "open" /\ <<"show", d>>[1] = "show"
                            /\ <<"drop", d>>[1] = "drop"
            OBVIOUS
        <3>. QED
            BY <2>1, <3>1
    <2>. QED
        BY <1>1, <2>1, <2>2 DEF Turns
<1>. QED
    BY <1>2, <1>3 DEF Plain
-----------------------------------------------------------------------------
(* Database objects.                                                       *)

(* Closing up the gap at i. *)
LEMMA RemovedAt ==
    ASSUME NEW S, NEW s \in Seq(S), NEW i \in DOMAIN s
    PROVE  /\ RemoveAt(s, i) \in Seq(S)
           /\ Len(RemoveAt(s, i)) = Len(s) - 1
           /\ DOMAIN RemoveAt(s, i) = 1 .. Len(s) - 1
           /\ \A k \in 1 .. Len(s) - 1 :
                 RemoveAt(s, i)[k] = IF k < i THEN s[k] ELSE s[k + 1]
<1>1. Len(s) \in Nat /\ DOMAIN s = 1 .. Len(s) /\ i \in 1 .. Len(s)
    BY LenProperties
<1>2. PICK a \in Seq(S) : /\ a = SubSeq(s, 1, i - 1)
                          /\ Len(a) = i - 1
                          /\ DOMAIN a = 1 .. i - 1
                          /\ \A k \in 1 .. i - 1 : a[k] = s[k]
    <2>1. 1 \in 1 .. Len(s) + 1 /\ i - 1 \in 1 - 1 .. Len(s)
        BY <1>1
    <2>2. SubSeq(s, 1, i - 1) \in Seq(S)
        BY <1>1
    <2>3. /\ Len(SubSeq(s, 1, i - 1)) = i - 1
          /\ \A k \in 1 .. i - 1 : SubSeq(s, 1, i - 1)[k] = s[k]
        BY <1>1
    <2>. QED
        BY <2>2, <2>3, LenProperties
<1>3. PICK b \in Seq(S) : /\ b = SubSeq(s, i + 1, Len(s))
                          /\ Len(b) = Len(s) - i
                          /\ DOMAIN b = 1 .. Len(s) - i
                          /\ \A k \in 1 .. Len(s) - i : b[k] = s[i + k]
    <2>1. SubSeq(s, i + 1, Len(s)) \in Seq(S)
        BY <1>1
    <2>2. /\ Len(SubSeq(s, i + 1, Len(s))) = Len(s) - i
          /\ \A k \in 1 .. Len(s) - i : SubSeq(s, i + 1, Len(s))[k] = s[i + k]
        BY <1>1
    <2>. QED
        BY <2>1, <2>2, LenProperties
<1>4. RemoveAt(s, i) = a \o b
    BY <1>2, <1>3 DEF RemoveAt
<1>5. /\ a \o b \in Seq(S) /\ Len(a \o b) = Len(s) - 1
      /\ DOMAIN (a \o b) = 1 .. Len(s) - 1
    <2>1. Len(a \o b) = Len(a) + Len(b) /\ a \o b \in Seq(S)
        BY ConcatProperties
    <2>2. Len(a) + Len(b) = Len(s) - 1
        <3>1. Len(a) = i - 1 /\ Len(b) = Len(s) - i /\ i \in Int /\ Len(s) \in Int
            BY <1>1, <1>2, <1>3
        <3>. QED
            BY <3>1
    <2>. QED
        BY <2>1, <2>2, LenProperties
<1>6. ASSUME NEW k \in 1 .. Len(s) - 1
      PROVE  (a \o b)[k] = IF k < i THEN s[k] ELSE s[k + 1]
    <2>1. CASE k < i
        <3>1. k \in DOMAIN a /\ a[k] = s[k]
            BY <1>1, <1>2, <2>1
        <3>2. (a \o b)[k] = a[k]
            BY <3>1, InConcat
        <3>. QED
            BY <2>1, <3>1, <3>2
    <2>2. CASE ~(k < i)
        <3>1. k - (i - 1) \in 1 .. Len(s) - i /\ Len(a) + (k - (i - 1)) = k
              /\ i + (k - (i - 1)) = k + 1
            BY <1>1, <1>2, <2>2
        <3>2. PICK j \in DOMAIN b : b[j] = s[k + 1] /\ Len(a) + j = k
            BY <1>3, <3>1
        <3>3. (a \o b)[Len(a) + j] = b[j]
            BY InConcat
        <3>. QED
            BY <2>2, <3>2, <3>3
    <2>. QED
        BY <2>1, <2>2
<1>. QED
    BY <1>4, <1>5, <1>6

(* A new object. *)
LEMMA NewSound ==
    ASSUME NEW d \in Db
    PROVE  /\ Sound(NewObject(d)) /\ NewObject(d) # NoDb
           /\ NewObject(d).name = d /\ NewObject(d).names = <<>>
           /\ DOMAIN NewObject(d).tables = {}
<1>1. NewObject(d) \in Object
    BY DEF NewObject, Object
<1>2. <<>> \in Names(d)
    BY DEF Names, IsInjective
<1>3. /\ NewObject(d).name = d /\ NewObject(d).names = <<>>
      /\ NewObject(d).tables = <<>>
    BY DEF NewObject
<1>. QED
    BY <1>1, <1>2, <1>3, NoDbAssumption DEF Sound

(* The object open() makes of the files.                                   *)
LEMMA OpenedSound ==
    ASSUME Typed, NEW d \in Db, list[d] \in Names(d)
    PROVE  /\ Sound(OpenedList(d)) /\ OpenedList(d) # NoDb
           /\ OpenedList(d).name = d
           /\ OpenedList(d).names = list[d]
           /\ OpenedList(d).changed = FALSE
           /\ DOMAIN OpenedList(d).tables = DOMAIN list[d]
           /\ \A i \in DOMAIN list[d] : OpenedList(d).tables[i] = Manage(list[d][i])
<1> DEFINE tables == [i \in DOMAIN list[d] |-> Manage(list[d][i])]
<1>1. list[d] \in Seq(Tab) /\ list[d] \in Seq(Home[d])
    <2>1. list[d] \in Seq(Home[d])
        BY DEF Names
    <2>2. Home[d] \subseteq Tab
        BY DEF Tab
    <2>. QED
        BY <2>1, <2>2
<1>2. DOMAIN list[d] = 1 .. Len(list[d]) /\ Len(list[d]) \in Nat
      /\ \A i \in DOMAIN list[d] : list[d][i] \in Tab
    BY <1>1, LenProperties, ElementOfSeq
<1>3. ASSUME NEW t \in Tab PROVE Manage(t) \in Manager /\ Manage(t).file = t
    BY <1>3 DEF Manage, Manager, OnDisk, Typed
<1>4. tables \in Seq(Manager)
    <2>1. tables \in [1 .. Len(list[d]) -> Manager]
        BY <1>2, <1>3
    <2>. QED
        BY <1>2, <2>1, SeqDef
<1>5. DOMAIN tables = DOMAIN list[d] /\ Len(tables) = Len(list[d])
    BY <1>2, <1>4, LenProperties
<1>. HIDE DEF tables
<1>6. OpenedList(d) = [name |-> d, names |-> list[d], tables |-> tables, changed |-> FALSE]
    <2>1. OpenedList(d) = [NewObject(d) EXCEPT !.names = list[d], !.tables = tables]
        BY DEF OpenedList, tables
    <2>. QED
        BY <2>1 DEF NewObject
<1>7. OpenedList(d) \in Object
    BY <1>1, <1>4, <1>6 DEF Object
<1>8. \A i \in DOMAIN list[d] : tables[i] = Manage(list[d][i]) /\ list[d][i] = tables[i].file
    BY <1>2, <1>3 DEF tables
<1>9. /\ OpenedList(d).name = d /\ OpenedList(d).names = list[d] /\ OpenedList(d).tables = tables
      /\ OpenedList(d).changed = FALSE
    BY <1>6
<1>10. Sound(OpenedList(d))
    BY <1>5, <1>7, <1>8, <1>9 DEF Sound
<1>. QED
    BY <1>5, <1>7, <1>8, <1>9, <1>10, NoDbAssumption

(* The plan that closes the database in use. *)
LEMMA ClosePlans ==
    ASSUME Typed
    PROVE  /\ \A o : Sound(o) => CloseObject(o) \in Seq(Plain) /\ DropObject(o) \in Seq(Plain)
           /\ CloseCur \in Seq(Plain)
<1>1. ASSUME NEW o, Sound(o)
      PROVE  CloseObject(o) \in Seq(Plain) /\ DropObject(o) \in Seq(Plain)
    <2>1. o.name \in Db
        BY <1>1, ObjectTables
    <2>2. Work(o.name) \subseteq Plain
        BY <2>1 DEF Plain
    <2>3. CloseObject(o) \in Seq(Work(o.name)) /\ DropObject(o) \in Seq(Work(o.name))
        BY <1>1, CloseObjectLeads, DropObjectLeads
    <2>. QED
        BY <2>2, <2>3
<1>2. CASE cur = NoDb
    BY <1>1, <1>2 DEF CloseCur
<1>3. CASE cur # NoDb
    <2>1. CloseObject(cur) \in Seq(Plain)
        BY <1>1, <1>3 DEF Typed
    <2>2. << <<"leave">> >> \in Seq(Plain)
        BY DEF Plain
    <2>3. CloseCur = CloseObject(cur) \o << <<"leave">> >>
        BY <1>3 DEF CloseCur
    <2>4. PICK p \in Seq(Plain), r \in Seq(Plain) :
              p = CloseObject(cur) /\ r = << <<"leave">> >>
        BY <2>1, <2>2
    <2>5. p \o r \in Seq(Plain)
        BY ConcatProperties
    <2>. QED
        BY <1>1, <2>3, <2>4, <2>5
<1>. QED
    BY <1>1, <1>2, <1>3

(* A last step that sets nothing changes nothing about a plan.             *)
LEMMA OneMore ==
    ASSUME NEW S, NEW E, NEW p \in Seq(S), NEW e \in S, E[e] = {}
    PROVE  /\ p \o <<e>> \in Seq(S)
           /\ \A x : Fixes(p, E, x) => Fixes(p \o <<e>>, E, x)
           /\ Idles(p, E) => Idles(p \o <<e>>, E)
<1>1. <<e>> \in Seq(S) /\ DOMAIN <<e>> = 1 .. 1 /\ <<e>>[1] = e
    OBVIOUS
<1>2. PICK r \in Seq(S) : r = <<e>> /\ DOMAIN r = 1 .. 1 /\ r[1] = e
    BY <1>1
<1>3. Idles(r, E)
    BY <1>2 DEF Idles
<1>4. p \o r \in Seq(S)
    BY ConcatProperties
<1>. QED
    BY <1>2, <1>3, <1>4, FixesBefore, IdlesConcat

(* Steps that begin or end a turn set nothing. *)
LEMMA TurnSets ==
    ASSUME NEW e \in Steps, e \in Turns \cup {<<"leave">>, <<"end">>}, NEW t
    PROVE  /\ HeadSets(t)[e] = {} /\ DataSets(t)[e] = {} /\ HeldSets(t)[e] = {}
           /\ ListSets(t)[e] = {}
<1>1. e[1] \in {"open", "show", "drop", "leave", "end"}
    <2>1. <<"leave">>[1] = "leave" /\ <<"end">>[1] = "end"
        OBVIOUS
    <2>2. \A d \in Db : /\ <<"open", d>>[1] = "open" /\ <<"show", d>>[1] = "show"
                        /\ <<"drop", d>>[1] = "drop"
        OBVIOUS
    <2>. QED
        BY <2>1, <2>2 DEF Turns
<1>. QED
    BY <1>1 DEF HeadSets, DataSets, HeldSets, ListSets

(* Where the plan that closes the database in use leads.                   *)
LEMMA CloseCurLeads ==
    ASSUME Typed
    PROVE  /\ cur = NoDb => CloseCur = <<>>
           /\ cur # NoDb =>
                /\ Fixes(CloseCur, ListSets(cur.name), cur.names)
                /\ \A i \in DOMAIN cur.tables :
                     /\ Fixes(CloseCur, HeadSets(cur.tables[i].file), "ok")
                     /\ cur.tables[i].dirty =>
                            Fixes(CloseCur, HeldSets(cur.tables[i].file), cur.tables[i].val)
                     /\ ~cur.tables[i].dirty => Idles(CloseCur, HeldSets(cur.tables[i].file))
                /\ \A t : ~In(cur.names, t) => /\ Idles(CloseCur, HeadSets(t))
                                               /\ Idles(CloseCur, HeldSets(t))
                /\ \A t : Idles(CloseCur, DataSets(t))
           /\ \A d : ~InUse(d) => Idles(CloseCur, ListSets(d))
<1>1. CASE cur = NoDb
    BY <1>1 DEF CloseCur, Idles
<1>2. CASE cur # NoDb
    <2>1. Sound(cur) /\ cur.name \in Db
        BY <1>2, ObjectTables DEF Typed
    <2>2. PICK d \in Db : d = cur.name
        BY <2>1
    <2>3. PICK p \in Seq(Work(d)) : p = CloseObject(cur)
        BY <2>1, <2>2, CloseObjectLeads
    <2>4. PICK e \in Steps : e = <<"leave">>
        BY DEF Steps
    <2>5. CloseCur = p \o <<e>>
        BY <1>2, <2>3, <2>4 DEF CloseCur
    <2>6. p \in Seq(Steps)
        BY <2>3 DEF Steps
    <2>7. ASSUME NEW t PROVE HeadSets(t)[e] = {} /\ DataSets(t)[e] = {} /\ HeldSets(t)[e] = {}
                             /\ ListSets(t)[e] = {}
        BY <2>4, TurnSets
    <2>8. ASSUME NEW E, NEW x, E[e] = {}, Fixes(p, E, x) PROVE Fixes(p \o <<e>>, E, x)
        BY <2>6, <2>8, OneMore
    <2>9. ASSUME NEW E, E[e] = {}, Idles(p, E) PROVE Idles(p \o <<e>>, E)
        BY <2>6, <2>9, OneMore
    <2>10. Fixes(p, ListSets(cur.name), cur.names)
        BY <2>1, <2>3, CloseObjectLeads
    <2>11. Fixes(p \o <<e>>, ListSets(cur.name), cur.names)
        BY <2>7, <2>8, <2>10
    <2>12. ASSUME NEW i \in DOMAIN cur.tables
           PROVE  /\ Fixes(p \o <<e>>, HeadSets(cur.tables[i].file), "ok")
                  /\ cur.tables[i].dirty =>
                        Fixes(p \o <<e>>, HeldSets(cur.tables[i].file), cur.tables[i].val)
                  /\ ~cur.tables[i].dirty => Idles(p \o <<e>>, HeldSets(cur.tables[i].file))
        <3>1. Fixes(p, HeadSets(cur.tables[i].file), "ok")
            BY <2>1, <2>3, CloseObjectLeads
        <3>2. cur.tables[i].dirty => Fixes(p, HeldSets(cur.tables[i].file), cur.tables[i].val)
            BY <2>1, <2>3, CloseObjectLeads
        <3>3. ~cur.tables[i].dirty => Idles(p, HeldSets(cur.tables[i].file))
            BY <2>1, <2>3, CloseObjectLeads
        <3>. QED
            BY <2>7, <2>8, <2>9, <3>1, <3>2, <3>3
    <2>13. ASSUME NEW t, ~In(cur.names, t)
           PROVE  Idles(p \o <<e>>, HeadSets(t)) /\ Idles(p \o <<e>>, HeldSets(t))
        <3>1. Idles(p, HeadSets(t)) /\ Idles(p, HeldSets(t))
            BY <2>1, <2>3, <2>13, CloseObjectLeads
        <3>. QED
            BY <2>7, <2>9, <3>1
    <2>14. ASSUME NEW t PROVE Idles(p \o <<e>>, DataSets(t))
        <3>1. Idles(p, DataSets(t))
            BY <2>1, <2>3, CloseObjectLeads
        <3>. QED
            BY <2>7, <2>9, <3>1
    <2>15. ASSUME NEW f, ~InUse(f) PROVE Idles(p \o <<e>>, ListSets(f))
        <3>1. f # d
            BY <1>2, <2>2, <2>15 DEF InUse
        <3>2. Idles(p, ListSets(f))
            BY <3>1, ElsewhereIdles
        <3>. QED
            BY <2>7, <2>9, <3>2
    <2>. QED
        BY <1>2, <2>5, <2>11, <2>12, <2>13, <2>14, <2>15
<1>. QED
    BY <1>1, <1>2

(* A statement's plan: plain steps, or plain steps and one more. *)
LEMMA PlannedPlain ==
    ASSUME todo' \in Seq(Plain)
    PROVE  todo' \in Seq(Steps) /\ TurnsLast' /\ TurnsOpen'
<1>1. \A k \in DOMAIN todo' : todo'[k] \in Plain
    BY LenProperties, ElementOfSeq
<1>2. Plain \subseteq Steps
    BY PlainSteps
<1>3. \A k \in DOMAIN todo' : todo'[k] \notin Turns \cup {<<"end">>}
    BY <1>1, PlainSteps
<1>4. \A d \in Db : <<"open", d>> \in Turns /\ <<"show", d>> \in Turns /\ <<"drop", d>> \in Turns
    BY DEF Turns
<1>5. TurnsLast'
    BY <1>3 DEF TurnsLast
<1>6. TurnsOpen'
    BY <1>3, <1>4 DEF TurnsOpen
<1>. QED
    BY <1>2, <1>5, <1>6

(* A plan of plain steps and a last one. *)
LEMMA PlannedThen ==
    ASSUME NEW p \in Seq(Plain), NEW e \in Steps, todo' = p \o <<e>>
    PROVE  /\ todo' \in Seq(Steps) /\ TurnsLast'
           /\ \A k \in DOMAIN todo' : todo'[k] \in Turns => todo'[k] = e
           /\ \A k \in DOMAIN todo' : k # Len(todo') => todo'[k] \in Plain
<1>1. /\ todo' \in Seq(Steps)
      /\ todo'[Len(todo')] = e
      /\ \A k \in DOMAIN todo' : k = Len(todo') \/ todo'[k] \in Plain
    BY PlanThen
<1>2. \A k \in DOMAIN todo' : k # Len(todo') => todo'[k] \notin Turns \cup {<<"end">>}
    BY <1>1, PlainSteps
<1>. QED
    BY <1>1, <1>2 DEF TurnsLast

(* A plan that ends with opening a database that has a list by then.       *)
LEMMA PlannedTurn ==
    ASSUME Typed, NEW d \in Db, NEW s \in {"open", "show", "drop"},
           NEW p \in Seq(Plain), todo' = p \o << <<s, d>> >>, UNCHANGED list,
           NEW l \in Names(d), Leads(p, ListSets(d), list[d], l)
    PROVE  todo' \in Seq(Steps) /\ TurnsLast' /\ TurnsOpen'
<1>1. PICK e \in Steps : e = <<s, d>> /\ e \in Turns
    BY DEF Steps, Turns
<1>2. todo' = p \o <<e>>
    BY <1>1
<1>3. /\ todo' \in Seq(Steps) /\ TurnsLast'
      /\ \A k \in DOMAIN todo' : todo'[k] \in Turns => todo'[k] = e
    BY <1>2, PlannedThen
<1>4. Leads(todo', ListSets(d), list'[d], l)
    <2>1. ListSets(d)[e] = {}
        BY <1>1, TurnSets
    <2>2. p \in Seq(Steps)
        BY PlanThen
    <2>3. Fixes(p, ListSets(d), l) => Fixes(todo', ListSets(d), l)
        BY <1>2, <2>1, <2>2, OneMore
    <2>4. Idles(p, ListSets(d)) => Idles(todo', ListSets(d))
        BY <1>2, <2>1, <2>2, OneMore
    <2>. QED
        BY <2>3, <2>4 DEF Leads
<1>5. ASSUME NEW f \in Db, NEW k \in DOMAIN todo',
             todo'[k] \in {<<"open", f>>, <<"show", f>>, <<"drop", f>>}
      PROVE  \E m \in Names(f) : Leads(todo', ListSets(f), list'[f], m)
    <2>1. todo'[k] \in Turns
        BY <1>5 DEF Turns
    <2>2. e \in {<<"open", f>>, <<"show", f>>, <<"drop", f>>}
        BY <1>3, <1>5, <2>1
    <2>3. f = d
        BY <1>1, <2>2
    <2>. QED
        BY <1>4, <2>3
<1>6. TurnsOpen'
    BY <1>5 DEF TurnsOpen, ListEnds
<1>. QED
    BY <1>3, <1>6

(* When a database is opened the plan has nothing else to do.              *)
LEMMA TurnComes ==
    ASSUME Openable, NEW s \in {"open", "show", "drop"}, Do(s)
    PROVE  /\ DOMAIN todo = {1} /\ Len(todo) = 1 /\ Arg \in Db /\ todo[1] = <<s, Arg>>
           /\ list[Arg] \in Names(Arg)
           /\ \A t : /\ Idles(todo, HeadSets(t)) /\ Idles(todo, DataSets(t))
                     /\ Idles(todo, HeldSets(t)) /\ Idles(todo, ListSets(t))
<1>1. /\ todo \in Seq(Steps) /\ todo # <<>> /\ Head(todo)[1] = s
      /\ Head(todo) \in Steps /\ Head(todo) = todo[1]
      /\ Len(todo) \in Nat /\ DOMAIN todo = 1 .. Len(todo) /\ 1 \in DOMAIN todo
    <2>1. todo \in Seq(Steps) /\ todo # <<>> /\ Head(todo)[1] = s
        BY DEF Openable, Typed, Do
    <2>2. Head(todo) \in Steps
        BY <2>1, HeadTailProperties
    <2>3. Len(todo) \in Nat /\ DOMAIN todo = 1 .. Len(todo) /\ Len(todo) # 0
        BY <2>1, LenProperties, EmptySeq
    <2>. QED
        BY <2>1, <2>2, <2>3
<1>2. PICK d \in Db : Head(todo) = <<s, d>>
    BY <1>1, StepKinds
<1>3. Arg = d /\ todo[1] = <<s, d>>
    BY <1>1, <1>2 DEF Arg
<1>4. <<s, d>> \in Turns /\ <<s, d>> \in Steps
    BY DEF Turns, Steps
<1>5. Len(todo) = 1 /\ DOMAIN todo = {1}
    <2>1. 1 = Len(todo)
        BY <1>1, <1>3, <1>4 DEF Openable, TurnsLast
    <2>2. DOMAIN todo = 1 .. 1
        BY <1>1, <2>1
    <2>3. 1 .. 1 = {1}
        OBVIOUS
    <2>. QED
        BY <2>1, <2>2, <2>3
<1>6. \A t : /\ Idles(todo, HeadSets(t)) /\ Idles(todo, DataSets(t))
             /\ Idles(todo, HeldSets(t)) /\ Idles(todo, ListSets(t))
    BY <1>3, <1>4, <1>5, TurnSets DEF Idles
<1>7. PICK l \in Names(d) : ListEnds(d, l)
    <2>1. todo[1] \in {<<"open", d>>, <<"show", d>>, <<"drop", d>>}
        BY <1>3
    <2>2. TurnsOpen
        BY DEF Openable
    <2>. QED
        BY <1>1, <2>1, <2>2 DEF TurnsOpen
<1>8. l = list[d]
    BY <1>6, <1>7, LeadsIdle DEF ListEnds
<1>. QED
    BY <1>1, <1>3, <1>5, <1>6, <1>7, <1>8

(* Then its list is read. *)
LEMMA ListedOpens ==
    ASSUME Openable
    PROVE  (OpenCur => OpensCur) /\ (OpenSecond => OpensSecond)
<1>1. ASSUME NEW s \in {"open", "show", "drop"}, Do(s)
      PROVE  Read(Arg) = {[name |-> Arg, names |-> list[Arg]]}
    <2>1. list[Arg] \in Seq(Tab)
        <3>1. Arg \in Db /\ list[Arg] \in Seq(Home[Arg])
            BY <1>1, TurnComes DEF Names
        <3>2. Home[Arg] \subseteq Tab
            BY <3>1 DEF Tab
        <3>. QED
            BY <3>1, <3>2
    <2>2. IsList(Arg)
        BY <2>1, CatalogAssumption DEF IsList
    <2>. QED
        BY <2>2 DEF Read
<1>2. ASSUME NEW info, info = [name |-> Arg, names |-> list[Arg]]
      PROVE  /\ OpenFiles(info.names) => FilesOpen(Arg)
             /\ Opened(info) = OpenedList(Arg)
    <2>1. info.name = Arg /\ info.names = list[Arg]
        BY <1>2
    <2>2. \A t : t \in Range(info.names) <=> t \in Listed(Arg)
        BY <2>1 DEF Range, Listed
    <2>3. OpenFiles(info.names) => FilesOpen(Arg)
        BY <2>2 DEF OpenFiles, FilesOpen
    <2>4. Opened(info) = OpenedList(Arg)
        BY <2>1 DEF Opened, OpenedList
    <2>. QED
        BY <2>3, <2>4
<1>3. ASSUME OpenCur PROVE OpensCur
    <2>1. Do("open") /\ Done /\ UNCHANGED <<db, hurt>>
        BY <1>3 DEF OpenCur
    <2>2. PICK info \in Read(Arg) : OpenFiles(info.names) /\ cur' = Opened(info)
        BY <1>3 DEF OpenCur
    <2>3. info = [name |-> Arg, names |-> list[Arg]]
        BY <1>1, <2>1, <2>2
    <2>4. FilesOpen(Arg) /\ cur' = OpenedList(Arg)
        BY <1>2, <2>2, <2>3
    <2>. QED
        BY <2>1, <2>4 DEF OpensCur
<1>4. ASSUME OpenSecond PROVE OpensSecond
    <2>1. /\ Do("show") \/ Do("drop")
          /\ todo' = (IF Do("show") THEN CloseObject(db') ELSE DropObject(db'))
                        \o << <<"end">> >>
          /\ UNCHANGED <<cur, hurt>>
        BY <1>4 DEF OpenSecond
    <2>2. PICK info \in Read(Arg) : OpenFiles(info.names) /\ db' = Opened(info)
        BY <1>4 DEF OpenSecond
    <2>3. info = [name |-> Arg, names |-> list[Arg]]
        BY <1>1, <2>1, <2>2
    <2>4. FilesOpen(Arg) /\ db' = OpenedList(Arg)
        BY <1>2, <2>2, <2>3
    <2>. QED
        BY <2>1, <2>4 DEF OpensSecond
<1>. QED
    BY <1>3, <1>4

(* The rest of a plan keeps its order. *)
LEMMA TailLast ==
    ASSUME Typed, TurnsLast, Done
    PROVE  TurnsLast'
<1>1. /\ Len(todo) \in Nat /\ DOMAIN todo = 1 .. Len(todo)
      /\ Len(todo') = Len(todo) - 1 /\ DOMAIN todo' = 1 .. Len(todo) - 1
      /\ \A k \in DOMAIN todo' : k + 1 \in DOMAIN todo /\ todo'[k] = todo[k + 1]
    BY Runs
<1>2. ASSUME NEW k \in DOMAIN todo', todo'[k] \in Turns \cup {<<"end">>}
      PROVE  k = Len(todo')
    <2>1. k + 1 = Len(todo) /\ k \in Int
        BY <1>1, <1>2 DEF TurnsLast
    <2>. QED
        BY <1>1, <2>1
<1>. QED
    BY <1>2 DEF TurnsLast

(* A step on the files keeps the types. *)
LEMMA FileStepTypes ==
    ASSUME Typed, FileStep
    PROVE  Typed'
<1>1. /\ head \in [Tab -> {"none", "cut", "ok"}] /\ data \in [Tab -> BOOLEAN]
      /\ held \in [Tab -> Value \cup {Junk}]
      /\ list \in [Db -> Seq(Tab) \cup {Missing, Damaged}]
      /\ \A f \in Db : list[f] \in Names(f) \cup {Missing, Damaged}
    BY DEF Typed
<1>2. PICK d \in Db : Head(todo) \in Work(d)
    BY FileStepSets
<1>3. PICK e \in Steps : e = Head(todo) /\ Kind(e, d)
    BY <1>2, WorkKinds DEF Kind
<1>4. Done /\ UNCHANGED <<cur, db, hurt>> /\ todo' \in Seq(Steps)
    BY FileStepSets, Runs
<1>5. head' \in [Tab -> {"none", "cut", "ok"}]
    BY <1>1 DEF FileStep, CutHead, WriteHead, WriteData, WriteList, RemoveFile
<1>6. data' \in [Tab -> BOOLEAN]
    BY <1>1 DEF FileStep, CutHead, WriteHead, WriteData, WriteList, RemoveFile
<1>7. held' \in [Tab -> Value \cup {Junk}]
    <2>1. CASE WriteHead
        BY <1>1, <2>1 DEF WriteHead
    <2>2. CASE WriteData
        <3>1. e[1] = "data" /\ Arg = e[2]
            BY <1>3, <2>2 DEF WriteData, Do, Arg
        <3>2. Arg.val \in Value \cup {Junk}
            BY <1>3, <3>1 DEF Kind, Managers
        <3>. QED
            BY <1>1, <2>2, <3>2 DEF WriteData
    <2>3. CASE CutHead \/ WriteList \/ RemoveFile
        BY <1>1, <2>3 DEF CutHead, WriteList, RemoveFile
    <2>. QED
        BY <2>1, <2>2, <2>3 DEF FileStep
<1>8. Names(d) \subseteq Seq(Tab)
    BY DEF Names, Tab
<1>9. /\ list' \in [Db -> Seq(Tab) \cup {Missing, Damaged}]
      /\ \A f \in Db : list'[f] \in Names(f) \cup {Missing, Damaged}
    <2>1. CASE WriteList
        <3>1. e[1] \in {"cut list", "list"} /\ Arg = e[2] /\ Head(todo)[3] = e[3]
            BY <1>3, <2>1 DEF WriteList, Do, Arg
        <3>2. Arg = d /\ (e[1] = "list" => e[3] \in Names(d))
            BY <1>3, <3>1 DEF Kind
        <3>3. \/ list' = [list EXCEPT ![d] = Damaged]
              \/ e[1] = "list" /\ list' = [list EXCEPT ![d] = e[3]]
            BY <1>3, <2>1, <3>1, <3>2 DEF WriteList, Do
        <3>. QED
            BY <1>1, <1>8, <3>2, <3>3
    <2>2. CASE RemoveFile
        <3>1. list' = list \/ list' = [list EXCEPT ![Arg] = Missing]
            BY <2>2 DEF RemoveFile
        <3>. QED
            BY <1>1, <3>1
    <2>3. CASE CutHead \/ WriteHead \/ WriteData
        BY <1>1, <2>3 DEF CutHead, WriteHead, WriteData
    <2>. QED
        BY <2>1, <2>2, <2>3 DEF FileStep
<1>. QED
    BY <1>4, <1>5, <1>6, <1>7, <1>9 DEF Typed

(* Opening tables creates the data files that are missing. *)
LEMMA FilesOpened ==
    ASSUME Typed, NEW d \in Db, FilesOpen(d)
    PROVE  /\ data' \in [Tab -> BOOLEAN] /\ held' \in [Tab -> Value \cup {Junk}]
           /\ UNCHANGED <<list, head>>
           /\ \A t \in Tab : /\ data'[t] = (data[t] \/ t \in Listed(d))
                             /\ held'[t] = IF t \in Listed(d) THEN OnDisk(t) ELSE held[t]
<1>1. \A t \in Tab : OnDisk(t) \in Value \cup {Junk} /\ held[t] \in Value \cup {Junk}
    BY DEF Typed, OnDisk
<1>2. \A t \in Tab : (data[t] \/ t \in Listed(d)) \in BOOLEAN
    OBVIOUS
<1>3. /\ data' = [t \in Tab |-> data[t] \/ t \in Listed(d)]
      /\ held' = [t \in Tab |-> IF t \in Listed(d) THEN OnDisk(t) ELSE held[t]]
      /\ UNCHANGED <<list, head>>
    BY DEF FilesOpen
<1>4. data' \in [Tab -> BOOLEAN]
    BY <1>2, <1>3
<1>5. held' \in [Tab -> Value \cup {Junk}]
    BY <1>1, <1>3
<1>. QED
    BY <1>3, <1>4, <1>5

(* It holds before the first statement. *)
LEMMA OpenableInit == Init => Openable
<1>. SUFFICES ASSUME Init PROVE Openable
    OBVIOUS
<1>1. Typed
    BY DEF Init, Typed
<1>2. DOMAIN todo = {}
    BY DEF Init
<1>. QED
    BY <1>1, <1>2 DEF Openable, TurnsLast, TurnsOpen

(* The steps of a plan keep the objects sound. *)
LEMMA OpenableStep ==
    ASSUME Openable, Step
    PROVE  Openable'
<1>1. Typed /\ TurnsLast /\ TurnsOpen
    BY DEF Openable
<1>2. CASE FileStep
    <2>1. Done /\ UNCHANGED <<cur, db, hurt>>
        BY <1>1, <1>2, FileStepSets
    <2>2. \A d \in Db : \A x : ListEnds(d, x) => ListEnds(d, x)'
        BY <1>1, <1>2, FileStepSets, EndsKept
    <2>3. \A k \in DOMAIN todo' : k + 1 \in DOMAIN todo /\ todo'[k] = todo[k + 1]
        BY <1>1, <2>1, Runs
    <2>4. ASSUME NEW d \in Db, NEW k \in DOMAIN todo',
                 todo'[k] \in {<<"open", d>>, <<"show", d>>, <<"drop", d>>}
          PROVE  \E l \in Names(d) : ListEnds(d, l)'
        <3>1. PICK l \in Names(d) : ListEnds(d, l)
            BY <1>1, <2>3, <2>4 DEF TurnsOpen
        <3>. QED
            BY <2>2, <3>1
    <2>5. TurnsOpen'
        BY <2>4 DEF TurnsOpen
    <2>6. Typed' /\ TurnsLast'
        BY <1>1, <1>2, <2>1, FileStepTypes, TailLast
    <2>. QED
        BY <2>5, <2>6 DEF Openable
<1>3. CASE OpenCur
    <2>0. OpensCur
        BY <1>3, ListedOpens
    <2>1. Do("open") /\ Done /\ FilesOpen(Arg) /\ cur' = OpenedList(Arg) /\ UNCHANGED <<db, hurt>>
        BY <2>0 DEF OpensCur
    <2>2. Len(todo) = 1 /\ Arg \in Db /\ list[Arg] \in Names(Arg)
        BY <2>1, TurnComes
    <2>3. Sound(OpenedList(Arg))
        BY <1>1, <2>2, OpenedSound
    <2>4. todo' \in Seq(Steps) /\ DOMAIN todo' = 1 .. Len(todo) - 1
        BY <1>1, <2>1, Runs
    <2>5. DOMAIN todo' = {}
        BY <2>2, <2>4
    <2>6. /\ data' \in [Tab -> BOOLEAN] /\ held' \in [Tab -> Value \cup {Junk}]
          /\ UNCHANGED <<list, head>>
        BY <1>1, <2>1, <2>2, FilesOpened
    <2>7. Typed'
        BY <1>1, <2>1, <2>3, <2>4, <2>6 DEF Typed
    <2>. QED
        BY <2>5, <2>7 DEF Openable, TurnsLast, TurnsOpen
<1>4. CASE OpenSecond
    <2>0. OpensSecond
        BY <1>4, ListedOpens
    <2>1. PICK s \in {"show", "drop"} : Do(s)
        BY <2>0 DEF OpensSecond
    <2>2. Len(todo) = 1 /\ Arg \in Db /\ list[Arg] \in Names(Arg)
        BY <2>1, TurnComes
    <2>3. /\ FilesOpen(Arg) /\ db' = OpenedList(Arg) /\ UNCHANGED <<cur, hurt>>
          /\ todo' = (IF Do("show") THEN CloseObject(db') ELSE DropObject(db'))
                        \o << <<"end">> >>
        BY <2>0 DEF OpensSecond
    <2>4. Sound(db')
        BY <1>1, <2>2, <2>3, OpenedSound
    <2>5. PICK p \in Seq(Plain) : todo' = p \o << <<"end">> >>
        BY <1>1, <2>3, <2>4, ClosePlans
    <2>6. PICK e \in Steps : e = <<"end">>
        BY DEF Steps
    <2>7. /\ todo' \in Seq(Steps) /\ TurnsLast'
          /\ \A k \in DOMAIN todo' : todo'[k] \in Turns => todo'[k] = e
        BY <2>5, <2>6, PlannedThen
    <2>8. <<"end">> \notin Turns
        BY StepKinds, <2>6 DEF Turns
    <2>9. TurnsOpen'
        BY <2>6, <2>7, <2>8 DEF TurnsOpen, Turns
    <2>10. /\ data' \in [Tab -> BOOLEAN] /\ held' \in [Tab -> Value \cup {Junk}]
           /\ UNCHANGED <<list, head>>
        BY <1>1, <2>2, <2>3, FilesOpened
    <2>11. Typed'
        BY <1>1, <2>3, <2>4, <2>7, <2>10 DEF Typed
    <2>. QED
        BY <2>7, <2>9, <2>11 DEF Openable
<1>5. CASE Leave
    <2>1. Done /\ UNCHANGED <<files, hurt>>
        BY <1>5 DEF Leave
    <2>2. UNCHANGED <<list, head, data, held>>
        BY <2>1 DEF files
    <2>3. \/ cur' = NoDb /\ db' = db /\ Do("leave")
          \/ db' = NoDb /\ cur' = cur /\ Do("end")
        BY <1>5 DEF Leave
    <2>4. Typed'
        BY <1>1, <2>1, <2>2, <2>3, Runs DEF Typed
    <2>5. Head(todo) \in {<<"leave">>, <<"end">>} /\ Head(todo) \in Steps
        <3>1. Head(todo) \in Steps
            BY <1>1, <2>1, Runs
        <3>. QED
            BY <2>3, <3>1, StepKinds DEF Do
    <2>6. \A t : /\ HeadSets(t)[Head(todo)] = {} /\ DataSets(t)[Head(todo)] = {}
                 /\ HeldSets(t)[Head(todo)] = {} /\ ListSets(t)[Head(todo)] = {}
        BY <2>5, TurnSets
    <2>7. \A d \in Db : \A x : ListEnds(d, x) => ListEnds(d, x)'
        BY <1>1, <2>1, <2>2, <2>6, EndsKept
    <2>8. \A k \in DOMAIN todo' : k + 1 \in DOMAIN todo /\ todo'[k] = todo[k + 1]
        BY <1>1, <2>1, Runs
    <2>9. ASSUME NEW d \in Db, NEW k \in DOMAIN todo',
                 todo'[k] \in {<<"open", d>>, <<"show", d>>, <<"drop", d>>}
          PROVE  \E l \in Names(d) : ListEnds(d, l)'
        <3>1. PICK l \in Names(d) : ListEnds(d, l)
            BY <1>1, <2>8, <2>9 DEF TurnsOpen
        <3>. QED
            BY <2>7, <3>1
    <2>10. TurnsOpen'
        BY <2>9 DEF TurnsOpen
    <2>11. TurnsLast'
        BY <1>1, <2>1, TailLast
    <2>. QED
        BY <2>4, <2>10, <2>11 DEF Openable
<1>. QED
    BY <1>2, <1>3, <1>4, <1>5 DEF Step, FileStep

(* Where closing the database in use leads the list of one to be opened.   *)
LEMMA ClosedThenListed ==
    ASSUME Typed, NEW d \in Db, IsList(d) \/ InUse(d)
    PROVE  \E l \in Names(d) : Leads(CloseCur, ListSets(d), list[d], l)
<1>1. CASE InUse(d)
    <2>1. cur # NoDb /\ cur.name = d /\ cur.names \in Names(d)
        BY <1>1 DEF InUse, Typed, Sound
    <2>2. Fixes(CloseCur, ListSets(d), cur.names)
        BY <2>1, CloseCurLeads
    <2>. QED
        BY <2>1, <2>2 DEF Leads
<1>2. CASE ~InUse(d)
    <2>1. Idles(CloseCur, ListSets(d))
        BY <1>2, CloseCurLeads
    <2>2. list[d] \in Names(d)
        BY <1>2 DEF Typed, IsList
    <2>. QED
        BY <2>1, <2>2 DEF Leads
<1>. QED
    BY <1>1, <1>2

(* Appending to a sequence.                                                *)
Adds(a, S, s, x, n) ==
    /\ a \in Seq(S) /\ Len(a) = n + 1 /\ DOMAIN a = 1 .. n + 1
    /\ \A i \in 1 .. n : a[i] = s[i]
    /\ a[n + 1] = x

(* Append does that. *)
LEMMA Appended ==
    ASSUME NEW S, NEW s \in Seq(S), NEW x \in S
    PROVE  Adds(Append(s, x), S, s, x, Len(s))
<1>1. Append(s, x) \in Seq(S) /\ Len(Append(s, x)) = Len(s) + 1
    BY AppendProperties
<1>2. DOMAIN Append(s, x) = 1 .. Len(s) + 1
    BY <1>1, LenProperties
<1>3. \A i \in 1 .. Len(s) : Append(s, x)[i] = s[i]
    BY AppendProperties
<1>. QED
    BY <1>1, <1>2, <1>3, AppendProperties DEF Adds

(* A table joins an object, and one leaves it.                             *)
Gains(n, o, m) ==
    /\ Sound(n) /\ n.name = o.name /\ n.changed = TRUE
    /\ Len(n.tables) = Len(o.tables) + 1
    /\ \A i \in 1 .. Len(o.tables) : n.names[i] = o.names[i] /\ n.tables[i] = o.tables[i]
    /\ n.names[Len(o.tables) + 1] = m.file
    /\ n.tables[Len(o.tables) + 1] = m

Loses(n, o, k) ==
    /\ Sound(n) /\ n.name = o.name /\ n.changed = TRUE
    /\ Len(n.tables) = Len(o.tables) - 1
    /\ \A i \in 1 .. Len(o.tables) - 1 :
          \E j \in 1 .. Len(o.tables) :
             j # k /\ n.names[i] = o.names[j] /\ n.tables[i] = o.tables[j]
    /\ \A j \in 1 .. Len(o.tables) : j # k =>
          \E i \in 1 .. Len(o.tables) - 1 :
             n.names[i] = o.names[j] /\ n.tables[i] = o.tables[j]

(* CREATE TABLE does the first to an object, DROP TABLE the second. *)
LEMMA ObjectChanges ==
    ASSUME NEW o, Sound(o)
    PROVE  /\ \A m \in Managers(o.name) : m.file \notin {o.names[i] : i \in DOMAIN o.names} =>
                Gains([o EXCEPT !.names = Append(@, m.file),
                                !.tables = Append(@, m),
                                !.changed = TRUE], o, m)
           /\ o = cur => \A k \in DOMAIN o.names :
                Loses([o EXCEPT !.names = NamesClosedUp(k),
                                !.tables = RemoveAt(@, k),
                                !.changed = TRUE], o, k)
<1>1. /\ o.name \in Db /\ Len(o.tables) \in Nat
      /\ DOMAIN o.names = 1 .. Len(o.tables) /\ DOMAIN o.tables = 1 .. Len(o.tables)
      /\ \A i \in 1 .. Len(o.tables) : /\ o.tables[i] \in Managers(o.name)
                                       /\ o.tables[i].file = o.names[i]
    BY ObjectTables
<1>2. /\ o \in [name : Db, names : Seq(Tab), tables : Seq(Manager), changed : BOOLEAN]
      /\ o.names \in Seq(Home[o.name]) /\ IsInjective(o.names)
      /\ Len(o.names) = Len(o.tables)
    BY DEF Sound, Object, Names
<1>3. \A m \in Managers(o.name) : m \in Manager /\ m.file \in Home[o.name] /\ m.file \in Tab
    BY <1>1 DEF Managers, Manager, Tab
<1>4. ASSUME NEW m \in Managers(o.name), m.file \notin {o.names[i] : i \in DOMAIN o.names}
      PROVE  Gains([o EXCEPT !.names = Append(@, m.file),
                             !.tables = Append(@, m),
                             !.changed = TRUE], o, m)
    <2>1. PICK N : N = Len(o.tables) /\ N \in Nat
        BY <1>1
    <2>2. PICK a : /\ a = Append(o.names, m.file) /\ a \in Seq(Home[o.name])
                   /\ Len(a) = N + 1 /\ DOMAIN a = 1 .. N + 1
                   /\ \A i \in 1 .. N : a[i] = o.names[i]
                   /\ a[N + 1] = m.file
        <3>1. m.file \in Home[o.name] /\ Len(o.names) = N
            BY <1>2, <1>3, <2>1
        <3>2. Adds(Append(o.names, m.file), Home[o.name], o.names, m.file, N)
            BY <1>2, <3>1, Appended
        <3>. QED
            BY <1>2, <3>2 DEF Adds
    <2>3. PICK b : /\ b = Append(o.tables, m) /\ b \in Seq(Manager)
                   /\ Len(b) = N + 1 /\ DOMAIN b = 1 .. N + 1
                   /\ \A i \in 1 .. N : b[i] = o.tables[i]
                   /\ b[N + 1] = m
        <3>1. o.tables \in Seq(Manager) /\ m \in Manager
            BY <1>2, <1>3
        <3>2. Adds(Append(o.tables, m), Manager, o.tables, m, N)
            BY <2>1, <3>1, Appended
        <3>. QED
            BY <3>2, Zenon DEF Adds
    <2>4. PICK n : n = [o EXCEPT !.names = a, !.tables = b, !.changed = TRUE]
        OBVIOUS
    <2>5. n.name = o.name /\ n.names = a /\ n.tables = b /\ n.changed = TRUE /\ n \in Object
        <3>1. a \in Seq(Tab)
            <4>1. Home[o.name] \subseteq Tab
                BY <1>1 DEF Tab
            <4>2. a \in Seq(Home[o.name])
                BY <2>2
            <4>. QED
                BY <4>1, <4>2
        <3>2. b \in Seq(Manager)
            BY <2>3
        <3>. QED
            BY <1>2, <2>4, <3>1, <3>2 DEF Object
    <2>6. \A i \in 1 .. N + 1 : i \in 1 .. N \/ i = N + 1
        BY <2>1
    <2>7. \A i \in 1 .. N : a[i] # m.file
        BY <1>1, <1>4, <2>1, <2>2
    <2>8. IsInjective(a)
        <3>1. ASSUME NEW i \in 1 .. N + 1, NEW j \in 1 .. N + 1, a[i] = a[j] PROVE i = j
            <4>1. CASE i \in 1 .. N /\ j \in 1 .. N
                BY <1>1, <1>2, <2>1, <2>2, <3>1, <4>1 DEF IsInjective
            <4>2. CASE i = N + 1 \/ j = N + 1
                BY <2>2, <2>6, <2>7, <3>1, <4>2
            <4>. QED
                BY <2>6, <4>1, <4>2
        <3>. QED
            BY <2>2, <3>1 DEF IsInjective
    <2>9. \A i \in 1 .. N + 1 : a[i] = b[i].file
        BY <1>1, <2>1, <2>2, <2>3, <2>6
    <2>10. Sound(n)
        BY <2>2, <2>3, <2>5, <2>8, <2>9 DEF Sound, Names
    <2>11. n = [o EXCEPT !.names = Append(@, m.file), !.tables = Append(@, m), !.changed = TRUE]
        BY <1>2, <2>2, <2>3, <2>4
    <2>12. Gains(n, o, m)
        BY <2>1, <2>2, <2>3, <2>5, <2>10 DEF Gains
    <2>. QED
        BY <2>11, <2>12
<1>5. ASSUME NEW k \in DOMAIN o.names, o = cur
      PROVE  Loses([o EXCEPT !.names = NamesClosedUp(k),
                             !.tables = RemoveAt(@, k),
                             !.changed = TRUE], o, k)
    <2>1. PICK N : N = Len(o.tables) /\ N \in Nat /\ k \in 1 .. N
        BY <1>1
    <2>2. PICK a \in Seq(Home[o.name]) :
              /\ a = RemoveAt(o.names, k) /\ Len(a) = N - 1 /\ DOMAIN a = 1 .. N - 1
              /\ \A i \in 1 .. N - 1 : a[i] = IF i < k THEN o.names[i] ELSE o.names[i + 1]
        <3>1. PICK S, s : S = Home[o.name] /\ s = o.names /\ s \in Seq(S) /\ Len(s) = N /\ k \in DOMAIN s
            BY <1>2, <2>1
        <3>2. /\ RemoveAt(s, k) \in Seq(S) /\ Len(RemoveAt(s, k)) = N - 1
              /\ DOMAIN RemoveAt(s, k) = 1 .. N - 1
              /\ \A i \in 1 .. N - 1 : RemoveAt(s, k)[i] = IF i < k THEN s[i] ELSE s[i + 1]
            BY <3>1, RemovedAt
        <3>. QED
            BY <3>1, <3>2
    <2>3. PICK b \in Seq(Manager) :
              /\ b = RemoveAt(o.tables, k) /\ Len(b) = N - 1 /\ DOMAIN b = 1 .. N - 1
              /\ \A i \in 1 .. N - 1 : b[i] = IF i < k THEN o.tables[i] ELSE o.tables[i + 1]
        <3>1. o.tables \in Seq(Manager) /\ k \in DOMAIN o.tables
            BY <1>1, <1>2, <2>1
        <3>. QED
            BY <2>1, <3>1, RemovedAt, ZenonT(40)
    <2>4. PICK n : n = [o EXCEPT !.names = a, !.tables = b, !.changed = TRUE]
        OBVIOUS
    <2>5. n.name = o.name /\ n.names = a /\ n.tables = b /\ n.changed = TRUE /\ n \in Object
        <3>1. a \in Seq(Tab)
            <4>1. Home[o.name] \subseteq Tab
                BY <1>1 DEF Tab
            <4>. QED
                BY <4>1
        <3>. QED
            BY <1>2, <2>4, <3>1 DEF Object
    <2>6. \A i \in 1 .. N - 1 : /\ i + 1 \in 1 .. N /\ i \in 1 .. N /\ i \in Int
                                /\ (i < k => i # k) /\ (~(i < k) => i + 1 # k)
        BY <2>1
    <2>7. ASSUME NEW i \in 1 .. N - 1
          PROVE  \E j \in 1 .. N : j # k /\ a[i] = o.names[j] /\ b[i] = o.tables[j]
        <3>1. CASE i < k
            BY <2>2, <2>3, <2>6, <3>1
        <3>2. CASE ~(i < k)
            BY <2>2, <2>3, <2>6, <3>2
        <3>. QED
            BY <3>1, <3>2
    <2>8. ASSUME NEW j \in 1 .. N, j # k
          PROVE  \E i \in 1 .. N - 1 : a[i] = o.names[j] /\ b[i] = o.tables[j]
        <3>1. CASE j < k
            <4>1. j \in 1 .. N - 1
                BY <2>1, <3>1
            <4>. QED
                BY <2>2, <2>3, <3>1, <4>1
        <3>2. CASE ~(j < k)
            <4>1. j - 1 \in 1 .. N - 1 /\ ~(j - 1 < k) /\ (j - 1) + 1 = j
                BY <2>1, <2>8, <3>2
            <4>. QED
                BY <2>2, <2>3, <4>1
        <3>. QED
            BY <3>1, <3>2
    <2>9. IsInjective(a)
        <3>1. ASSUME NEW i \in 1 .. N - 1, NEW j \in 1 .. N - 1, a[i] = a[j] PROVE i = j
            <4>1. \A p, q \in 1 .. N : o.names[p] = o.names[q] => p = q
                BY <1>1, <1>2, <2>1 DEF IsInjective
            <4>2. /\ i \in Int /\ j \in Int /\ k \in Int
                  /\ i \in 1 .. N /\ j \in 1 .. N /\ i + 1 \in 1 .. N /\ j + 1 \in 1 .. N
                BY <2>1, <2>6
            <4>3. CASE i < k /\ j < k
                BY <2>2, <3>1, <4>1, <4>2, <4>3
            <4>4. CASE i < k /\ ~(j < k)
                BY <2>2, <3>1, <4>1, <4>2, <4>4
            <4>5. CASE ~(i < k) /\ j < k
                BY <2>2, <3>1, <4>1, <4>2, <4>5
            <4>6. CASE ~(i < k) /\ ~(j < k)
                BY <2>2, <3>1, <4>1, <4>2, <4>6
            <4>. QED
                BY <4>3, <4>4, <4>5, <4>6
        <3>. QED
            BY <2>2, <3>1 DEF IsInjective
    <2>10. \A i \in 1 .. N - 1 : a[i] = b[i].file
        BY <1>1, <2>1, <2>7
    <2>11. Sound(n)
        BY <2>2, <2>3, <2>5, <2>9, <2>10 DEF Sound, Names
    <2>12. n = [o EXCEPT !.names = NamesClosedUp(k), !.tables = RemoveAt(@, k), !.changed = TRUE]
        BY <1>2, <1>5, <2>2, <2>3, <2>4 DEF NamesClosedUp
    <2>13. Loses(n, o, k)
        BY <2>1, <2>2, <2>3, <2>5, <2>7, <2>8, <2>11 DEF Loses
    <2>. QED
        BY <2>12, <2>13
<1>. QED
    BY <1>4, <1>5

(* An open table whose rows change.                                        *)
LEMMA ManagerChanged ==
    ASSUME NEW q \in Manager, NEW w \in Value \cup {Junk}
    PROVE  /\ [file |-> q.file, val |-> w, dirty |-> TRUE] \in Manager
           /\ [[q EXCEPT !.val = w] EXCEPT !.dirty = TRUE]
                 = [file |-> q.file, val |-> w, dirty |-> TRUE]
<1> DEFINE S == [file : Tab, val : Value \cup {Junk}, dirty : BOOLEAN]
<1>1. PICK r \in S : r = [q EXCEPT !.val = w]
    BY DEF Manager
<1>2. r.file = q.file /\ r.val = w
    BY <1>1 DEF Manager
<1>3. PICK p \in S : p = [r EXCEPT !.dirty = TRUE]
    OBVIOUS
<1>4. p.file = r.file /\ p.val = r.val
    BY <1>3
<1>5. p.dirty = TRUE
    BY <1>3
<1>6. p = [file |-> p.file, val |-> p.val, dirty |-> p.dirty]
    OBVIOUS
<1>7. p = [file |-> q.file, val |-> w, dirty |-> TRUE]
    BY <1>2, <1>4, <1>5, <1>6, Zenon
<1>. QED
    BY <1>1, <1>3, <1>7, Zenon DEF Manager

(* The rows of a table change.                                             *)
Alters(n, o, k, v) ==
    /\ Sound(n) /\ n.name = o.name /\ n.names = o.names /\ n.changed = o.changed
    /\ DOMAIN n.tables = DOMAIN o.tables
    /\ n.tables[k] = [file  |-> o.names[k],
                      val   |-> IF o.tables[k].val = Junk THEN Junk ELSE v,
                      dirty |-> TRUE]
    /\ \A i \in DOMAIN o.tables : i # k => n.tables[i] = o.tables[i]

(* INSERT, UPDATE, DELETE and CREATE INDEX do that to it. *)
LEMMA RowsChanged ==
    ASSUME NEW o, Sound(o), NEW k \in DOMAIN o.names, NEW v \in Value
    PROVE  Alters([o EXCEPT !.tables[k].val = IF @ = Junk THEN Junk ELSE v,
                            !.tables[k].dirty = TRUE], o, k, v)
<1>1. /\ o.name \in Db /\ Len(o.tables) \in Nat
      /\ DOMAIN o.names = 1 .. Len(o.tables) /\ DOMAIN o.tables = 1 .. Len(o.tables)
      /\ \A i \in 1 .. Len(o.tables) : /\ o.tables[i] \in Managers(o.name)
                                       /\ o.tables[i].file = o.names[i]
    BY ObjectTables
<1>2. /\ o \in [name : Db, names : Seq(Tab), tables : Seq(Manager), changed : BOOLEAN]
      /\ o.names \in Names(o.name) /\ Len(o.names) = Len(o.tables)
    BY DEF Sound, Object
<1>3. PICK w : w = (IF o.tables[k].val = Junk THEN Junk ELSE v) /\ w \in Value \cup {Junk}
    OBVIOUS
<1>4. PICK m \in Manager : /\ m = [file |-> o.names[k], val |-> w, dirty |-> TRUE]
                           /\ m = [[o.tables[k] EXCEPT !.val = w] EXCEPT !.dirty = TRUE]
    <2>1. o.tables[k] \in Manager /\ o.tables[k].file = o.names[k]
        BY <1>1, <1>2
    <2>. QED
        <3>1. PICK q \in Manager : q = o.tables[k] /\ q.file = o.names[k]
            BY <2>1
        <3>2. /\ [file |-> q.file, val |-> w, dirty |-> TRUE] \in Manager
              /\ [[q EXCEPT !.val = w] EXCEPT !.dirty = TRUE]
                    = [file |-> q.file, val |-> w, dirty |-> TRUE]
            BY <1>3, ManagerChanged
        <3>3. PICK m \in Manager : m = [file |-> q.file, val |-> w, dirty |-> TRUE]
            BY <3>2
        <3>4. m = [[q EXCEPT !.val = w] EXCEPT !.dirty = TRUE]
            BY <3>2, <3>3
        <3>. QED
            BY <3>1, <3>3, <3>4
<1>5. PICK b : /\ b \in Seq(Manager) /\ b = [o.tables EXCEPT ![k] = m]
               /\ Len(b) = Len(o.tables) /\ DOMAIN b = DOMAIN o.tables /\ b[k] = m
               /\ \A i \in DOMAIN o.tables : i # k => b[i] = o.tables[i]
    <2>1. o.tables \in Seq(Manager) /\ k \in 1 .. Len(o.tables)
        BY <1>1, <1>2
    <2>2. [o.tables EXCEPT ![k] = m] \in Seq(Manager)
        BY <2>1, ExceptSeq
    <2>3. PICK b : b = [o.tables EXCEPT ![k] = m]
        OBVIOUS
    <2>4. b \in Seq(Manager)
        BY <2>2, <2>3
    <2>5. Len(b) = Len(o.tables)
        BY <2>1, <2>3, ExceptSeq
    <2>6. DOMAIN b = DOMAIN o.tables
        BY <2>3
    <2>7. b[k] = m /\ \A i \in DOMAIN o.tables : i # k => b[i] = o.tables[i]
        BY <1>1, <2>3
    <2>. QED
        BY <2>3, <2>4, <2>5, <2>6, <2>7
<1>6. PICK n : n = [o EXCEPT !.tables = b]
    OBVIOUS
<1>7. /\ n.name = o.name /\ n.names = o.names /\ n.tables = b /\ n.changed = o.changed
      /\ n \in Object
    BY <1>2, <1>5, <1>6 DEF Object
<1>8. Sound(n)
    <2>1. \A i \in DOMAIN o.names : o.names[i] = b[i].file
        BY <1>1, <1>4, <1>5
    <2>. QED
        BY <1>2, <1>5, <1>7, <2>1 DEF Sound
<1>9. n = [o EXCEPT !.tables[k].val = IF @ = Junk THEN Junk ELSE v, !.tables[k].dirty = TRUE]
    BY <1>1, <1>2, <1>3, <1>4, <1>5, <1>6
<1>10. Alters(n, o, k, v)
    BY <1>3, <1>4, <1>5, <1>7, <1>8 DEF Alters
<1>. QED
    BY <1>9, <1>10

(* A statement that plans nothing leaves the plan as it was.               *)
LEMMA SamePlan ==
    ASSUME TurnsLast, TurnsOpen, UNCHANGED <<todo, list>>
    PROVE  TurnsLast' /\ TurnsOpen'
<1>1. todo' = todo /\ list' = list
    OBVIOUS
<1>2. TurnsLast'
    BY <1>1 DEF TurnsLast
<1>3. ASSUME NEW d \in Db, NEW x, ListEnds(d, x)
      PROVE  ListEnds(d, x)'
    BY <1>1, <1>3 DEF ListEnds
<1>4. ASSUME NEW d \in Db, NEW k \in DOMAIN todo',
             todo'[k] \in {<<"open", d>>, <<"show", d>>, <<"drop", d>>}
      PROVE  \E l \in Names(d) : ListEnds(d, l)'
    <2>1. PICK l \in Names(d) : ListEnds(d, l)
        BY <1>1, <1>4 DEF TurnsOpen
    <2>. QED
        BY <1>3, <2>1
<1>5. TurnsOpen'
    BY <1>4 DEF TurnsOpen
<1>. QED
    BY <1>2, <1>5

(* The statements that name a database keep the objects sound: they plan   *)
(* to close one and to open one that has a list by then.                   *)
LEMMA OpenablePlans ==
    ASSUME Openable, Unread = FALSE, NEW d \in Db,
           \/ SwitchDatabase(d) \/ DropDatabase(d) \/ ShowDatabase(d)
           \/ CreateDatabase(d) \/ CloseDatabase
    PROVE  Openable'
<1>1. Typed /\ TurnsLast /\ TurnsOpen /\ <<>> \in Seq(Plain) /\ CloseCur \in Seq(Plain)
    BY ClosePlans DEF Openable
<1>2. Idles(<<>>, ListSets(d))
    BY DEF Idles
<1>3. ASSUME IsList(d)
      PROVE  list[d] \in Names(d) /\ Leads(<<>>, ListSets(d), list[d], list[d])
    BY <1>1, <1>2, <1>3 DEF Typed, IsList, Leads
<1>4. ASSUME UNCHANGED <<files, cur, hurt>>, todo' \in Seq(Steps),
             db' = db \/ Sound(db')
      PROVE  Typed'
    <2>1. UNCHANGED <<list, head, data, held, cur, hurt>>
        BY <1>4 DEF files
    <2>. QED
        BY <1>1, <1>4, <2>1 DEF Typed
<1>5. CASE SwitchDatabase(d)
    <2>1. /\ IsList(d) \/ InUse(d)
          /\ todo' = CloseCur \o << <<"open", d>> >>
          /\ UNCHANGED <<files, cur, db, hurt>>
        BY <1>5 DEF SwitchDatabase
    <2>2. PICK l \in Names(d) : Leads(CloseCur, ListSets(d), list[d], l)
        BY <1>1, <2>1, ClosedThenListed
    <2>3. UNCHANGED list
        BY <2>1 DEF files
    <2>4. todo' \in Seq(Steps) /\ TurnsLast' /\ TurnsOpen'
        BY <1>1, <2>1, <2>2, <2>3, PlannedTurn
    <2>. QED
        BY <1>4, <2>1, <2>4 DEF Openable
<1>6. CASE DropDatabase(d)
    <2>1. /\ IsList(d)
          /\ todo' = (IF InUse(d) THEN CloseCur ELSE <<>>) \o << <<"drop", d>> >>
          /\ UNCHANGED <<files, cur, db, hurt>>
        BY <1>6 DEF DropDatabase
    <2>2. UNCHANGED list
        BY <2>1 DEF files
    <2>3. PICK p \in Seq(Plain), l \in Names(d) :
              /\ Leads(p, ListSets(d), list[d], l)
              /\ todo' = p \o << <<"drop", d>> >>
        <3>1. CASE InUse(d)
            <4>1. PICK l \in Names(d) : Leads(CloseCur, ListSets(d), list[d], l)
                BY <1>1, <2>1, ClosedThenListed
            <4>. QED
                BY <1>1, <2>1, <3>1, <4>1
        <3>2. CASE ~InUse(d)
            BY <1>1, <1>3, <2>1, <3>2
        <3>. QED
            BY <3>1, <3>2
    <2>4. todo' \in Seq(Steps) /\ TurnsLast' /\ TurnsOpen'
        BY <1>1, <2>2, <2>3, PlannedTurn
    <2>. QED
        BY <1>4, <2>1, <2>4 DEF Openable
<1>7. CASE ShowDatabase(d)
    <2>1. /\ IsList(d)
          /\ todo' = << <<"show", d>> >>
          /\ UNCHANGED <<files, cur, db, hurt>>
        BY <1>7 DEF ShowDatabase
    <2>2. UNCHANGED list
        BY <2>1 DEF files
    <2>3. todo' = <<>> \o << <<"show", d>> >>
        BY <2>1
    <2>4. todo' \in Seq(Steps) /\ TurnsLast' /\ TurnsOpen'
        BY <1>1, <1>3, <2>1, <2>2, <2>3, PlannedTurn
    <2>. QED
        BY <1>4, <2>1, <2>4 DEF Openable
<1>8. CASE CreateDatabase(d)
    <2>1. /\ db' = NewObject(d)
          /\ todo' = CloseObject(db') \o << <<"end">> >>
          /\ UNCHANGED <<files, cur, hurt>>
        BY <1>8 DEF CreateDatabase
    <2>2. Sound(db')
        BY <2>1, NewSound
    <2>3. PICK p \in Seq(Plain) : p = CloseObject(db')
        BY <1>1, <2>2, ClosePlans
    <2>4. PICK e \in Steps : e = <<"end">>
        BY DEF Steps
    <2>5. /\ todo' \in Seq(Steps) /\ TurnsLast'
          /\ \A k \in DOMAIN todo' : todo'[k] \in Turns => todo'[k] = e
        BY <2>1, <2>3, <2>4, PlannedThen
    <2>6. <<"end">> \notin Turns
        BY StepKinds, <2>4 DEF Turns
    <2>7. TurnsOpen'
        BY <2>4, <2>5, <2>6 DEF TurnsOpen, Turns
    <2>. QED
        BY <1>4, <2>1, <2>2, <2>5, <2>7 DEF Openable
<1>9. CASE CloseDatabase
    <2>1. todo' = CloseCur /\ UNCHANGED <<files, cur, db, hurt>>
        BY <1>9 DEF CloseDatabase
    <2>2. todo' \in Seq(Steps) /\ TurnsLast' /\ TurnsOpen'
        BY <1>1, <2>1, PlannedPlain
    <2>. QED
        BY <1>4, <2>1, <2>2 DEF Openable
<1>. QED
    BY <1>5, <1>6, <1>7, <1>8, <1>9

(* The statements on tables keep the objects sound.                        *)
LEMMA OpenableTables ==
    ASSUME Openable,
           \/ \E t \in Tab : CreateTable(t) \/ DropTable(t) \/ \E v \in Value : ChangeRows(t, v)
           \/ Evict \/ Crash \/ UNCHANGED vars
    PROVE  Openable'
<1>1. Typed /\ TurnsLast /\ TurnsOpen
    BY DEF Openable
<1>2. /\ head \in [Tab -> {"none", "cut", "ok"}] /\ data \in [Tab -> BOOLEAN]
      /\ held \in [Tab -> Value \cup {Junk}]
    BY <1>1 DEF Typed
<1>3. ASSUME NEW t \in Tab, CreateTable(t)
      PROVE  Openable'
    <2>1. /\ cur # NoDb /\ t \in Home[cur.name] /\ TableId(t) = {}
          /\ data' = [data EXCEPT ![t] = TRUE]
          /\ held' = IF data[t] THEN held ELSE [held EXCEPT ![t] = Junk]
          /\ cur' = [cur EXCEPT
                        !.names = Append(@, t),
                        !.tables = Append(@, [file |-> t, val |-> Empty, dirty |-> TRUE]),
                        !.changed = TRUE]
          /\ UNCHANGED <<list, head, db, todo, hurt>>
        BY <1>3 DEF CreateTable
    <2>2. PICK m \in Managers(cur.name) : m = [file |-> t, val |-> Empty, dirty |-> TRUE]
        BY <2>1, CatalogAssumption DEF Managers
    <2>3. m.file = t /\ m.file \notin {cur.names[i] : i \in DOMAIN cur.names}
        BY <2>1, <2>2 DEF TableId
    <2>4. Sound(cur)
        BY <1>1, <2>1 DEF Typed
    <2>5. Sound(cur')
        BY <2>1, <2>2, <2>3, <2>4, ObjectChanges DEF Gains
    <2>6. data' \in [Tab -> BOOLEAN] /\ held' \in [Tab -> Value \cup {Junk}]
        BY <1>2, <2>1
    <2>7. Typed'
        BY <1>1, <2>1, <2>5, <2>6 DEF Typed
    <2>8. TurnsLast' /\ TurnsOpen'
        BY <1>1, <2>1, SamePlan
    <2>. QED
        BY <2>7, <2>8 DEF Openable
<1>4. ASSUME NEW t \in Tab, DropTable(t)
      PROVE  Openable'
    <2>1. PICK id \in TableId(t) :
              /\ cur # NoDb
              /\ todo' = DropTableFiles(cur.tables[id])
              /\ cur' = [cur EXCEPT !.names = NamesClosedUp(id),
                                    !.tables = RemoveAt(@, id),
                                    !.changed = TRUE]
              /\ UNCHANGED <<files, db, hurt>>
        BY <1>4 DEF DropTable
    <2>2. Sound(cur) /\ id \in DOMAIN cur.names
        BY <1>1, <2>1 DEF Typed, TableId
    <2>3. Sound(cur')
        BY <2>1, <2>2, ObjectChanges DEF Loses
    <2>4. cur.name \in Db /\ cur.tables[id] \in Managers(cur.name)
        BY <2>2, ObjectTables
    <2>5. todo' \in Seq(Work(cur.name))
        BY <2>1, <2>4, DropTableLeads
    <2>6. Work(cur.name) \subseteq Plain
        BY <2>4 DEF Plain
    <2>7. todo' \in Seq(Plain)
        BY <2>5, <2>6
    <2>8. todo' \in Seq(Steps) /\ TurnsLast' /\ TurnsOpen'
        BY <2>7, PlannedPlain
    <2>9. UNCHANGED <<list, head, data, held, db, hurt>>
        BY <2>1 DEF files
    <2>10. Typed'
        BY <1>1, <2>3, <2>8, <2>9 DEF Typed
    <2>. QED
        BY <2>8, <2>10 DEF Openable
<1>5. ASSUME NEW t \in Tab, NEW v \in Value, ChangeRows(t, v)
      PROVE  Openable'
    <2>1. PICK id \in TableId(t) :
              /\ cur # NoDb
              /\ cur' = [cur EXCEPT
                            !.tables[id].val = IF @ = Junk THEN Junk ELSE v,
                            !.tables[id].dirty = TRUE]
              /\ UNCHANGED <<files, db, todo, hurt>>
        BY <1>5 DEF ChangeRows
    <2>2. Sound(cur) /\ id \in DOMAIN cur.names
        BY <1>1, <2>1 DEF Typed, TableId
    <2>3. Sound(cur')
        BY <2>1, <2>2, RowsChanged DEF Alters
    <2>4. UNCHANGED <<list, head, data, held, db, todo, hurt>>
        BY <2>1 DEF files
    <2>5. Typed'
        BY <1>1, <2>3, <2>4 DEF Typed
    <2>6. TurnsLast' /\ TurnsOpen'
        BY <1>1, <2>4, SamePlan
    <2>. QED
        BY <2>5, <2>6 DEF Openable
<1>6. CASE Evict
    <2>1. PICK i \in DOMAIN cur.tables :
              /\ held' = [held EXCEPT ![cur.tables[i].file] = Junk]
              /\ UNCHANGED <<list, head, data, cur, db, todo, hurt>>
        BY <1>6 DEF Evict
    <2>2. held' \in [Tab -> Value \cup {Junk}]
        BY <1>2, <2>1
    <2>3. Typed'
        BY <1>1, <2>1, <2>2 DEF Typed
    <2>4. TurnsLast' /\ TurnsOpen'
        BY <1>1, <2>1, SamePlan
    <2>. QED
        BY <2>3, <2>4 DEF Openable
<1>7. CASE Crash
    <2>1. /\ cur' = NoDb /\ db' = NoDb /\ todo' = <<>> /\ hurt' = hurt \cup Exposed
          /\ UNCHANGED <<list, head, data, held>>
        BY <1>7 DEF Crash, files
    <2>2. Exposed \subseteq Db
        BY <1>1, ObjectTables DEF Exposed, CurExposed, Typed
    <2>3. todo' \in Seq(Plain)
        BY <2>1
    <2>4. todo' \in Seq(Steps) /\ TurnsLast' /\ TurnsOpen'
        BY <2>3, PlannedPlain
    <2>5. Typed'
        BY <1>1, <2>1, <2>2, <2>4 DEF Typed
    <2>. QED
        BY <2>4, <2>5 DEF Openable
<1>8. CASE UNCHANGED vars
    <2>1. UNCHANGED <<list, head, data, held, cur, db, todo, hurt>>
        BY <1>8 DEF vars, files
    <2>2. Typed'
        BY <1>1, <2>1 DEF Typed
    <2>3. TurnsLast' /\ TurnsOpen'
        BY <1>1, <2>1, SamePlan
    <2>. QED
        BY <2>2, <2>3 DEF Openable
<1>. QED
    BY <1>3, <1>4, <1>5, <1>6, <1>7, <1>8

(* Every step keeps it. *)
LEMMA OpenableNext ==
    ASSUME Openable, Unread = FALSE, [Next]_vars
    PROVE  Openable'
<1>1. CASE Step
    BY <1>1, OpenableStep
<1>2. CASE \E d \in Db : \/ SwitchDatabase(d) \/ CreateDatabase(d)
                         \/ DropDatabase(d) \/ ShowDatabase(d)
    BY <1>2, OpenablePlans
<1>3. CASE CloseDatabase
    <2>1. cur.name \in Db
        BY <1>3, ObjectTables DEF CloseDatabase, Openable, Typed
    <2>. QED
        BY <1>3, <2>1, OpenablePlans
<1>4. CASE \/ \E t \in Tab : CreateTable(t) \/ DropTable(t) \/ \E v \in Value : ChangeRows(t, v)
           \/ Evict \/ Crash \/ UNCHANGED vars
    BY <1>4, OpenableTables
<1>. QED
    BY <1>1, <1>2, <1>3, <1>4 DEF Next

(* And then the objects in memory are sound. *)
LEMMA OpenableSound == Openable => ObjectsSound
<1>. SUFFICES ASSUME Openable PROVE ObjectsSound
    OBVIOUS
<1>1. \A o \in Objects : Sound(o)
    BY DEF Openable, Typed, Objects
<1>2. ASSUME NEW o \in Objects
      PROVE  /\ o \in Object /\ Len(o.names) = Len(o.tables)
             /\ \A i \in DOMAIN o.names : o.names[i] = o.tables[i].file
             /\ IsInjective(o.names)
    BY <1>1 DEF Sound, Names
<1>3. TypeOK
    BY <1>2 DEF TypeOK, Openable, Typed
<1>4. SlotsAgree
    BY <1>2 DEF SlotsAgree
<1>. QED
    BY <1>3, <1>4 DEF ObjectsSound
-----------------------------------------------------------------------------
(* What holds of memory whatever was opened, be it a list that is missing  *)
(* or damaged: what open() reads then is any list at all.                  *)
Paired(o) ==
    /\ o \in Object
    /\ Len(o.names) = Len(o.tables)
    /\ \A i \in DOMAIN o.names : o.names[i] = o.tables[i].file

(* The steps of a plan, of any table and any list.                         *)
Made ==
    ({"cut", "remove head", "remove data"} \X Tab)
    \cup ({"head", "data"} \X Manager)
    \cup ({"cut list", "remove list", "open", "show", "drop"} \X Db)
    \cup ({"list"} \X Db \X Seq(Tab))
    \cup {<<"leave">>, <<"end">>}

Formed ==
    /\ list \in [Db -> Seq(Tab) \cup {Missing, Damaged}]
    /\ head \in [Tab -> {"none", "cut", "ok"}]
    /\ data \in [Tab -> BOOLEAN]
    /\ held \in [Tab -> Value \cup {Junk}]
    /\ cur = NoDb \/ Paired(cur)
    /\ db = NoDb \/ Paired(db)
    /\ todo \in Seq(Made)
    /\ hurt \subseteq Db

(* The parts of a step are the ones its name calls for.                    *)
LEMMA MadeKinds ==
    ASSUME NEW e \in Made
    PROVE  /\ e[1] \in {"cut", "remove head", "remove data"} => e[2] \in Tab
           /\ e[1] \in {"head", "data"} => e[2] \in Manager
           /\ e[1] \in {"cut list", "remove list", "open", "show", "drop", "list"}
                => e[2] \in Db
           /\ e[1] = "list" => e[3] \in Seq(Tab)
<1>1. CASE e \in {"cut", "remove head", "remove data"} \X Tab
    BY <1>1
<1>2. CASE e \in {"head", "data"} \X Manager
    BY <1>2
<1>3. CASE e \in {"cut list", "remove list", "open", "show", "drop"} \X Db
    BY <1>3
<1>4. CASE e \in {"list"} \X Db \X Seq(Tab)
    BY <1>4
<1>5. CASE e \in {<<"leave">>, <<"end">>}
    <2>1. <<"leave">>[1] = "leave" /\ <<"end">>[1] = "end"
        OBVIOUS
    <2>2. e[1] = "leave" \/ e[1] = "end"
        BY <1>5, <2>1
    <2>. QED
        BY <2>2
<1>. QED
    BY <1>1, <1>2, <1>3, <1>4, <1>5 DEF Made

(* The tables of an object. *)
LEMMA PairedTables ==
    ASSUME NEW o, Paired(o)
    PROVE  /\ o.name \in Db /\ o.names \in Seq(Tab) /\ o.tables \in Seq(Manager)
           /\ Len(o.tables) \in Nat /\ Len(o.names) = Len(o.tables)
           /\ DOMAIN o.names = 1 .. Len(o.tables) /\ DOMAIN o.tables = 1 .. Len(o.tables)
           /\ \A i \in 1 .. Len(o.tables) : /\ o.tables[i] \in Manager
                                            /\ o.tables[i].file = o.names[i]
                                            /\ o.names[i] \in Tab
<1>1. /\ o.name \in Db /\ o.names \in Seq(Tab) /\ o.tables \in Seq(Manager)
      /\ Len(o.names) = Len(o.tables)
      /\ \A i \in DOMAIN o.names : o.names[i] = o.tables[i].file
    BY DEF Paired, Object
<1>2. /\ Len(o.tables) \in Nat
      /\ DOMAIN o.names = 1 .. Len(o.tables) /\ DOMAIN o.tables = 1 .. Len(o.tables)
      /\ \A i \in 1 .. Len(o.tables) : o.tables[i] \in Manager /\ o.names[i] \in Tab
    BY <1>1, LenProperties, ElementOfSeq
<1>. QED
    BY <1>1, <1>2

(* The steps that close a table or drop it.                                *)
LEMMA TablePlans ==
    ASSUME NEW m \in Manager
    PROVE  CloseTable(m) \in Seq(Made) /\ DropTableFiles(m) \in Seq(Made)
<1>1. m.file \in Tab
    BY DEF Manager
<1>2. PICK a \in Made, b \in Made, c \in Made, d \in Made, e \in Made :
          /\ a = <<"cut", m.file>> /\ b = <<"head", m>> /\ c = <<"data", m>>
          /\ d = <<"remove head", m.file>> /\ e = <<"remove data", m.file>>
    <2>1. <<"cut", m.file>> \in Made
        BY <1>1 DEF Made
    <2>2. <<"head", m>> \in Made
        BY DEF Made
    <2>3. <<"data", m>> \in Made
        BY DEF Made
    <2>4. <<"remove head", m.file>> \in Made
        BY <1>1 DEF Made
    <2>5. <<"remove data", m.file>> \in Made
        BY <1>1 DEF Made
    <2>. QED
        BY <2>1, <2>2, <2>3, <2>4, <2>5
<1>3. <<a, b, c>> \in Seq(Made) /\ <<d, e>> \in Seq(Made)
    OBVIOUS
<1>4. CloseTable(m) = <<a, b, c>>
    BY <1>2, Zenon DEF CloseTable
<1>5. DropTableFiles(m) = <<a, b, c>> \o <<d, e>>
    BY <1>2, <1>4, Zenon DEF DropTableFiles
<1>6. PICK p \in Seq(Made), r \in Seq(Made) : p = <<a, b, c>> /\ r = <<d, e>>
    BY <1>3
<1>7. p \o r \in Seq(Made)
    BY ConcatProperties
<1>. QED
    BY <1>3, <1>4, <1>5, <1>6, <1>7

(* The steps that close a database or drop it.                             *)
LEMMA ObjectPlans ==
    ASSUME NEW o, Paired(o)
    PROVE  CloseObject(o) \in Seq(Made) /\ DropObject(o) \in Seq(Made)
<1>1. /\ o.name \in Db /\ o.names \in Seq(Tab) /\ Len(o.tables) \in Nat
      /\ DOMAIN o.tables = 1 .. Len(o.tables)
      /\ \A i \in 1 .. Len(o.tables) : o.tables[i] \in Manager
    BY PairedTables
<1>2. PICK n \in Nat : n = Len(o.tables)
    BY <1>1
<1>3. ASSUME NEW bs \in [1 .. n -> Seq(Made)] PROVE FlattenSeq(bs) \in Seq(Made)
    <2>1. \A i \in 1 .. n : \A k \in DOMAIN bs[i] : bs[i][k] \in Made
        BY ElementOfSeq, LenProperties
    <2>2. Made \in SUBSET Made
        OBVIOUS
    <2>. QED
        BY <2>1, <2>2, FlattenAll
<1>4. FlattenSeq([i \in DOMAIN o.tables |-> CloseTable(o.tables[i])]) \in Seq(Made)
    <2>1. [i \in DOMAIN o.tables |-> CloseTable(o.tables[i])] \in [1 .. n -> Seq(Made)]
        BY <1>1, <1>2, TablePlans
    <2>. QED
        BY <1>3, <2>1
<1>5. FlattenSeq([i \in DOMAIN o.tables |-> DropTableFiles(o.tables[i])]) \in Seq(Made)
    <2>1. [i \in DOMAIN o.tables |-> DropTableFiles(o.tables[i])] \in [1 .. n -> Seq(Made)]
        BY <1>1, <1>2, TablePlans
    <2>. QED
        BY <1>3, <2>1
<1>6. <<"cut list", o.name>> \in Made /\ <<"remove list", o.name>> \in Made
    BY <1>1 DEF Made
<1>7. <<"list", o.name, o.names>> \in Made /\ <<"list", o.name, <<>> >> \in Made
    <2>1. <<>> \in Seq(Tab)
        OBVIOUS
    <2>. QED
        BY <1>1, <2>1 DEF Made
<1>8. \A x, y, z \in Made : <<x, y>> \in Seq(Made) /\ <<x, y, z>> \in Seq(Made)
    OBVIOUS
<1>9. /\ << <<"cut list", o.name>>, <<"list", o.name, o.names>> >> \in Seq(Made)
      /\ << <<"cut list", o.name>>, <<"list", o.name, <<>> >>, <<"remove list", o.name>> >>
            \in Seq(Made)
    BY <1>6, <1>7, <1>8, Zenon
<1>10. \A p, r \in Seq(Made) : p \o r \in Seq(Made)
    BY ConcatProperties
<1>11. CloseObject(o) \in Seq(Made)
    BY <1>4, <1>9, <1>10, Zenon DEF CloseObject
<1>12. DropObject(o) \in Seq(Made)
    BY <1>5, <1>9, <1>10, Zenon DEF DropObject
<1>. QED
    BY <1>11, <1>12

(* Every statement's plan.                                                 *)
LEMMA StatementPlans ==
    ASSUME Formed
    PROVE  /\ CloseCur \in Seq(Made)
           /\ \A d \in Db : \A s \in {"open", "show", "drop"} : << <<s, d>> >> \in Seq(Made)
           /\ << <<"end">> >> \in Seq(Made)
           /\ \A p, r \in Seq(Made) : p \o r \in Seq(Made)
<1>1. \A p, r \in Seq(Made) : p \o r \in Seq(Made)
    BY ConcatProperties
<1>2. <<"leave">> \in Made /\ <<"end">> \in Made
    BY DEF Made
<1>3. << <<"leave">> >> \in Seq(Made) /\ << <<"end">> >> \in Seq(Made)
    BY <1>2
<1>4. ASSUME NEW d \in Db, NEW s \in {"open", "show", "drop"} PROVE << <<s, d>> >> \in Seq(Made)
    <2>1. <<s, d>> \in Made
        BY DEF Made
    <2>. QED
        BY <2>1
<1>5. CASE cur = NoDb
    BY <1>1, <1>3, <1>4, <1>5 DEF CloseCur
<1>6. CASE cur # NoDb
    <2>1. CloseObject(cur) \in Seq(Made)
        BY <1>6, ObjectPlans DEF Formed
    <2>2. CloseObject(cur) \o << <<"leave">> >> \in Seq(Made)
        BY <1>1, <1>3, <2>1
    <2>. QED
        BY <1>1, <1>3, <1>4, <1>6, <2>2 DEF CloseCur
<1>. QED
    BY <1>5, <1>6

(* The rest of a plan.                                                     *)
LEMMA MadeRuns ==
    ASSUME Formed, Done
    PROVE  Head(todo) \in Made /\ todo' \in Seq(Made)
BY HeadTailProperties DEF Formed, Done, Idle

(* The object open() makes, of a list or of what memory held.              *)
LEMMA OpenedPaired ==
    ASSUME Formed, NEW d \in Db, NEW info \in Read(d), OpenFiles(info.names)
    PROVE  /\ Paired(Opened(info))
           /\ data' \in [Tab -> BOOLEAN] /\ held' \in [Tab -> Value \cup {Junk}]
           /\ UNCHANGED <<list, head>>
<1>1. info.name \in Db /\ info.names \in Seq(Tab)
    <2>1. CASE IsList(d)
        <3>1. list[d] \in Seq(Tab)
            BY <2>1 DEF Formed, IsList
        <3>2. info = [name |-> d, names |-> list[d]]
            BY <2>1 DEF Read
        <3>. QED
            BY <3>1, <3>2
    <2>2. CASE ~IsList(d)
        <3>1. info \in [name : Db, names : SeqOf(Tab, MaxTables)]
            BY <2>2 DEF Read
        <3>2. info.name \in Db /\ info.names \in SeqOf(Tab, MaxTables)
            BY <3>1
        <3>3. PICK m \in 0 .. MaxTables : info.names \in [1 .. m -> Tab]
            BY <3>2 DEF SeqOf
        <3>4. m \in Nat
            BY CatalogAssumption
        <3>. QED
            BY <3>2, <3>3, <3>4, SeqDef
    <2>. QED
        BY <2>1, <2>2
<1>2. PICK names : names = info.names /\ names \in Seq(Tab)
    BY <1>1
<1>3. /\ DOMAIN names = 1 .. Len(names) /\ Len(names) \in Nat
      /\ \A i \in DOMAIN names : names[i] \in Tab
    BY <1>2, LenProperties, ElementOfSeq
<1>4. \A t \in Tab : /\ OnDisk(t) \in Value \cup {Junk}
                     /\ Manage(t) \in Manager /\ Manage(t).file = t
    BY DEF Manage, Manager, OnDisk, Formed
<1>5. PICK tables : tables = [i \in DOMAIN names |-> Manage(names[i])]
    OBVIOUS
<1>6. tables \in [1 .. Len(names) -> Manager]
    BY <1>3, <1>4, <1>5
<1>7. tables \in Seq(Manager) /\ Len(tables) = Len(names)
    <2>1. tables \in Seq(Manager)
        BY <1>3, <1>6, SeqDef
    <2>. QED
        BY <1>3, <1>6, <2>1, LenProperties
<1>8. PICK o : o = [name |-> info.name, names |-> names, tables |-> tables, changed |-> FALSE]
    OBVIOUS
<1>9. Opened(info) = o
    <2>1. Opened(info) = [NewObject(info.name) EXCEPT !.names = names, !.tables = tables]
        BY <1>2, <1>5 DEF Opened
    <2>. QED
        BY <1>8, <2>1 DEF NewObject
<1>10. o \in Object /\ o.names = names /\ o.tables = tables
    BY <1>1, <1>2, <1>7, <1>8 DEF Object
<1>11. \A i \in DOMAIN names : names[i] = tables[i].file
    BY <1>3, <1>4, <1>5
<1>12. Paired(o)
    BY <1>7, <1>10, <1>11 DEF Paired
<1>13. data' \in [Tab -> BOOLEAN]
    BY DEF OpenFiles
<1>14. held' \in [Tab -> Value \cup {Junk}]
    BY <1>4 DEF OpenFiles, Formed
<1>. QED
    BY <1>9, <1>12, <1>13, <1>14 DEF OpenFiles

(* What CREATE TABLE, DROP TABLE and the statements on rows make of it.    *)
LEMMA PairedChanges ==
    ASSUME NEW o, Paired(o)
    PROVE  /\ \A m \in Manager :
                Paired([o EXCEPT !.names = Append(@, m.file),
                                 !.tables = Append(@, m),
                                 !.changed = TRUE])
           /\ \A k \in DOMAIN o.names :
                Paired([o EXCEPT !.names = RemoveAt(@, k),
                                 !.tables = RemoveAt(@, k),
                                 !.changed = TRUE])
           /\ \A k \in DOMAIN o.names : \A v \in Value :
                Paired([o EXCEPT !.tables[k].val = IF @ = Junk THEN Junk ELSE v,
                                 !.tables[k].dirty = TRUE])
<1>1. /\ o \in [name : Db, names : Seq(Tab), tables : Seq(Manager), changed : BOOLEAN]
      /\ o.names \in Seq(Tab) /\ o.tables \in Seq(Manager)
      /\ Len(o.tables) \in Nat /\ Len(o.names) = Len(o.tables)
      /\ DOMAIN o.names = 1 .. Len(o.tables) /\ DOMAIN o.tables = 1 .. Len(o.tables)
      /\ \A i \in 1 .. Len(o.tables) : /\ o.tables[i] \in Manager
                                       /\ o.tables[i].file = o.names[i]
    BY PairedTables DEF Paired, Object
<1>2. PICK N \in Nat : N = Len(o.tables)
    BY <1>1
<1>3. ASSUME NEW a \in Seq(Tab), NEW b \in Seq(Manager), NEW c \in BOOLEAN, Len(a) = Len(b),
             \A i \in DOMAIN a : a[i] = b[i].file
      PROVE  Paired([o EXCEPT !.names = a, !.tables = b, !.changed = c])
    <2>1. PICK n : n = [o EXCEPT !.names = a, !.tables = b, !.changed = c]
        OBVIOUS
    <2>2. n \in Object /\ n.names = a /\ n.tables = b
        BY <1>1, <2>1 DEF Object
    <2>. QED
        BY <1>3, <2>1, <2>2 DEF Paired
<1>4. ASSUME NEW m \in Manager
      PROVE  Paired([o EXCEPT !.names = Append(@, m.file), !.tables = Append(@, m),
                              !.changed = TRUE])
    <2>1. PICK t \in Tab : t = m.file
        BY DEF Manager
    <2>2. Adds(Append(o.names, t), Tab, o.names, t, N)
        BY <1>1, <1>2, Appended
    <2>3. Adds(Append(o.tables, m), Manager, o.tables, m, N)
        BY <1>1, <1>2, Appended
    <2>4. PICK a \in Seq(Tab) : /\ a = Append(o.names, t) /\ Len(a) = N + 1
                                /\ DOMAIN a = 1 .. N + 1 /\ a[N + 1] = t
                                /\ \A i \in 1 .. N : a[i] = o.names[i]
        BY <2>2 DEF Adds
    <2>5. PICK b \in Seq(Manager) : /\ b = Append(o.tables, m) /\ Len(b) = N + 1
                                    /\ b[N + 1] = m
                                    /\ \A i \in 1 .. N : b[i] = o.tables[i]
        BY <2>3, Zenon DEF Adds
    <2>6. \A i \in 1 .. N + 1 : i \in 1 .. N \/ i = N + 1
        BY <1>2
    <2>7. \A i \in DOMAIN a : a[i] = b[i].file
        BY <1>1, <1>2, <2>1, <2>4, <2>5, <2>6
    <2>8. Paired([o EXCEPT !.names = a, !.tables = b, !.changed = TRUE])
        BY <1>3, <2>4, <2>5, <2>7
    <2>. QED
        BY <1>1, <2>1, <2>4, <2>5, <2>8
<1>5. ASSUME NEW k \in DOMAIN o.names
      PROVE  Paired([o EXCEPT !.names = RemoveAt(@, k), !.tables = RemoveAt(@, k),
                              !.changed = TRUE])
    <2>1. PICK a \in Seq(Tab) :
              /\ a = RemoveAt(o.names, k) /\ Len(a) = N - 1 /\ DOMAIN a = 1 .. N - 1
              /\ \A i \in 1 .. N - 1 : a[i] = IF i < k THEN o.names[i] ELSE o.names[i + 1]
        <3>1. PICK s \in Seq(Tab) : s = o.names /\ k \in DOMAIN s /\ Len(s) = N
            BY <1>1, <1>2
        <3>2. /\ RemoveAt(s, k) \in Seq(Tab) /\ Len(RemoveAt(s, k)) = N - 1
              /\ DOMAIN RemoveAt(s, k) = 1 .. N - 1
              /\ \A i \in 1 .. N - 1 : RemoveAt(s, k)[i] = IF i < k THEN s[i] ELSE s[i + 1]
            BY <3>1, RemovedAt
        <3>. QED
            BY <3>1, <3>2
    <2>2. PICK b \in Seq(Manager) :
              /\ b = RemoveAt(o.tables, k) /\ Len(b) = N - 1
              /\ \A i \in 1 .. N - 1 : b[i] = IF i < k THEN o.tables[i] ELSE o.tables[i + 1]
        <3>1. PICK s \in Seq(Manager) : s = o.tables /\ k \in DOMAIN s /\ Len(s) = N
            BY <1>1, <1>2
        <3>2. /\ RemoveAt(s, k) \in Seq(Manager) /\ Len(RemoveAt(s, k)) = N - 1
              /\ \A i \in 1 .. N - 1 : RemoveAt(s, k)[i] = IF i < k THEN s[i] ELSE s[i + 1]
            BY <3>1, RemovedAt
        <3>. QED
            BY <3>1, <3>2
    <2>3. \A i \in 1 .. N - 1 : i \in 1 .. N /\ i + 1 \in 1 .. N
        BY <1>2
    <2>4. \A i \in DOMAIN a : a[i] = b[i].file
        <3>. SUFFICES ASSUME NEW i \in 1 .. N - 1 PROVE a[i] = b[i].file
            BY <2>1
        <3>1. CASE i < k
            BY <1>1, <1>2, <2>1, <2>2, <2>3, <3>1
        <3>2. CASE ~(i < k)
            BY <1>1, <1>2, <2>1, <2>2, <2>3, <3>2
        <3>. QED
            BY <3>1, <3>2
    <2>5. Paired([o EXCEPT !.names = a, !.tables = b, !.changed = TRUE])
        BY <1>3, <2>1, <2>2, <2>4
    <2>. QED
        BY <1>1, <2>1, <2>2, <2>5
<1>6. ASSUME NEW k \in DOMAIN o.names, NEW v \in Value
      PROVE  Paired([o EXCEPT !.tables[k].val = IF @ = Junk THEN Junk ELSE v,
                              !.tables[k].dirty = TRUE])
    <2>1. PICK w \in Value \cup {Junk} : w = IF o.tables[k].val = Junk THEN Junk ELSE v
        OBVIOUS
    <2>2. PICK q \in Manager : q = o.tables[k] /\ q.file = o.names[k]
        BY <1>1
    <2>3. PICK m \in Manager : /\ m = [[q EXCEPT !.val = w] EXCEPT !.dirty = TRUE]
                               /\ m.file = q.file
        <3>1. /\ [file |-> q.file, val |-> w, dirty |-> TRUE] \in Manager
              /\ [[q EXCEPT !.val = w] EXCEPT !.dirty = TRUE]
                    = [file |-> q.file, val |-> w, dirty |-> TRUE]
            BY ManagerChanged
        <3>2. PICK m \in Manager : m = [file |-> q.file, val |-> w, dirty |-> TRUE]
            BY <3>1
        <3>3. m.file = q.file
            BY <3>2
        <3>. QED
            BY <3>1, <3>2, <3>3
    <2>4. [o.tables EXCEPT ![k] = m] \in Seq(Manager) /\ Len([o.tables EXCEPT ![k] = m]) = N
        BY <1>1, <1>2, ExceptSeq
    <2>5. PICK b \in Seq(Manager) : b = [o.tables EXCEPT ![k] = m] /\ Len(b) = N
        BY <2>4
    <2>6. b[k] = m /\ \A i \in DOMAIN o.tables : i # k => b[i] = o.tables[i]
        BY <1>1, <2>5
    <2>7. \A i \in DOMAIN o.names : o.names[i] = b[i].file
        BY <1>1, <2>2, <2>3, <2>6
    <2>8. PICK n : n = [o EXCEPT !.tables = b]
        OBVIOUS
    <2>9. n \in Object /\ n.names = o.names /\ n.tables = b
        BY <1>1, <2>8 DEF Object
    <2>10. Paired(n)
        BY <1>1, <1>2, <2>5, <2>7, <2>9 DEF Paired
    <2>11. n = [o EXCEPT !.tables[k].val = IF @ = Junk THEN Junk ELSE v,
                         !.tables[k].dirty = TRUE]
        BY <1>1, <2>1, <2>2, <2>3, <2>5, <2>8
    <2>. QED
        BY <2>10, <2>11
<1>. QED
    BY <1>4, <1>5, <1>6

(* A step of a plan keeps all of it.                                       *)
LEMMA FormedStep ==
    ASSUME Formed, Step
    PROVE  Formed'
<1>1. /\ list \in [Db -> Seq(Tab) \cup {Missing, Damaged}]
      /\ head \in [Tab -> {"none", "cut", "ok"}] /\ data \in [Tab -> BOOLEAN]
      /\ held \in [Tab -> Value \cup {Junk}] /\ todo \in Seq(Made) /\ hurt \subseteq Db
      /\ cur = NoDb \/ Paired(cur)
      /\ db = NoDb \/ Paired(db)
    BY DEF Formed
<1>2. ASSUME FileStep
      PROVE  Formed'
    <2>1. Done /\ UNCHANGED <<cur, db, hurt>>
        BY <1>2 DEF FileStep, CutHead, WriteHead, WriteData, WriteList, RemoveFile
    <2>2. PICK e \in Made : e = Head(todo) /\ Arg = e[2] /\ \A s : Do(s) => e[1] = s
        BY <2>1, MadeRuns DEF Arg, Do
    <2>3. head' \in [Tab -> {"none", "cut", "ok"}]
        BY <1>1, <1>2 DEF FileStep, CutHead, WriteHead, WriteData, WriteList, RemoveFile
    <2>4. data' \in [Tab -> BOOLEAN]
        BY <1>1, <1>2 DEF FileStep, CutHead, WriteHead, WriteData, WriteList, RemoveFile
    <2>5. held' \in [Tab -> Value \cup {Junk}]
        <3>1. CASE WriteData
            <4>1. Arg \in Manager
                BY <2>2, <3>1, MadeKinds DEF WriteData
            <4>2. Arg.val \in Value \cup {Junk}
                BY <4>1 DEF Manager
            <4>. QED
                BY <1>1, <3>1, <4>2 DEF WriteData
        <3>2. CASE WriteHead
            BY <1>1, <3>2 DEF WriteHead
        <3>3. CASE CutHead \/ WriteList \/ RemoveFile
            BY <1>1, <3>3 DEF CutHead, WriteList, RemoveFile
        <3>. QED
            BY <1>2, <3>1, <3>2, <3>3 DEF FileStep
    <2>6. list' \in [Db -> Seq(Tab) \cup {Missing, Damaged}]
        <3>1. CASE WriteList
            <4>1. Do("list") => Head(todo)[3] \in Seq(Tab)
                BY <2>2, MadeKinds
            <4>. QED
                BY <1>1, <3>1, <4>1 DEF WriteList
        <3>2. CASE RemoveFile
            BY <1>1, <3>2 DEF RemoveFile
        <3>3. CASE CutHead \/ WriteHead \/ WriteData
            BY <1>1, <3>3 DEF CutHead, WriteHead, WriteData
        <3>. QED
            BY <1>2, <3>1, <3>2, <3>3 DEF FileStep
    <2>7. todo' \in Seq(Made)
        BY <2>1, MadeRuns
    <2>. QED
        BY <1>1, <2>1, <2>3, <2>4, <2>5, <2>6, <2>7 DEF Formed
<1>3. ASSUME NEW s \in {"open", "show", "drop"}, Do(s)
      PROVE  Arg \in Db
    <2>1. Head(todo) \in Made /\ Head(todo)[1] = s
        BY <1>1, <1>3, HeadTailProperties DEF Do
    <2>. QED
        BY <2>1, MadeKinds DEF Arg
<1>4. CASE OpenCur
    <2>1. PICK info \in Read(Arg) : OpenFiles(info.names) /\ cur' = Opened(info)
        BY <1>4 DEF OpenCur
    <2>2. /\ Paired(cur')
          /\ data' \in [Tab -> BOOLEAN] /\ held' \in [Tab -> Value \cup {Junk}]
          /\ UNCHANGED <<list, head>>
        BY <1>3, <1>4, <2>1, OpenedPaired DEF OpenCur
    <2>3. UNCHANGED <<db, hurt>> /\ todo' \in Seq(Made)
        BY <1>4, MadeRuns DEF OpenCur
    <2>. QED
        BY <1>1, <2>2, <2>3 DEF Formed
<1>5. CASE OpenSecond
    <2>1. PICK info \in Read(Arg) : OpenFiles(info.names) /\ db' = Opened(info)
        BY <1>5 DEF OpenSecond
    <2>2. /\ Paired(db')
          /\ data' \in [Tab -> BOOLEAN] /\ held' \in [Tab -> Value \cup {Junk}]
          /\ UNCHANGED <<list, head>>
        BY <1>3, <1>5, <2>1, OpenedPaired DEF OpenSecond
    <2>3. /\ UNCHANGED <<cur, hurt>>
          /\ todo' = (IF Do("show") THEN CloseObject(db') ELSE DropObject(db'))
                        \o << <<"end">> >>
        BY <1>5 DEF OpenSecond
    <2>4. todo' \in Seq(Made)
        BY <2>2, <2>3, ObjectPlans, StatementPlans
    <2>. QED
        BY <1>1, <2>2, <2>3, <2>4 DEF Formed
<1>6. CASE Leave
    <2>1. /\ todo' \in Seq(Made) /\ UNCHANGED <<list, head, data, held, hurt>>
          /\ cur' = NoDb \/ cur' = cur
          /\ db' = NoDb \/ db' = db
        BY <1>6, MadeRuns DEF Leave, files
    <2>. QED
        BY <1>1, <2>1 DEF Formed
<1>. QED
    BY <1>2, <1>4, <1>5, <1>6 DEF Step, FileStep

(* So do the statements, and the death of the process.                     *)
LEMMA FormedNext == Formed /\ [Next]_vars => Formed'
<1>. SUFFICES ASSUME Formed, [Next]_vars PROVE Formed'
    OBVIOUS
<1>1. /\ list \in [Db -> Seq(Tab) \cup {Missing, Damaged}]
      /\ head \in [Tab -> {"none", "cut", "ok"}] /\ data \in [Tab -> BOOLEAN]
      /\ held \in [Tab -> Value \cup {Junk}] /\ todo \in Seq(Made) /\ hurt \subseteq Db
      /\ cur = NoDb \/ Paired(cur)
      /\ db = NoDb \/ Paired(db)
    BY DEF Formed
<1>2. /\ CloseCur \in Seq(Made) /\ <<>> \in Seq(Made)
      /\ \A d \in Db : \A s \in {"open", "show", "drop"} : << <<s, d>> >> \in Seq(Made)
      /\ << <<"end">> >> \in Seq(Made)
      /\ \A p, r \in Seq(Made) : p \o r \in Seq(Made)
    BY StatementPlans
<1>3. ASSUME UNCHANGED <<files, cur, hurt>>, todo' \in Seq(Made), db' = db \/ Paired(db')
      PROVE  Formed'
    BY <1>1, <1>3 DEF files, Formed
<1>4. CASE Step
    BY <1>4, FormedStep
<1>5. ASSUME NEW d \in Db, SwitchDatabase(d) \/ DropDatabase(d) \/ ShowDatabase(d)
      PROVE  Formed'
    <2>1. PICK p \in Seq(Made), r \in Seq(Made) :
              todo' = p \o r \/ todo' = r
        <3>1. /\ << <<"open", d>> >> \in Seq(Made) /\ << <<"show", d>> >> \in Seq(Made)
              /\ << <<"drop", d>> >> \in Seq(Made)
            BY <1>2
        <3>2. \/ todo' = CloseCur \o << <<"open", d>> >>
              \/ todo' = CloseCur \o << <<"drop", d>> >>
              \/ todo' = <<>> \o << <<"drop", d>> >>
              \/ todo' = << <<"show", d>> >>
            BY <1>5 DEF SwitchDatabase, DropDatabase, ShowDatabase
        <3>. QED
            BY <1>2, <3>1, <3>2, Zenon
    <2>2. todo' \in Seq(Made)
        BY <1>2, <2>1
    <2>3. UNCHANGED <<files, cur, db, hurt>>
        BY <1>5 DEF SwitchDatabase, DropDatabase, ShowDatabase
    <2>. QED
        BY <1>3, <2>2, <2>3
<1>6. ASSUME NEW d \in Db, CreateDatabase(d)
      PROVE  Formed'
    <2>1. /\ db' = NewObject(d) /\ todo' = CloseObject(db') \o << <<"end">> >>
          /\ UNCHANGED <<files, cur, hurt>>
        BY <1>6 DEF CreateDatabase
    <2>2. Paired(db')
        BY <2>1, NewSound DEF Sound, Paired
    <2>3. todo' \in Seq(Made)
        BY <1>2, <2>1, <2>2, ObjectPlans
    <2>. QED
        BY <1>3, <2>1, <2>2, <2>3
<1>7. CASE CloseDatabase
    BY <1>2, <1>3, <1>7 DEF CloseDatabase
<1>8. ASSUME NEW t \in Tab, CreateTable(t)
      PROVE  Formed'
    <2>1. /\ cur # NoDb
          /\ data' = [data EXCEPT ![t] = TRUE]
          /\ held' = IF data[t] THEN held ELSE [held EXCEPT ![t] = Junk]
          /\ cur' = [cur EXCEPT
                        !.names = Append(@, t),
                        !.tables = Append(@, [file |-> t, val |-> Empty, dirty |-> TRUE]),
                        !.changed = TRUE]
          /\ UNCHANGED <<list, head, db, todo, hurt>>
        BY <1>8 DEF CreateTable
    <2>2. PICK m \in Manager : m = [file |-> t, val |-> Empty, dirty |-> TRUE] /\ m.file = t
        <3>1. Empty \in Value \cup {Junk}
            BY CatalogAssumption
        <3>2. [file |-> t, val |-> Empty, dirty |-> TRUE] \in Manager
            BY <3>1 DEF Manager
        <3>3. [file |-> t, val |-> Empty, dirty |-> TRUE].file = t
            OBVIOUS
        <3>. QED
            BY <3>2, <3>3
    <2>3. Paired(cur)
        BY <1>1, <2>1
    <2>4. Paired(cur')
        BY <2>1, <2>2, <2>3, PairedChanges
    <2>5. data' \in [Tab -> BOOLEAN] /\ held' \in [Tab -> Value \cup {Junk}]
        BY <1>1, <2>1
    <2>. QED
        BY <1>1, <2>1, <2>4, <2>5 DEF Formed
<1>9. ASSUME NEW t \in Tab, DropTable(t)
      PROVE  Formed'
    <2>1. PICK id \in TableId(t) :
              /\ cur # NoDb
              /\ todo' = DropTableFiles(cur.tables[id])
              /\ cur' = [cur EXCEPT !.names = RemoveAt(@, id),
                                    !.tables = RemoveAt(@, id),
                                    !.changed = TRUE]
              /\ UNCHANGED <<files, db, hurt>>
        BY <1>9 DEF DropTable, NamesClosedUp
    <2>2. Paired(cur) /\ id \in DOMAIN cur.names
        BY <1>1, <2>1 DEF TableId
    <2>3. Paired(cur')
        BY <2>1, <2>2, PairedChanges
    <2>4. cur.tables[id] \in Manager
        BY <2>2, PairedTables
    <2>5. todo' \in Seq(Made)
        BY <2>1, <2>4, TablePlans
    <2>. QED
        BY <1>1, <2>1, <2>3, <2>5 DEF Formed, files
<1>10. ASSUME NEW t \in Tab, NEW v \in Value, ChangeRows(t, v)
       PROVE  Formed'
    <2>1. PICK id \in TableId(t) :
              /\ cur # NoDb
              /\ cur' = [cur EXCEPT !.tables[id].val = IF @ = Junk THEN Junk ELSE v,
                                    !.tables[id].dirty = TRUE]
              /\ UNCHANGED <<files, db, todo, hurt>>
        BY <1>10 DEF ChangeRows
    <2>2. Paired(cur) /\ id \in DOMAIN cur.names
        BY <1>1, <2>1 DEF TableId
    <2>3. Paired(cur')
        BY <2>1, <2>2, PairedChanges
    <2>. QED
        BY <1>1, <2>1, <2>3 DEF Formed, files
<1>11. CASE Evict
    <2>1. PICK i \in DOMAIN cur.tables :
              /\ held' = [held EXCEPT ![cur.tables[i].file] = Junk]
              /\ UNCHANGED <<list, head, data, cur, db, todo, hurt>>
        BY <1>11 DEF Evict
    <2>2. held' \in [Tab -> Value \cup {Junk}]
        BY <1>1, <2>1
    <2>. QED
        BY <1>1, <2>1, <2>2 DEF Formed
<1>12. CASE Crash
    <2>1. Exposed \subseteq Db
        BY <1>1, PairedTables DEF Exposed, CurExposed
    <2>. QED
        BY <1>1, <1>2, <1>12, <2>1 DEF Crash, files, Formed
<1>13. CASE UNCHANGED vars
    BY <1>1, <1>13 DEF vars, files, Formed
<1>. QED
    BY <1>4, <1>5, <1>6, <1>7, <1>8, <1>9, <1>10, <1>11, <1>12, <1>13 DEF Next

(* It holds before the first statement, and says what memory holds.        *)
LEMMA FormedInit == Init => Formed
BY DEF Init, Formed

LEMMA FormedSound == Formed /\ Unread = TRUE => ObjectsSound
<1>. SUFFICES ASSUME Formed, Unread = TRUE PROVE ObjectsSound
    OBVIOUS
<1>1. \A o \in Objects : Paired(o)
    BY DEF Formed, Objects
<1>2. TypeOK
    BY <1>1 DEF TypeOK, Formed, Paired
<1>3. SlotsAgree
    BY <1>1 DEF SlotsAgree, Paired
<1>. QED
    BY <1>2, <1>3 DEF ObjectsSound

(* Whatever is created, dropped, opened or lost, the two arrays of an open *)
(* database agree, be it opened of a list that is missing or damaged; and  *)
(* where no statement opens one of those, no table is named twice.         *)
THEOREM ObjectsStaySound == Spec => []ObjectsSound
<1>1. CASE Unread = FALSE
    <2>1. Spec => []Openable
        BY <1>1, OpenableInit, OpenableNext, PTL DEF Spec
    <2>. QED
        BY <2>1, OpenableSound, PTL
<1>2. CASE Unread = TRUE
    <2>1. Spec => []Formed
        BY FormedInit, FormedNext, PTL DEF Spec
    <2>2. Formed => ObjectsSound
        BY <1>2, FormedSound
    <2>. QED
        BY <2>1, <2>2, PTL
<1>. QED
    BY <1>1, <1>2, CatalogAssumption
-----------------------------------------------------------------------------
(* The databases nobody works on: what their files hold, or will hold once *)
(* the plan has run.  Where no two databases may have a table of the same  *)
(* name, for a table's files carry its name only.                          *)
HomesApart == \A d, e \in Db : d # e => Home[d] \cap Home[e] = {}

Gone(t) == HeadEnds(t, "none") /\ DataEnds(t, FALSE)

Whole(t) == HeadEnds(t, "ok") /\ DataEnds(t, TRUE) /\ \E v \in Value : HeldEnds(t, v)

Good(d) ==
    \/ ListEnds(d, Missing) /\ \A t \in Home[d] : Gone(t)
    \/ \E l \in Names(d) :
          /\ ListEnds(d, l)
          /\ \A t \in Home[d] : IF In(l, t) THEN Whole(t) ELSE Gone(t)

(* The database in use: what memory has and the files do not is written    *)
(* when it is closed.                                                      *)
Holds(m) ==
    /\ m.val # Junk
    /\ DataEnds(m.file, TRUE)
    /\ ~m.dirty => HeadEnds(m.file, "ok") /\ HeldEnds(m.file, m.val)

CurGood ==
    /\ \E l \in Names(cur.name) : ListEnds(cur.name, l) /\ (~cur.changed => l = cur.names)
    /\ \A i \in DOMAIN cur.tables : Holds(cur.tables[i])
    /\ \A t \in Home[cur.name] : ~In(cur.names, t) => Gone(t)

Closing == \E k \in DOMAIN todo : todo[k] = <<"leave">>

Fine(d) == IF InUse(d) /\ ~Closing THEN CurGood ELSE Good(d)

Healthy == \A d \in Db \ hurt : Fine(d)

(* The plan leaves the files of d alone; a step does; what they end as     *)
(* stays.                                                                  *)
Still(s, d) ==
    /\ \A t \in Home[d] : /\ Idles(s, HeadSets(t))
                          /\ Idles(s, DataSets(t))
                          /\ Idles(s, HeldSets(t))
    /\ Idles(s, ListSets(d))

SameFiles(d) ==
    /\ \A t \in Home[d] : head'[t] = head[t] /\ data'[t] = data[t] /\ held'[t] = held[t]
    /\ list'[d] = list[d]

Carries(d) ==
    /\ \A t \in Home[d] : \A x : /\ HeadEnds(t, x) => HeadEnds(t, x)'
                                 /\ DataEnds(t, x) => DataEnds(t, x)'
                                 /\ HeldEnds(t, x) => HeldEnds(t, x)'
    /\ \A x : ListEnds(d, x) => ListEnds(d, x)'

(* What idles before and after, on files a step leaves alone, ends alike.  *)
LEMMA StillCarries ==
    ASSUME NEW d \in Db, Still(todo, d), Still(todo', d), SameFiles(d)
    PROVE  Carries(d)
<1>1. ASSUME NEW t \in Home[d], NEW x
      PROVE  /\ HeadEnds(t, x) => HeadEnds(t, x)'
             /\ DataEnds(t, x) => DataEnds(t, x)'
             /\ HeldEnds(t, x) => HeldEnds(t, x)'
    <2>1. head'[t] = head[t] /\ data'[t] = data[t] /\ held'[t] = held[t]
        BY DEF SameFiles
    <2>2. /\ HeadEnds(t, x) <=> x = head[t]
          /\ DataEnds(t, x) <=> x = data[t]
          /\ HeldEnds(t, x) <=> x = held[t]
        BY LeadsIdle DEF Still, HeadEnds, DataEnds, HeldEnds
    <2>3. /\ Leads(todo', HeadSets(t), head'[t], x) <=> x = head'[t]
          /\ Leads(todo', DataSets(t), data'[t], x) <=> x = data'[t]
          /\ Leads(todo', HeldSets(t), held'[t], x) <=> x = held'[t]
        BY LeadsIdle DEF Still
    <2>. QED
        BY <2>1, <2>2, <2>3 DEF HeadEnds, DataEnds, HeldEnds
<1>2. ASSUME NEW x
      PROVE  ListEnds(d, x) => ListEnds(d, x)'
    <2>1. ListEnds(d, x) <=> x = list[d]
        BY LeadsIdle DEF Still, ListEnds
    <2>2. Leads(todo', ListSets(d), list'[d], x) <=> x = list'[d]
        BY LeadsIdle DEF Still
    <2>. QED
        BY <2>1, <2>2 DEF ListEnds, SameFiles
<1>. QED
    BY <1>1, <1>2 DEF Carries

(* What the files end as is what makes a database good.                    *)
LEMMA GoodKept ==
    ASSUME NEW d \in Db, Carries(d), Good(d)
    PROVE  Good(d)'
<1>1. \A t \in Home[d] : (Gone(t) => Gone(t)') /\ (Whole(t) => Whole(t)')
    BY DEF Carries, Gone, Whole
<1>2. \A x : ListEnds(d, x) => ListEnds(d, x)'
    BY DEF Carries
<1>3. CASE ListEnds(d, Missing) /\ \A t \in Home[d] : Gone(t)
    BY <1>1, <1>2, <1>3 DEF Good
<1>4. CASE \E l \in Names(d) : /\ ListEnds(d, l)
                               /\ \A t \in Home[d] : IF In(l, t) THEN Whole(t) ELSE Gone(t)
    BY <1>1, <1>2, <1>4 DEF Good
<1>. QED
    BY <1>3, <1>4 DEF Good

(* Nor does a step that keeps them harm the database in use. *)
LEMMA CurGoodKept ==
    ASSUME Typed, cur # NoDb, Carries(cur.name), CurGood, UNCHANGED cur
    PROVE  CurGood'
<1>1. Sound(cur)
    BY DEF Typed
<1>2. cur' = cur /\ \A i \in DOMAIN cur.tables : cur.tables[i].file \in Home[cur.name]
    BY <1>1, ObjectTables DEF Managers
<1>3. \A t \in Home[cur.name] : Gone(t) => Gone(t)'
    BY DEF Carries, Gone
<1>4. ASSUME NEW i \in DOMAIN cur.tables
      PROVE  Holds(cur.tables[i])'
    <2>1. Holds(cur.tables[i]) /\ cur.tables[i].file \in Home[cur.name]
        BY <1>2 DEF CurGood
    <2>2. PICK m : m = cur.tables[i]
        OBVIOUS
    <2>3. Holds(m) /\ m.file \in Home[cur.name]
        BY <2>1, <2>2
    <2>4. Holds(m)'
        BY <2>3 DEF Holds, Carries
    <2>. QED
        BY <1>2, <2>2, <2>4
<1>5. PICK l \in Names(cur.name) : ListEnds(cur.name, l)' /\ (~cur.changed => l = cur.names)
    BY DEF CurGood, Carries
<1>. QED
    BY <1>2, <1>3, <1>4, <1>5 DEF CurGood

(* So every database is as fine as it was. *)
LEMMA FineKept ==
    ASSUME Typed, NEW d \in Db, Carries(d), Fine(d), InUse(d)' <=> InUse(d),
           InUse(d) => UNCHANGED cur /\ (Closing' <=> Closing)
    PROVE  Fine(d)'
<1>1. CASE InUse(d) /\ ~Closing
    <2>1. cur # NoDb /\ cur.name = d /\ CurGood /\ UNCHANGED cur
        BY <1>1 DEF Fine, InUse
    <2>2. CurGood'
        BY <2>1, CurGoodKept
    <2>. QED
        BY <1>1, <2>2 DEF Fine
<1>2. CASE ~(InUse(d) /\ ~Closing)
    <2>1. Good(d)'
        BY <1>2, GoodKept DEF Fine
    <2>. QED
        BY <1>2, <2>1 DEF Fine
<1>. QED
    BY <1>1, <1>2

(* An empty plan leaves every file alone. *)
LEMMA IdleStill == ASSUME NEW d, NEW s, s = <<>> PROVE Still(s, d)
<1>1. DOMAIN s = {}
    OBVIOUS
<1>. QED
    BY <1>1 DEF Still, Idles

(* Work on one database leaves the files of the others alone.              *)
LEMMA ElsewhereStill ==
    ASSUME HomesApart, NEW d \in Db, NEW e \in Db, d # e, NEW s \in Seq(Work(d))
    PROVE  Still(s, e)
<1>1. \A t \in Home[e] : t \notin Home[d]
    BY DEF HomesApart
<1>. QED
    BY <1>1, ElsewhereIdles DEF Still

(* A last step that is no work on files changes nothing about that.        *)
LEMMA StillThen ==
    ASSUME NEW d, NEW p \in Seq(Steps), NEW e \in Turns \cup {<<"leave">>, <<"end">>},
           Still(p, d)
    PROVE  Still(p \o <<e>>, d)
<1>1. e \in Steps
    BY DEF Steps
<1>2. \A t : /\ HeadSets(t)[e] = {} /\ DataSets(t)[e] = {} /\ HeldSets(t)[e] = {}
             /\ ListSets(t)[e] = {}
    BY <1>1, TurnSets
<1>3. \A E : E[e] = {} /\ Idles(p, E) => Idles(p \o <<e>>, E)
    BY <1>1, OneMore
<1>. QED
    BY <1>2, <1>3 DEF Still

(* Closing the database in use leaves the files of the others alone.       *)
LEMMA CloseCurStill ==
    ASSUME HomesApart, Typed, NEW d \in Db, ~InUse(d)
    PROVE  CloseCur \in Seq(Steps) /\ Still(CloseCur, d)
<1>1. CloseCur \in Seq(Steps)
    <2>1. Plain \subseteq Steps
        BY DEF Plain, Steps
    <2>. QED
        BY <2>1, ClosePlans
<1>2. CASE cur = NoDb
    BY <1>1, <1>2, IdleStill DEF CloseCur
<1>3. CASE cur # NoDb
    <2>1. PICK c \in Db : c = cur.name /\ Sound(cur) /\ c # d
        BY <1>3, ObjectTables DEF Typed, InUse
    <2>2. PICK p \in Seq(Work(c)) : p = CloseObject(cur)
        BY <2>1, CloseObjectLeads
    <2>3. p \in Seq(Steps)
        <3>1. Work(c) \subseteq Steps
            BY DEF Steps
        <3>. QED
            BY <3>1
    <2>4. Still(p, d)
        BY <2>1, ElsewhereStill
    <2>5. PICK e \in Turns \cup {<<"leave">>, <<"end">>} : e = <<"leave">>
        OBVIOUS
    <2>6. CloseCur = p \o <<e>>
        BY <1>3, <2>2, <2>5 DEF CloseCur
    <2>. QED
        BY <1>1, <2>3, <2>4, <2>6, StillThen
<1>. QED
    BY <1>2, <1>3

(* What the files of a database hold where the plan leaves them alone.     *)
NowGone(t) == head[t] = "none" /\ data[t] = FALSE

NowWhole(t) == head[t] = "ok" /\ data[t] = TRUE /\ held[t] \in Value

NowGood(d) ==
    \/ list[d] = Missing /\ \A t \in Home[d] : NowGone(t)
    \/ /\ list[d] \in Names(d)
       /\ \A t \in Home[d] : IF In(list[d], t) THEN NowWhole(t) ELSE NowGone(t)

(* What is not to change ends as it is. *)
LEMMA NowEnds ==
    ASSUME NEW d \in Db, Still(todo, d)
    PROVE  /\ \A t \in Home[d] : \A x : /\ HeadEnds(t, x) <=> x = head[t]
                                        /\ DataEnds(t, x) <=> x = data[t]
                                        /\ HeldEnds(t, x) <=> x = held[t]
           /\ \A x : ListEnds(d, x) <=> x = list[d]
<1>1. ASSUME NEW t \in Home[d], NEW x
      PROVE  /\ HeadEnds(t, x) <=> x = head[t]
             /\ DataEnds(t, x) <=> x = data[t]
             /\ HeldEnds(t, x) <=> x = held[t]
    BY LeadsIdle DEF Still, HeadEnds, DataEnds, HeldEnds
<1>2. ASSUME NEW x
      PROVE  ListEnds(d, x) <=> x = list[d]
    BY LeadsIdle DEF Still, ListEnds
<1>. QED
    BY <1>1, <1>2

(* So a database at rest is good if its files are. *)
LEMMA GoodNow ==
    ASSUME NEW d \in Db, Still(todo, d)
    PROVE  Good(d) <=> NowGood(d)
<1>1. /\ \A t \in Home[d] : (Gone(t) <=> NowGone(t)) /\ (Whole(t) <=> NowWhole(t))
      /\ \A x : ListEnds(d, x) <=> x = list[d]
    BY NowEnds DEF Gone, Whole, NowGone, NowWhole
<1>2. ASSUME Good(d) PROVE NowGood(d)
    BY <1>1, <1>2 DEF Good, NowGood
<1>3. ASSUME NowGood(d) PROVE Good(d)
    BY <1>1, <1>3 DEF Good, NowGood
<1>. QED
    BY <1>2, <1>3

(* And what those of the database in use hold. *)
NowHolds(m) ==
    /\ m.val # Junk
    /\ data[m.file] = TRUE
    /\ ~m.dirty => head[m.file] = "ok" /\ held[m.file] = m.val

NowCurGood ==
    /\ list[cur.name] \in Names(cur.name)
    /\ ~cur.changed => list[cur.name] = cur.names
    /\ \A i \in DOMAIN cur.tables : NowHolds(cur.tables[i])
    /\ \A t \in Home[cur.name] : ~In(cur.names, t) => NowGone(t)

(* And the database in use is. *)
LEMMA CurGoodNow ==
    ASSUME Typed, cur # NoDb, Still(todo, cur.name)
    PROVE  CurGood <=> NowCurGood
<1>1. cur.name \in Db /\ \A i \in DOMAIN cur.tables : cur.tables[i].file \in Home[cur.name]
    BY ObjectTables DEF Typed, Managers
<1>2. /\ \A t \in Home[cur.name] : \A x : /\ HeadEnds(t, x) <=> x = head[t]
                                          /\ DataEnds(t, x) <=> x = data[t]
                                          /\ HeldEnds(t, x) <=> x = held[t]
      /\ \A x : ListEnds(cur.name, x) <=> x = list[cur.name]
    BY <1>1, NowEnds
<1>3. \A i \in DOMAIN cur.tables : Holds(cur.tables[i]) <=> NowHolds(cur.tables[i])
    <2>. SUFFICES ASSUME NEW i \in DOMAIN cur.tables
                  PROVE  Holds(cur.tables[i]) <=> NowHolds(cur.tables[i])
        OBVIOUS
    <2>1. PICK m : m = cur.tables[i] /\ m.file \in Home[cur.name]
        BY <1>1
    <2>2. Holds(m) <=> NowHolds(m)
        BY <1>2, <2>1 DEF Holds, NowHolds
    <2>. QED
        BY <2>1, <2>2
<1>4. \A t \in Home[cur.name] : Gone(t) <=> NowGone(t)
    BY <1>2 DEF Gone, NowGone
<1>. QED
    BY <1>2, <1>3, <1>4 DEF CurGood, NowCurGood

(* What a plan fixes and what it leaves alone is how the files end.        *)
LEMMA EndsNext ==
    /\ \A t, x : /\ Fixes(todo', HeadSets(t), x) => HeadEnds(t, x)'
                 /\ Fixes(todo', DataSets(t), x) => DataEnds(t, x)'
                 /\ Fixes(todo', HeldSets(t), x) => HeldEnds(t, x)'
                 /\ Fixes(todo', ListSets(t), x) => ListEnds(t, x)'
    /\ \A t, x : /\ Idles(todo', HeadSets(t)) /\ x = head'[t] => HeadEnds(t, x)'
                 /\ Idles(todo', DataSets(t)) /\ x = data'[t] => DataEnds(t, x)'
                 /\ Idles(todo', HeldSets(t)) /\ x = held'[t] => HeldEnds(t, x)'
                 /\ Idles(todo', ListSets(t)) /\ x = list'[t] => ListEnds(t, x)'
<1>1. \A t, x : /\ HeadEnds(t, x)' <=> Leads(todo', HeadSets(t), head'[t], x)
                /\ DataEnds(t, x)' <=> Leads(todo', DataSets(t), data'[t], x)
                /\ HeldEnds(t, x)' <=> Leads(todo', HeldSets(t), held'[t], x)
                /\ ListEnds(t, x)' <=> Leads(todo', ListSets(t), list'[t], x)
    BY DEF HeadEnds, DataEnds, HeldEnds, ListEnds
<1>2. \A s, E, v, x : /\ Fixes(s, E, x) => Leads(s, E, v, x)
                      /\ Idles(s, E) /\ x = v => Leads(s, E, v, x)
    BY DEF Leads
<1>. QED
    BY <1>1, <1>2

(* Closing an object, and a step that is no work on files.                 *)
LEMMA CloseThen ==
    ASSUME NEW o, Sound(o), NEW e \in Turns \cup {<<"leave">>, <<"end">>},
           NEW s, s = CloseObject(o) \o <<e>>
    PROVE  /\ s \in Seq(Steps)
           /\ Fixes(s, ListSets(o.name), o.names)
           /\ \A i \in DOMAIN o.tables :
                 /\ Fixes(s, HeadSets(o.tables[i].file), "ok")
                 /\ o.tables[i].dirty => Fixes(s, HeldSets(o.tables[i].file), o.tables[i].val)
                 /\ ~o.tables[i].dirty => Idles(s, HeldSets(o.tables[i].file))
           /\ \A t : ~In(o.names, t) => Idles(s, HeadSets(t)) /\ Idles(s, HeldSets(t))
           /\ \A t : Idles(s, DataSets(t))
<1>1. o.name \in Db /\ Work(o.name) \subseteq Steps
    BY ObjectTables DEF Steps
<1>2. PICK p \in Seq(Steps) : p = CloseObject(o)
    <2>1. CloseObject(o) \in Seq(Work(o.name))
        BY CloseObjectLeads
    <2>. QED
        BY <1>1, <2>1
<1>3. e \in Steps
    BY DEF Steps
<1>4. \A t : /\ HeadSets(t)[e] = {} /\ DataSets(t)[e] = {} /\ HeldSets(t)[e] = {}
             /\ ListSets(t)[e] = {}
    BY <1>3, TurnSets
<1>5. s \in Seq(Steps) /\ s = p \o <<e>>
    BY <1>2, <1>3
<1>6. ASSUME NEW E, E[e] = {}
      PROVE  (\A x : Fixes(p, E, x) => Fixes(s, E, x)) /\ (Idles(p, E) => Idles(s, E))
    <2>1. /\ \A x : Fixes(p, E, x) => Fixes(p \o <<e>>, E, x)
          /\ Idles(p, E) => Idles(p \o <<e>>, E)
        BY <1>3, <1>6, OneMore
    <2>. QED
        BY <1>5, <2>1
<1>7. /\ Fixes(p, ListSets(o.name), o.names)
      /\ \A i \in DOMAIN o.tables :
            /\ Fixes(p, HeadSets(o.tables[i].file), "ok")
            /\ o.tables[i].dirty => Fixes(p, HeldSets(o.tables[i].file), o.tables[i].val)
            /\ ~o.tables[i].dirty => Idles(p, HeldSets(o.tables[i].file))
      /\ \A t : ~In(o.names, t) => Idles(p, HeadSets(t)) /\ Idles(p, HeldSets(t))
      /\ \A t : Idles(p, DataSets(t))
    BY <1>2, CloseObjectLeads
<1>8. /\ \A t, x : /\ Fixes(p, HeadSets(t), x) => Fixes(s, HeadSets(t), x)
                   /\ Fixes(p, HeldSets(t), x) => Fixes(s, HeldSets(t), x)
                   /\ Fixes(p, ListSets(t), x) => Fixes(s, ListSets(t), x)
      /\ \A t : /\ Idles(p, HeadSets(t)) => Idles(s, HeadSets(t))
                /\ Idles(p, HeldSets(t)) => Idles(s, HeldSets(t))
                /\ Idles(p, DataSets(t)) => Idles(s, DataSets(t))
    BY <1>4, <1>6
<1>. QED
    BY <1>5, <1>7, <1>8

(* Dropping an object likewise. *)
LEMMA DropThen ==
    ASSUME NEW o, Sound(o), NEW e \in Turns \cup {<<"leave">>, <<"end">>},
           NEW s, s = DropObject(o) \o <<e>>
    PROVE  /\ s \in Seq(Steps)
           /\ Fixes(s, ListSets(o.name), Missing)
           /\ \A i \in DOMAIN o.tables :
                 /\ Fixes(s, HeadSets(o.tables[i].file), "none")
                 /\ Fixes(s, DataSets(o.tables[i].file), FALSE)
           /\ \A t : ~In(o.names, t) => Idles(s, HeadSets(t)) /\ Idles(s, DataSets(t))
<1>1. o.name \in Db /\ Work(o.name) \subseteq Steps
    BY ObjectTables DEF Steps
<1>2. PICK p \in Seq(Steps) : p = DropObject(o)
    <2>1. DropObject(o) \in Seq(Work(o.name))
        BY DropObjectLeads
    <2>. QED
        BY <1>1, <2>1
<1>3. e \in Steps
    BY DEF Steps
<1>4. \A t : /\ HeadSets(t)[e] = {} /\ DataSets(t)[e] = {} /\ ListSets(t)[e] = {}
    BY <1>3, TurnSets
<1>5. s \in Seq(Steps) /\ s = p \o <<e>>
    BY <1>2, <1>3
<1>6. ASSUME NEW E, E[e] = {}
      PROVE  (\A x : Fixes(p, E, x) => Fixes(s, E, x)) /\ (Idles(p, E) => Idles(s, E))
    <2>1. /\ \A x : Fixes(p, E, x) => Fixes(p \o <<e>>, E, x)
          /\ Idles(p, E) => Idles(p \o <<e>>, E)
        BY <1>3, <1>6, OneMore
    <2>. QED
        BY <1>5, <2>1
<1>7. /\ Fixes(p, ListSets(o.name), Missing)
      /\ \A i \in DOMAIN o.tables :
            /\ Fixes(p, HeadSets(o.tables[i].file), "none")
            /\ Fixes(p, DataSets(o.tables[i].file), FALSE)
      /\ \A t : ~In(o.names, t) => Idles(p, HeadSets(t)) /\ Idles(p, DataSets(t))
    BY <1>2, DropObjectLeads
<1>8. /\ \A t, x : /\ Fixes(p, HeadSets(t), x) => Fixes(s, HeadSets(t), x)
                   /\ Fixes(p, DataSets(t), x) => Fixes(s, DataSets(t), x)
                   /\ Fixes(p, ListSets(t), x) => Fixes(s, ListSets(t), x)
      /\ \A t : /\ Idles(p, HeadSets(t)) => Idles(s, HeadSets(t))
                /\ Idles(p, DataSets(t)) => Idles(s, DataSets(t))
    BY <1>4, <1>6
<1>. QED
    BY <1>5, <1>7, <1>8

(* Closing the database in use makes a good one of it.                     *)
LEMMA CloseCurThen ==
    ASSUME Typed, cur # NoDb, NEW p, p = CloseCur \/
           \E e \in Turns \cup {<<"leave">>, <<"end">>} : p = CloseCur \o <<e>>
    PROVE  /\ Fixes(p, ListSets(cur.name), cur.names)
           /\ \A i \in DOMAIN cur.tables :
                 /\ Fixes(p, HeadSets(cur.tables[i].file), "ok")
                 /\ cur.tables[i].dirty =>
                        Fixes(p, HeldSets(cur.tables[i].file), cur.tables[i].val)
                 /\ ~cur.tables[i].dirty => Idles(p, HeldSets(cur.tables[i].file))
           /\ \A t : ~In(cur.names, t) => Idles(p, HeadSets(t)) /\ Idles(p, HeldSets(t))
           /\ \A t : Idles(p, DataSets(t))
<1>1. Plain \subseteq Steps
    BY DEF Plain, Steps
<1>2. PICK q \in Seq(Steps) : q = CloseCur
    BY <1>1, ClosePlans
<1>3. /\ Fixes(q, ListSets(cur.name), cur.names)
      /\ \A i \in DOMAIN cur.tables :
            /\ Fixes(q, HeadSets(cur.tables[i].file), "ok")
            /\ cur.tables[i].dirty => Fixes(q, HeldSets(cur.tables[i].file), cur.tables[i].val)
            /\ ~cur.tables[i].dirty => Idles(q, HeldSets(cur.tables[i].file))
      /\ \A t : ~In(cur.names, t) => Idles(q, HeadSets(t)) /\ Idles(q, HeldSets(t))
      /\ \A t : Idles(q, DataSets(t))
    BY <1>2, CloseCurLeads
<1>4. CASE p = CloseCur
    BY <1>2, <1>3, <1>4
<1>5. ASSUME NEW e \in Turns \cup {<<"leave">>, <<"end">>}, p = q \o <<e>>
      PROVE  /\ \A t, x : /\ Fixes(q, HeadSets(t), x) => Fixes(p, HeadSets(t), x)
                          /\ Fixes(q, HeldSets(t), x) => Fixes(p, HeldSets(t), x)
                          /\ Fixes(q, ListSets(t), x) => Fixes(p, ListSets(t), x)
             /\ \A t : /\ Idles(q, HeadSets(t)) => Idles(p, HeadSets(t))
                       /\ Idles(q, HeldSets(t)) => Idles(p, HeldSets(t))
                       /\ Idles(q, DataSets(t)) => Idles(p, DataSets(t))
    <2>1. e \in Steps
        BY DEF Steps
    <2>2. \A t : /\ HeadSets(t)[e] = {} /\ DataSets(t)[e] = {} /\ HeldSets(t)[e] = {}
                 /\ ListSets(t)[e] = {}
        BY <2>1, TurnSets
    <2>3. \A E : E[e] = {} => /\ \A x : Fixes(q, E, x) => Fixes(p, E, x)
                              /\ Idles(q, E) => Idles(p, E)
        BY <1>5, <2>1, OneMore
    <2>. QED
        BY <2>2, <2>3
<1>. QED
    BY <1>2, <1>3, <1>4, <1>5

(* Closing the database in use leaves its files good. *)
LEMMA ClosedGood ==
    ASSUME Typed, cur # NoDb, Still(todo, cur.name), CurGood, UNCHANGED files,
           NEW d \in Db, d = cur.name,
           todo' = CloseCur \/
           \E e \in Turns \cup {<<"leave">>, <<"end">>} : todo' = CloseCur \o <<e>>
    PROVE  Good(d)'
<1>1. PICK l \in Names(d) : l = cur.names /\ Sound(cur)
    BY DEF Typed, Sound
<1>2. UNCHANGED <<list, head, data, held>>
    BY DEF files
<1>3. PICK p : p = todo' /\ (p = CloseCur \/
           \E e \in Turns \cup {<<"leave">>, <<"end">>} : p = CloseCur \o <<e>>)
    OBVIOUS
<1>4. /\ Fixes(p, ListSets(d), l)
      /\ \A i \in DOMAIN cur.tables :
            /\ Fixes(p, HeadSets(cur.tables[i].file), "ok")
            /\ cur.tables[i].dirty => Fixes(p, HeldSets(cur.tables[i].file), cur.tables[i].val)
            /\ ~cur.tables[i].dirty => Idles(p, HeldSets(cur.tables[i].file))
      /\ \A t : ~In(l, t) => Idles(p, HeadSets(t)) /\ Idles(p, HeldSets(t))
      /\ \A t : Idles(p, DataSets(t))
    BY <1>1, <1>3, CloseCurThen
<1>5. NowCurGood
    BY CurGoodNow
<1>6. ListEnds(d, l)'
    BY <1>3, <1>4, EndsNext
<1>7. ASSUME NEW t \in Home[d], In(l, t)
      PROVE  Whole(t)'
    <2>1. PICK i \in DOMAIN cur.names : cur.names[i] = t
        BY <1>1, <1>7 DEF In
    <2>2. i \in DOMAIN cur.tables /\ cur.tables[i] \in Managers(d) /\ cur.tables[i].file = t
        BY <1>1, <2>1, ObjectTables
    <2>3. PICK m \in Managers(d) : m = cur.tables[i] /\ m.file = t
        BY <2>2
    <2>4. NowHolds(m)
        BY <1>5, <2>2, <2>3 DEF NowCurGood
    <2>5. m.val \in Value
        BY <2>4 DEF Managers, NowHolds
    <2>6. HeadEnds(t, "ok")'
        BY <1>3, <1>4, <2>2, EndsNext
    <2>7. DataEnds(t, TRUE)'
        <3>1. data'[t] = TRUE
            BY <1>2, <2>3, <2>4 DEF NowHolds
        <3>. QED
            BY <1>3, <1>4, <3>1, EndsNext
    <2>8. HeldEnds(t, m.val)'
        <3>1. CASE m.dirty
            BY <1>3, <1>4, <2>2, <2>3, <3>1, EndsNext
        <3>2. CASE ~m.dirty
            <4>1. held'[t] = m.val
                BY <1>2, <2>3, <2>4, <3>2 DEF NowHolds
            <4>. QED
                BY <1>3, <1>4, <2>2, <2>3, <3>2, <4>1, EndsNext
        <3>. QED
            BY <3>1, <3>2
    <2>. QED
        BY <2>5, <2>6, <2>7, <2>8 DEF Whole
<1>8. ASSUME NEW t \in Home[d], ~In(l, t)
      PROVE  Gone(t)'
    <2>1. head'[t] = "none" /\ data'[t] = FALSE
        BY <1>1, <1>2, <1>5, <1>8 DEF NowCurGood, NowGone
    <2>2. HeadEnds(t, "none")' /\ DataEnds(t, FALSE)'
        BY <1>3, <1>4, <1>8, <2>1, EndsNext
    <2>. QED
        BY <2>2 DEF Gone
<1>. QED
    BY <1>6, <1>7, <1>8 DEF Good

(* Opening a good database changes no file, and opening any changes none   *)
(* of another.                                                             *)
LEMMA OpenedSame ==
    ASSUME Typed, NEW d \in Db, FilesOpen(d), list[d] \in Names(d)
    PROVE  /\ (\A t \in Home[d] : In(list[d], t) => NowWhole(t)) => SameFiles(d)
           /\ HomesApart => \A f \in Db \ {d} : SameFiles(f)
<1>1. /\ UNCHANGED <<list, head>>
      /\ \A t \in Tab : /\ data'[t] = (data[t] \/ t \in Listed(d))
                        /\ held'[t] = IF t \in Listed(d) THEN OnDisk(t) ELSE held[t]
    BY FilesOpened
<1>2. \A t : t \in Listed(d) <=> In(list[d], t)
    BY DEF Listed, In
<1>3. \A f \in Db : \A t \in Home[f] : t \in Tab
    BY DEF Tab
<1>4. \A t \in Tab : data[t] \in BOOLEAN
    BY DEF Typed
<1>5. \A f \in Db : \A t \in Home[f] : t \notin Listed(d) => data'[t] = data[t] /\ held'[t] = held[t]
    BY <1>1, <1>3, <1>4
<1>6. ASSUME \A t \in Home[d] : In(list[d], t) => NowWhole(t)
      PROVE  SameFiles(d)
    <2>1. \A t \in Home[d] : t \in Listed(d) => data'[t] = data[t] /\ held'[t] = held[t]
        BY <1>1, <1>2, <1>3, <1>6 DEF NowWhole, OnDisk, Complete
    <2>. QED
        BY <1>1, <1>5, <2>1 DEF SameFiles
<1>7. ASSUME HomesApart, NEW f \in Db \ {d}
      PROVE  SameFiles(f)
    <2>1. \A t \in Listed(d) : t \in Home[d]
        <3>1. list[d] \in Seq(Home[d])
            BY DEF Names
        <3>2. DOMAIN list[d] = 1 .. Len(list[d])
            BY <3>1, LenProperties
        <3>3. \A i \in DOMAIN list[d] : list[d][i] \in Home[d]
            BY <3>1, <3>2, ElementOfSeq
        <3>. QED
            BY <3>3 DEF Listed
    <2>2. \A t \in Home[f] : t \notin Listed(d)
        BY <1>7, <2>1 DEF HomesApart
    <2>. QED
        BY <1>1, <1>5, <2>2 DEF SameFiles
<1>. QED
    BY <1>6, <1>7

(* A plan that closes an object nobody changed ends in a good database.    *)
LEMMA CloseGood ==
    ASSUME NEW o, Sound(o), NEW d \in Db, d = o.name,
           \A i \in DOMAIN o.tables : ~o.tables[i].dirty,
           NEW e \in Turns \cup {<<"leave">>, <<"end">>}, todo' = CloseObject(o) \o <<e>>,
           SameFiles(d),
           \A t \in Home[d] : IF In(o.names, t) THEN NowWhole(t) ELSE NowGone(t)
    PROVE  Good(d)'
<1>1. PICK l \in Names(d) : l = o.names
    BY DEF Sound
<1>2. PICK p : p = todo' /\ p = CloseObject(o) \o <<e>>
    OBVIOUS
<1>3. /\ Fixes(p, ListSets(d), l)
      /\ \A i \in DOMAIN o.tables :
            /\ Fixes(p, HeadSets(o.tables[i].file), "ok")
            /\ Idles(p, HeldSets(o.tables[i].file))
      /\ \A t : ~In(l, t) => Idles(p, HeadSets(t)) /\ Idles(p, HeldSets(t))
      /\ \A t : Idles(p, DataSets(t))
    BY <1>1, <1>2, CloseThen
<1>4. \A t \in Home[d] : head'[t] = head[t] /\ data'[t] = data[t] /\ held'[t] = held[t]
    BY DEF SameFiles
<1>5. ListEnds(d, l)'
    BY <1>2, <1>3, EndsNext
<1>6. ASSUME NEW t \in Home[d], In(l, t)
      PROVE  Whole(t)'
    <2>1. PICK i \in DOMAIN o.names : o.names[i] = t
        BY <1>1, <1>6 DEF In
    <2>2. i \in DOMAIN o.tables /\ o.tables[i].file = t
        BY <2>1, ObjectTables
    <2>3. data'[t] = TRUE /\ held'[t] \in Value
        BY <1>1, <1>4, <1>6 DEF NowWhole
    <2>4. HeadEnds(t, "ok")'
        BY <1>2, <1>3, <2>2, EndsNext
    <2>5. DataEnds(t, TRUE)'
        BY <1>2, <1>3, <2>3, EndsNext
    <2>6. PICK v \in Value : v = held'[t]
        BY <2>3
    <2>7. HeldEnds(t, v)'
        BY <1>2, <1>3, <2>2, <2>6, EndsNext
    <2>. QED
        BY <2>4, <2>5, <2>7 DEF Whole
<1>7. ASSUME NEW t \in Home[d], ~In(l, t)
      PROVE  Gone(t)'
    <2>1. head'[t] = "none" /\ data'[t] = FALSE
        BY <1>1, <1>4, <1>7 DEF NowGone
    <2>2. HeadEnds(t, "none")' /\ DataEnds(t, FALSE)'
        BY <1>2, <1>3, <1>7, <2>1, EndsNext
    <2>. QED
        BY <2>2 DEF Gone
<1>. QED
    BY <1>5, <1>6, <1>7 DEF Good

(* A plan that drops an object ends with nothing left of it.               *)
LEMMA DropGood ==
    ASSUME NEW o, Sound(o), NEW d \in Db, d = o.name,
           NEW e \in Turns \cup {<<"leave">>, <<"end">>}, todo' = DropObject(o) \o <<e>>,
           SameFiles(d), \A t \in Home[d] : ~In(o.names, t) => NowGone(t)
    PROVE  Good(d)'
<1>1. PICK p : p = todo' /\ p = DropObject(o) \o <<e>>
    OBVIOUS
<1>2. /\ Fixes(p, ListSets(d), Missing)
      /\ \A i \in DOMAIN o.tables :
            /\ Fixes(p, HeadSets(o.tables[i].file), "none")
            /\ Fixes(p, DataSets(o.tables[i].file), FALSE)
      /\ \A t : ~In(o.names, t) => Idles(p, HeadSets(t)) /\ Idles(p, DataSets(t))
    BY <1>1, DropThen
<1>3. ListEnds(d, Missing)'
    BY <1>1, <1>2, EndsNext
<1>4. ASSUME NEW t \in Home[d], In(o.names, t)
      PROVE  Gone(t)'
    <2>1. PICK i \in DOMAIN o.names : o.names[i] = t
        BY <1>4 DEF In
    <2>2. i \in DOMAIN o.tables /\ o.tables[i].file = t
        BY <2>1, ObjectTables
    <2>3. HeadEnds(t, "none")' /\ DataEnds(t, FALSE)'
        BY <1>1, <1>2, <2>2, EndsNext
    <2>. QED
        BY <2>3 DEF Gone
<1>5. ASSUME NEW t \in Home[d], ~In(o.names, t)
      PROVE  Gone(t)'
    <2>1. head'[t] = "none" /\ data'[t] = FALSE
        BY <1>5 DEF NowGone, SameFiles
    <2>2. HeadEnds(t, "none")' /\ DataEnds(t, FALSE)'
        BY <1>1, <1>2, <1>5, <2>1, EndsNext
    <2>. QED
        BY <2>2 DEF Gone
<1>. QED
    BY <1>3, <1>4, <1>5 DEF Good

(* A database in use that is left alone by the next plan.                  *)
LEMMA CurGoodNext ==
    ASSUME cur' # NoDb, Sound(cur'), Still(todo', cur'.name), NowCurGood'
    PROVE  CurGood'
<1>0. PICK o : o = cur' /\ Sound(o)
    OBVIOUS
<1>1. PICK d \in Db : o = cur' /\ d = o.name /\ Sound(o)
    BY <1>0, ObjectTables
<1>2. /\ \A t \in Home[d] : /\ Idles(todo', HeadSets(t))
                            /\ Idles(todo', DataSets(t))
                            /\ Idles(todo', HeldSets(t))
      /\ Idles(todo', ListSets(d))
    BY <1>1 DEF Still
<1>3. /\ list'[d] \in Names(d) /\ (~o.changed => list'[d] = o.names)
      /\ \A i \in DOMAIN o.tables : NowHolds(o.tables[i])'
      /\ \A t \in Home[d] : ~In(o.names, t) => NowGone(t)'
    BY <1>1 DEF NowCurGood
<1>4. PICK l \in Names(d) : l = list'[d] /\ (~o.changed => l = o.names)
    BY <1>3
<1>5. ListEnds(d, l)'
    BY <1>2, <1>4, EndsNext
<1>6. ASSUME NEW i \in DOMAIN o.tables
      PROVE  Holds(o.tables[i])'
    <2>1. PICK m : m = o.tables[i] /\ m.file \in Home[d]
        BY <1>1, ObjectTables DEF Managers
    <2>2. NowHolds(m)'
        BY <1>3, <2>1
    <2>3. /\ m.val # Junk /\ data'[m.file] = TRUE
          /\ ~m.dirty => head'[m.file] = "ok" /\ held'[m.file] = m.val
        BY <2>2 DEF NowHolds
    <2>4. DataEnds(m.file, TRUE)'
        BY <1>2, <2>1, <2>3, EndsNext
    <2>5. ~m.dirty => HeadEnds(m.file, "ok")' /\ HeldEnds(m.file, m.val)'
        BY <1>2, <2>1, <2>3, EndsNext
    <2>6. Holds(m)'
        BY <2>3, <2>4, <2>5 DEF Holds
    <2>. QED
        BY <2>1, <2>6
<1>7. ASSUME NEW t \in Home[d], ~In(o.names, t)
      PROVE  Gone(t)'
    <2>1. head'[t] = "none" /\ data'[t] = FALSE
        BY <1>3, <1>7 DEF NowGone
    <2>2. HeadEnds(t, "none")' /\ DataEnds(t, FALSE)'
        BY <1>2, <2>1, EndsNext
    <2>. QED
        BY <2>2 DEF Gone
<1>. QED
    BY <1>1, <1>4, <1>5, <1>6, <1>7 DEF CurGood

(* Only the step that leaves the database ends its closing.                *)
LEMMA ClosingKept ==
    ASSUME Typed, Done, Head(todo) # <<"leave">>
    PROVE  Closing' <=> Closing
<1>1. /\ Len(todo) \in Nat /\ DOMAIN todo = 1 .. Len(todo) /\ DOMAIN todo' = 1 .. Len(todo) - 1
      /\ Head(todo) = todo[1]
      /\ \A k \in DOMAIN todo' : k + 1 \in DOMAIN todo /\ todo'[k] = todo[k + 1]
    BY Runs
<1>2. ASSUME NEW k \in DOMAIN todo, todo[k] = <<"leave">>
      PROVE  \E j \in DOMAIN todo' : todo'[j] = <<"leave">>
    <2>1. k # 1
        BY <1>1, <1>2
    <2>2. PICK j \in 1 .. Len(todo) - 1 : j + 1 = k
        <3>1. k - 1 \in 1 .. Len(todo) - 1 /\ (k - 1) + 1 = k
            BY <1>1, <2>1
        <3>. QED
            BY <3>1
    <2>3. j \in DOMAIN todo' /\ todo'[j] = todo[k]
        BY <1>1, <2>2
    <2>. QED
        BY <1>2, <2>3
<1>3. ASSUME NEW k \in DOMAIN todo', todo'[k] = <<"leave">>
      PROVE  \E j \in DOMAIN todo : todo[j] = <<"leave">>
    BY <1>1, <1>3
<1>. QED
    BY <1>2, <1>3 DEF Closing

(* No two databases share a step. *)
LEMMA WorkApart ==
    ASSUME HomesApart, NEW d \in Db, NEW f \in Db, NEW e \in Work(d), e \in Work(f)
    PROVE  d = f
<1>1. Kind(e, d) /\ Kind(e, f)
    BY WorkKinds
<1>2. \A t : t \in Home[d] /\ t \in Home[f] => d = f
    BY DEF HomesApart
<1>3. CASE e[1] \in {"cut", "remove head", "remove data"}
    BY <1>1, <1>2, <1>3 DEF Kind
<1>4. CASE e[1] \in {"head", "data"}
    BY <1>1, <1>2, <1>4 DEF Kind, Managers
<1>5. CASE e[1] \in {"cut list", "remove list", "list"}
    BY <1>1, <1>5 DEF Kind
<1>. QED
    BY <1>1, <1>3, <1>4, <1>5 DEF Kind

(* When a database is opened the plan has nothing else to do.              *)
LEMMA TurnAlone ==
    ASSUME Openable, NEW s \in {"open", "show", "drop"}, Do(s)
    PROVE  ~Closing /\ \A f \in Db : Still(todo, f)
<1>1. DOMAIN todo = {1} /\ todo[1] = <<s, Arg>>
    BY TurnComes
<1>2. <<s, Arg>> # <<"leave">>
    <2>1. <<s, Arg>>[1] = s /\ <<"leave">>[1] = "leave"
        OBVIOUS
    <2>. QED
        BY <2>1
<1>3. \A t : /\ Idles(todo, HeadSets(t)) /\ Idles(todo, DataSets(t))
             /\ Idles(todo, HeldSets(t)) /\ Idles(todo, ListSets(t))
    BY TurnComes
<1>. QED
    BY <1>1, <1>2, <1>3 DEF Closing, Still

(* Work on one database and the end of the statement.                      *)
LEMMA WorkThenEnd ==
    ASSUME NEW d \in Db, NEW p \in Seq(Work(d)), todo' = p \o << <<"end">> >>
    PROVE  /\ \A k \in DOMAIN todo' : todo'[k] \in Work(d) \/ todo'[k] = <<"end">>
           /\ ~Closing'
           /\ HomesApart => \A f \in Db \ {d} : Still(todo', f)
<1>1. PICK e \in Turns \cup {<<"leave">>, <<"end">>} : e = <<"end">>
    OBVIOUS
<1>2. e \in Steps /\ Work(d) \subseteq Steps /\ Work(d) \subseteq Plain
    BY DEF Steps, Plain
<1>3. todo' = p \o <<e>> /\ p \in Seq(Steps) /\ p \in Seq(Plain)
    BY <1>1, <1>2
<1>4. \A k \in DOMAIN todo' : todo'[k] = e \/ (k \in DOMAIN p /\ todo'[k] = p[k])
    BY <1>2, <1>3, PlanThen
<1>5. \A k \in DOMAIN p : p[k] \in Work(d)
    BY LenProperties, ElementOfSeq
<1>6. \A k \in DOMAIN todo' : todo'[k] \in Work(d) \/ todo'[k] = <<"end">>
    BY <1>1, <1>4, <1>5
<1>7. <<"leave">> \notin Work(d) /\ <<"leave">> # <<"end">>
    <2>1. <<"leave">>[1] = "leave" /\ <<"end">>[1] = "end"
        OBVIOUS
    <2>2. <<"leave">> \notin Work(d)
        BY <2>1, WorkKinds DEF Kind
    <2>. QED
        BY <2>1, <2>2
<1>8. \A k \in DOMAIN todo' : todo'[k] # <<"leave">>
    BY <1>6, <1>7
<1>9. ASSUME HomesApart, NEW f \in Db \ {d}
      PROVE  Still(todo', f)
    <2>1. Still(p, f)
        BY <1>9, ElsewhereStill
    <2>2. Still(p \o <<e>>, f)
        BY <1>3, <2>1, StillThen
    <2>. QED
        BY <1>3, <2>2
<1>. QED
    BY <1>6, <1>8, <1>9 DEF Closing

(* A step on the files changes nothing about how they end.                 *)
LEMMA HealthyFiles ==
    ASSUME Typed, Healthy, FileStep
    PROVE  Healthy'
<1>1. Done /\ UNCHANGED <<cur, db, hurt>> /\ \E d \in Db : Head(todo) \in Work(d)
    BY FileStepSets
<1>2. \A d \in Db : Carries(d)
    <2>1. /\ \A t \in Tab : \A x : /\ HeadEnds(t, x) => HeadEnds(t, x)'
                                   /\ DataEnds(t, x) => DataEnds(t, x)'
                                   /\ HeldEnds(t, x) => HeldEnds(t, x)'
          /\ \A d \in Db : \A x : ListEnds(d, x) => ListEnds(d, x)'
        BY <1>1, FileStepSets, EndsKept
    <2>. QED
        BY <2>1 DEF Carries, Tab
<1>3. Head(todo) # <<"leave">>
    <2>1. <<"leave">>[1] = "leave"
        OBVIOUS
    <2>. QED
        BY <1>1, <2>1, WorkKinds DEF Kind
<1>4. Closing' <=> Closing
    BY <1>1, <1>3, ClosingKept
<1>5. ASSUME NEW d \in Db \ hurt'
      PROVE  Fine(d)'
    <2>1. d \in Db \ hurt /\ Fine(d) /\ (InUse(d)' <=> InUse(d))
        BY <1>1 DEF Healthy, InUse
    <2>. QED
        BY <1>1, <1>2, <1>4, <2>1, FineKept
<1>. QED
    BY <1>5 DEF Healthy

(* Nor does the end of a statement, or the database in use left behind.    *)
LEMMA HealthyLeave ==
    ASSUME Typed, Healthy, Leave
    PROVE  Healthy'
<1>1. Done /\ UNCHANGED <<files, hurt>>
    BY DEF Leave
<1>2. UNCHANGED <<list, head, data, held, hurt>>
    BY <1>1 DEF files
<1>3. \/ cur' = NoDb /\ Do("leave")
      \/ cur' = cur /\ Do("end")
    BY DEF Leave
<1>4. Head(todo) \in Steps /\ Head(todo) = todo[1] /\ 1 \in DOMAIN todo
    BY <1>1, Runs
<1>5. /\ Do("leave") => Head(todo) = <<"leave">>
      /\ Do("end") => Head(todo) = <<"end">>
    BY <1>4, StepKinds DEF Do
<1>6. \A d \in Db : Carries(d)
    <2>1. \A t : /\ HeadSets(t)[Head(todo)] = {} /\ DataSets(t)[Head(todo)] = {}
                 /\ HeldSets(t)[Head(todo)] = {} /\ ListSets(t)[Head(todo)] = {}
        BY <1>3, <1>4, <1>5, TurnSets
    <2>2. /\ \A t \in Tab : \A x : /\ HeadEnds(t, x) => HeadEnds(t, x)'
                                   /\ DataEnds(t, x) => DataEnds(t, x)'
                                   /\ HeldEnds(t, x) => HeldEnds(t, x)'
          /\ \A d \in Db : \A x : ListEnds(d, x) => ListEnds(d, x)'
        BY <1>1, <1>2, <2>1, EndsKept
    <2>. QED
        BY <2>2 DEF Carries, Tab
<1>7. CASE cur' = NoDb /\ Do("leave")
    <2>1. Closing
        BY <1>4, <1>5, <1>7 DEF Closing
    <2>2. \A d \in Db \ hurt' : Good(d)
        BY <1>2, <2>1 DEF Healthy, Fine
    <2>3. \A d \in Db \ hurt' : Good(d)'
        BY <1>6, <2>2, GoodKept
    <2>4. \A d \in Db : ~InUse(d)'
        BY <1>7 DEF InUse
    <2>. QED
        BY <2>3, <2>4 DEF Healthy, Fine
<1>8. CASE cur' = cur /\ Do("end")
    <2>1. Head(todo) # <<"leave">>
        <3>1. <<"leave">>[1] = "leave" /\ <<"end">>[1] = "end"
            OBVIOUS
        <3>. QED
            BY <1>5, <1>8, <3>1
    <2>2. Closing' <=> Closing
        BY <1>1, <2>1, ClosingKept
    <2>3. ASSUME NEW d \in Db \ hurt'
          PROVE  Fine(d)'
        <3>1. d \in Db \ hurt /\ Fine(d) /\ (InUse(d)' <=> InUse(d))
            BY <1>2, <1>8 DEF Healthy, InUse
        <3>. QED
            BY <1>6, <1>8, <2>2, <3>1, FineKept
    <2>. QED
        BY <2>3 DEF Healthy
<1>. QED
    BY <1>3, <1>7, <1>8

(* A list is neither missing nor damaged. *)
LEMMA NamesThere ==
    ASSUME NEW d \in Db, NEW l \in Names(d)
    PROVE  l # Missing /\ l # Damaged
<1>1. Home[d] \subseteq Tab
    BY DEF Tab
<1>2. l \in Seq(Home[d])
    BY DEF Names
<1>3. l \in Seq(Tab)
    BY <1>1, <1>2
<1>. QED
    BY <1>3, CatalogAssumption

(* An object as it is opened: what the files say, and nothing changed.     *)
AsOpened(o, d) ==
    /\ Sound(o) /\ o # NoDb /\ o.name = d /\ o.names = list[d]
    /\ o.changed = FALSE
    /\ DOMAIN o.tables = DOMAIN list[d]
    /\ \A i \in DOMAIN list[d] : /\ o.tables[i].file = list[d][i]
                                 /\ o.tables[i].val = OnDisk(list[d][i])
                                 /\ o.tables[i].dirty = FALSE

(* Opening a database whose list is whole yields such an object. *)
LEMMA OpenedAs ==
    ASSUME Typed, NEW d \in Db, list[d] \in Names(d)
    PROVE  AsOpened(OpenedList(d), d)
<1>1. /\ Sound(OpenedList(d)) /\ OpenedList(d) # NoDb /\ OpenedList(d).name = d
      /\ OpenedList(d).names = list[d] /\ OpenedList(d).changed = FALSE
      /\ DOMAIN OpenedList(d).tables = DOMAIN list[d]
    BY OpenedSound
<1>2. ASSUME NEW i \in DOMAIN list[d]
      PROVE  /\ OpenedList(d).tables[i].file = list[d][i]
             /\ OpenedList(d).tables[i].val = OnDisk(list[d][i])
             /\ OpenedList(d).tables[i].dirty = FALSE
    <2>1. OpenedList(d).tables[i] = Manage(list[d][i])
        BY OpenedSound
    <2>2. PICK t : t = list[d][i]
        OBVIOUS
    <2>3. Manage(t).file = t /\ Manage(t).val = OnDisk(t) /\ Manage(t).dirty = FALSE
        BY DEF Manage
    <2>. QED
        BY <2>1, <2>2, <2>3
<1>. QED
    BY <1>1, <1>2 DEF AsOpened

(* The plan of a statement: the database in use is left before another is  *)
(* opened, only databases exposed to the death of the process are worked   *)
(* on, and SHOW DATABASE of the one in use finds the tables that are       *)
(* listed in memory.                                                       *)
LeavesLast ==
    \A k, j \in DOMAIN todo : todo[k] = <<"leave">> /\ j > k => todo[j] \in Turns

Quiet == \A d \in Db : \A k \in DOMAIN todo : todo[k] \in Work(d) => d \in Exposed

TurnsFit ==
    \A d \in Db : \A k \in DOMAIN todo :
        /\ todo[k] = <<"open", d>> => cur = NoDb \/ Closing
        /\ todo[k] = <<"drop", d>> => ~InUse(d) \/ Closing
        /\ todo[k] = <<"show", d>> =>
              /\ Len(todo) = 1
              /\ InUse(d) => \A t \in Listed(d) : TableId(t) # {}

(* A database that is opened becomes the one in use.                       *)
LEMMA HealthyOpen ==
    ASSUME HomesApart, Openable, TurnsFit, Healthy, OpensCur
    PROVE  Healthy'
<1>1. Do("open") /\ Done /\ FilesOpen(Arg) /\ cur' = OpenedList(Arg) /\ UNCHANGED <<db, hurt>>
    BY DEF OpensCur
<1>2. PICK d \in Db : d = Arg /\ todo[1] = <<"open", d>> /\ list[d] \in Names(d)
                      /\ DOMAIN todo = {1} /\ Len(todo) = 1
    BY <1>1, TurnComes
<1>3. ~Closing /\ \A f \in Db : Still(todo, f)
    BY <1>1, TurnAlone
<1>4. Typed /\ cur = NoDb
    BY <1>2, <1>3 DEF TurnsFit, Openable
<1>5. DOMAIN todo' = {} /\ todo' = <<>>
    <2>1. todo' \in Seq(Steps) /\ DOMAIN todo' = 1 .. Len(todo) - 1 /\ Len(todo') = Len(todo) - 1
        BY <1>1, <1>4, Runs
    <2>2. Len(todo') = 0 /\ DOMAIN todo' = {}
        BY <1>2, <2>1
    <2>. QED
        BY <2>1, <2>2, EmptySeq
<1>6. \A f \in Db : Still(todo', f)
    BY <1>5, IdleStill
<1>7. ~Closing'
    BY <1>5 DEF Closing
<1>8. \A f \in Db \ hurt : Good(f)
    BY <1>4 DEF Healthy, Fine, InUse
<1>0. PICK o : o = cur' /\ AsOpened(o, d)
    BY <1>1, <1>2, <1>4, OpenedAs
<1>9. /\ o = cur' /\ Sound(o) /\ o # NoDb /\ o.name = d /\ o.names = list[d]
      /\ DOMAIN o.tables = DOMAIN list[d]
    BY <1>0 DEF AsOpened
<1>10. ASSUME NEW f \in Db \ hurt, f # d
       PROVE  Fine(f)'
    <2>1. SameFiles(f)
        BY <1>1, <1>2, <1>4, <1>10, OpenedSame
    <2>2. Carries(f)
        BY <1>3, <1>6, <2>1, StillCarries
    <2>3. Good(f)'
        BY <1>8, <1>10, <2>2, GoodKept
    <2>. QED
        BY <1>9, <1>10, <2>3 DEF Fine, InUse
<1>11. ASSUME d \notin hurt
       PROVE  Fine(d)'
    <2>1. NowGood(d)
        BY <1>3, <1>8, <1>11, GoodNow
    <2>2. list[d] # Missing
        BY <1>2, NamesThere
    <2>3. \A t \in Home[d] : IF In(list[d], t) THEN NowWhole(t) ELSE NowGone(t)
        BY <2>1, <2>2 DEF NowGood
    <2>4. SameFiles(d)
        BY <1>1, <1>2, <1>4, <2>3, OpenedSame
    <2>5. ASSUME NEW i \in DOMAIN o.tables
          PROVE  NowHolds(o.tables[i])'
        <3>1. PICK t : /\ t = list[d][i] /\ o.tables[i].file = t
                       /\ o.tables[i].val = OnDisk(t) /\ o.tables[i].dirty = FALSE
            BY <1>0, <2>5 DEF AsOpened
        <3>2. In(list[d], t) /\ t \in Home[d]
            BY <1>9, <2>5, <3>1, ObjectTables DEF In, Managers
        <3>3. NowWhole(t)
            BY <2>3, <3>2
        <3>4. PICK m : m = o.tables[i] /\ m.file = t /\ m.val = held[t] /\ m.dirty = FALSE
            BY <3>1, <3>3 DEF OnDisk, Complete, NowWhole
        <3>5. head'[t] = "ok" /\ data'[t] = TRUE /\ held'[t] = held[t] /\ held[t] # Junk
            BY <2>4, <3>2, <3>3, CatalogAssumption DEF SameFiles, NowWhole
        <3>6. NowHolds(m)'
            BY <3>4, <3>5 DEF NowHolds
        <3>. QED
            BY <3>4, <3>6
    <2>6. \A t \in Home[d] : ~In(o.names, t) => NowGone(t)'
        BY <1>9, <2>3, <2>4 DEF NowGone, SameFiles
    <2>7. list'[d] = o.names /\ list'[d] \in Names(d)
        BY <1>2, <1>9, <2>4 DEF SameFiles
    <2>8. NowCurGood'
        BY <1>9, <2>5, <2>6, <2>7 DEF NowCurGood
    <2>9. CurGood'
        BY <1>6, <1>9, <2>8, CurGoodNext
    <2>. QED
        BY <1>7, <1>9, <2>9 DEF Fine, InUse
<1>. QED
    BY <1>1, <1>10, <1>11 DEF Healthy

(* SHOW DATABASE of the database in use reads and writes files that memory *)
(* still knows.                                                            *)
LEMMA ShowCurGood ==
    ASSUME Typed, NEW d \in Db, InUse(d), list[d] \in Names(d), FilesOpen(d),
           \A t \in Listed(d) : TableId(t) # {}, NowCurGood,
           NEW e \in Turns \cup {<<"leave">>, <<"end">>},
           todo' = CloseObject(OpenedList(d)) \o <<e>>, UNCHANGED cur
    PROVE  CurGood'
<1>1. cur # NoDb /\ cur.name = d /\ cur' = cur /\ Sound(cur)
    BY DEF InUse, Typed
<1>0. PICK o : o = OpenedList(d) /\ AsOpened(o, d)
    BY OpenedAs
<1>2. /\ o = OpenedList(d) /\ Sound(o) /\ o.name = d /\ o.names = list[d]
      /\ DOMAIN o.tables = DOMAIN list[d]
    BY <1>0 DEF AsOpened
<1>3. PICK p : p = todo' /\ p = CloseObject(o) \o <<e>>
    BY <1>2
<1>4. /\ Fixes(p, ListSets(d), list[d])
      /\ \A i \in DOMAIN o.tables : Fixes(p, HeadSets(o.tables[i].file), "ok")
      /\ \A t : ~In(list[d], t) => Idles(p, HeadSets(t)) /\ Idles(p, HeldSets(t))
      /\ \A t : Idles(p, DataSets(t))
    BY <1>2, <1>3, CloseThen
<1>5. \A i \in DOMAIN o.tables : ~o.tables[i].dirty /\ o.tables[i].file = list[d][i]
    BY <1>0 DEF AsOpened
<1>6. \A t : In(list[d], t) => Fixes(p, HeadSets(t), "ok") /\ Idles(p, HeldSets(t))
    <2>1. \A i \in DOMAIN o.tables : Idles(p, HeldSets(o.tables[i].file))
        BY <1>2, <1>3, <1>5, CloseThen
    <2>. QED
        BY <1>2, <1>4, <1>5, <2>1 DEF In
<1>7. \A t : Idles(p, HeldSets(t))
    BY <1>4, <1>6
<1>8. /\ UNCHANGED <<list, head>>
      /\ \A t \in Tab : /\ data'[t] = (data[t] \/ t \in Listed(d))
                        /\ held'[t] = IF t \in Listed(d) THEN OnDisk(t) ELSE held[t]
    BY FilesOpened
<1>9. \A t \in Home[d] : t \in Tab
    BY DEF Tab
<1>10. \A t : t \in Listed(d) <=> In(list[d], t)
    BY DEF Listed, In
<1>11. PICK l \in Names(d) : l = list[d] /\ (~cur.changed => l = cur.names)
    BY <1>1 DEF NowCurGood
<1>12. ListEnds(d, l)'
    BY <1>3, <1>4, <1>11, EndsNext
<1>13. ASSUME NEW i \in DOMAIN cur.tables
       PROVE  Holds(cur.tables[i])'
    <2>1. PICK m : m = cur.tables[i] /\ m.file \in Home[d]
        BY <1>1, ObjectTables, SMTT(30) DEF Managers
    <2>2. NowHolds(m)
        BY <2>1 DEF NowCurGood
    <2>3. PICK t \in Tab : t = m.file /\ data[t] = TRUE /\ m.val # Junk
        BY <1>9, <2>1, <2>2 DEF NowHolds
    <2>4. DataEnds(t, TRUE)'
        <3>1. data'[t] = TRUE
            BY <1>8, <2>3
        <3>. QED
            BY <1>3, <1>4, <3>1, EndsNext
    <2>5. ASSUME ~m.dirty
          PROVE  HeadEnds(t, "ok")' /\ HeldEnds(t, m.val)'
        <3>1. head[t] = "ok" /\ held[t] = m.val
            BY <2>2, <2>3, <2>5 DEF NowHolds
        <3>2. head'[t] = "ok" /\ held'[t] = m.val
            BY <1>8, <2>3, <3>1 DEF OnDisk, Complete
        <3>3. HeadEnds(t, "ok")'
            BY <1>3, <1>4, <1>6, <3>2, EndsNext
        <3>. QED
            BY <1>3, <1>7, <3>2, <3>3, EndsNext
    <2>6. Holds(m)'
        BY <2>3, <2>4, <2>5 DEF Holds
    <2>. QED
        BY <1>1, <2>1, <2>6
<1>14. ASSUME NEW t \in Home[d], ~In(cur.names, t)
       PROVE  Gone(t)'
    <2>1. t \notin Listed(d)
        BY <1>14 DEF TableId, In
    <2>2. NowGone(t)
        BY <1>1, <1>14 DEF NowCurGood
    <2>3. head'[t] = "none" /\ data'[t] = FALSE
        BY <1>8, <1>9, <2>1, <2>2 DEF NowGone
    <2>4. HeadEnds(t, "none")' /\ DataEnds(t, FALSE)'
        BY <1>3, <1>4, <1>10, <2>1, <2>3, EndsNext
    <2>. QED
        BY <2>4 DEF Gone
<1>. QED
    BY <1>1, <1>11, <1>12, <1>13, <1>14 DEF CurGood

(* The turn of a database is not the end of one.                           *)
LEMMA TurnNames ==
    ASSUME NEW e \in Turns
    PROVE  e # <<"leave">> /\ e # <<"end">>
<1>1. PICK d \in Db, s \in {"open", "show", "drop"} : e = <<s, d>>
    BY DEF Turns
<1>2. e[1] = s /\ <<"leave">>[1] = "leave" /\ <<"end">>[1] = "end"
    BY <1>1
<1>. QED
    BY <1>2

(* Closing the database in use ends with leaving it.                       *)
LEMMA CloseCurLeaves ==
    ASSUME Typed, cur # NoDb,
           todo' = CloseCur \/
           \E e \in Turns \cup {<<"leave">>, <<"end">>} : todo' = CloseCur \o <<e>>
    PROVE  Closing'
<1>1. Sound(cur) /\ cur.name \in Db
    BY ObjectTables DEF Typed
<1>2. CloseObject(cur) \in Seq(Plain)
    BY <1>1, ClosePlans
<1>3. PICK p \in Seq(Plain), e \in Steps :
          p = CloseObject(cur) /\ e = <<"leave">> /\ CloseCur = p \o <<e>>
    <2>1. <<"leave">> \in Steps
        BY DEF Steps
    <2>. QED
        BY <1>2, <2>1 DEF CloseCur
<1>4. PICK c \in Seq(Steps) : c = CloseCur /\ \E k \in DOMAIN c : c[k] = <<"leave">>
    <2>1. PICK c : c = p \o <<e>>
        OBVIOUS
    <2>2. c \in Seq(Steps) /\ Len(c) \in DOMAIN c /\ c[Len(c)] = e
        BY <2>1, PlanThen
    <2>. QED
        BY <1>3, <2>1, <2>2
<1>5. PICK k \in DOMAIN c : c[k] = <<"leave">>
    BY <1>4
<1>6. CASE todo' = CloseCur
    BY <1>4, <1>6 DEF Closing
<1>7. ASSUME NEW f \in Turns \cup {<<"leave">>, <<"end">>}, todo' = CloseCur \o <<f>>
      PROVE  Closing'
    <2>1. f \in Steps
        BY DEF Steps
    <2>2. PICK r \in Seq(Steps) : r = <<f>>
        <3>1. <<f>> \in Seq(Steps)
            BY <2>1
        <3>. QED
            BY <3>1
    <2>3. k \in DOMAIN (c \o r) /\ (c \o r)[k] = c[k]
        BY InConcat
    <2>4. todo' = c \o r
        BY <1>4, <1>7, <2>2
    <2>. QED
        BY <1>5, <2>3, <2>4 DEF Closing
<1>. QED
    BY <1>6, <1>7

(* A database opened besides is closed again, or dropped.                  *)
LEMMA HealthySecond ==
    ASSUME HomesApart, Openable, TurnsFit, Healthy, OpensSecond
    PROVE  Healthy'
<1>1. PICK s \in {"show", "drop"} : Do(s)
    BY DEF OpensSecond
<1>2. PICK d \in Db : d = Arg /\ todo[1] = <<s, d>> /\ list[d] \in Names(d)
                      /\ DOMAIN todo = {1} /\ Len(todo) = 1
    BY <1>1, TurnComes
<1>3. ~Closing /\ \A f \in Db : Still(todo, f)
    BY <1>1, TurnAlone
<1>4. Typed
    BY DEF Openable
<1>5. /\ FilesOpen(d) /\ UNCHANGED <<cur, hurt>>
      /\ todo' = (IF Do("show") THEN CloseObject(OpenedList(d)) ELSE DropObject(OpenedList(d)))
                    \o << <<"end">> >>
    BY <1>2 DEF OpensSecond
<1>6. PICK o : o = OpenedList(d) /\ AsOpened(o, d)
    BY <1>2, <1>4, OpenedAs
<1>7. Sound(o) /\ o.name = d /\ o.names = list[d] /\ DOMAIN o.tables = DOMAIN list[d]
      /\ \A i \in DOMAIN o.tables : ~o.tables[i].dirty
    BY <1>6 DEF AsOpened
<1>8. PICK p \in Seq(Work(d)) : p = IF Do("show") THEN CloseObject(o) ELSE DropObject(o)
    BY <1>7, CloseObjectLeads, DropObjectLeads
<1>9. PICK e \in Turns \cup {<<"leave">>, <<"end">>} : e = <<"end">>
    OBVIOUS
<1>10. todo' = p \o << <<"end">> >>
    BY <1>5, <1>6, <1>8
<1>11. ~Closing' /\ \A f \in Db \ {d} : Still(todo', f)
    BY <1>10, WorkThenEnd
<1>12. ASSUME NEW f \in Db \ hurt, f # d
       PROVE  Fine(f)'
    <2>1. SameFiles(f)
        BY <1>2, <1>4, <1>5, <1>12, OpenedSame
    <2>2. Carries(f)
        BY <1>3, <1>11, <1>12, <2>1, StillCarries
    <2>3. Fine(f) /\ (InUse(f)' <=> InUse(f))
        BY <1>5, <1>12 DEF Healthy, InUse
    <2>. QED
        BY <1>3, <1>4, <1>5, <1>11, <1>12, <2>2, <2>3, FineKept
<1>13. ASSUME d \notin hurt
       PROVE  Fine(d)'
    <2>1. Fine(d) /\ list[d] # Missing
        BY <1>2, <1>13, NamesThere DEF Healthy
    <2>2. ASSUME Good(d)
          PROVE  /\ \A t \in Home[d] : IF In(list[d], t) THEN NowWhole(t) ELSE NowGone(t)
                 /\ SameFiles(d)
        <3>1. NowGood(d)
            BY <1>3, <2>2, GoodNow
        <3>2. \A t \in Home[d] : IF In(list[d], t) THEN NowWhole(t) ELSE NowGone(t)
            BY <2>1, <3>1 DEF NowGood
        <3>3. SameFiles(d)
            BY <1>2, <1>4, <1>5, <3>2, OpenedSame
        <3>. QED
            BY <3>2, <3>3
    <2>3. CASE s = "show" /\ InUse(d)
        <3>1. cur # NoDb /\ cur.name = d /\ CurGood
            BY <1>3, <2>1, <2>3 DEF Fine, InUse
        <3>2. NowCurGood
            BY <1>3, <1>4, <3>1, CurGoodNow
        <3>3. \A t \in Listed(d) : TableId(t) # {}
            BY <1>2, <2>3 DEF TurnsFit
        <3>4. todo' = CloseObject(OpenedList(d)) \o <<e>>
            BY <1>1, <1>6, <1>8, <1>9, <1>10, <2>3
        <3>5. CurGood'
            BY <1>2, <1>4, <1>5, <2>3, <3>2, <3>3, <3>4, ShowCurGood
        <3>. QED
            BY <1>5, <1>11, <2>3, <3>5 DEF Fine, InUse
    <2>4. CASE s = "show" /\ ~InUse(d)
        <3>1. Good(d)
            BY <2>1, <2>4 DEF Fine
        <3>2. todo' = CloseObject(o) \o <<e>>
            BY <1>1, <1>8, <1>9, <1>10, <2>4
        <3>3. Good(d)'
            BY <1>7, <2>2, <3>1, <3>2, CloseGood
        <3>. QED
            BY <1>5, <2>4, <3>3 DEF Fine, InUse
    <2>5. CASE s = "drop"
        <3>1. ~InUse(d)
            BY <1>2, <1>3, <2>5 DEF TurnsFit
        <3>2. Good(d)
            BY <2>1, <3>1 DEF Fine
        <3>3. ~Do("show")
            BY <1>1, <2>5 DEF Do
        <3>4. todo' = DropObject(o) \o <<e>>
            BY <1>8, <1>9, <1>10, <3>3
        <3>5. Good(d)'
            BY <1>7, <2>2, <3>2, <3>4, DropGood
        <3>. QED
            BY <1>5, <3>1, <3>5 DEF Fine, InUse
    <2>. QED
        BY <2>3, <2>4, <2>5
<1>. QED
    BY <1>5, <1>12, <1>13 DEF Healthy

(* A statement that leaves the database in use closes it first.            *)
LEMMA HealthyClosed ==
    ASSUME HomesApart, Typed, Healthy, Idle, UNCHANGED <<files, cur, hurt>>,
           todo' = CloseCur \/
           \E e \in Turns \cup {<<"leave">>, <<"end">>} : todo' = CloseCur \o <<e>>
    PROVE  Healthy'
<1>1. ~Closing /\ \A f \in Db : Still(todo, f)
    BY IdleStill DEF Idle, Closing
<1>2. UNCHANGED <<list, head, data, held, cur, hurt, files>>
    BY DEF files
<1>3. \A f \in Db : SameFiles(f)
    BY <1>2 DEF SameFiles
<1>4. ASSUME NEW f \in Db \ hurt, InUse(f)
      PROVE  Fine(f)'
    <2>1. cur # NoDb /\ f = cur.name /\ CurGood
        BY <1>1, <1>4 DEF Healthy, Fine, InUse
    <2>2. Good(f)'
        BY <1>1, <1>2, <2>1, ClosedGood
    <2>3. Closing'
        BY <2>1, CloseCurLeaves
    <2>. QED
        BY <2>2, <2>3 DEF Fine
<1>5. ASSUME NEW f \in Db \ hurt, ~InUse(f)
      PROVE  Fine(f)'
    <2>1. CloseCur \in Seq(Steps) /\ Still(CloseCur, f)
        BY <1>5, CloseCurStill
    <2>2. Still(todo', f)
        <3>1. CASE todo' = CloseCur
            BY <2>1, <3>1
        <3>2. ASSUME NEW e \in Turns \cup {<<"leave">>, <<"end">>}, todo' = CloseCur \o <<e>>
              PROVE  Still(todo', f)
            <4>1. Still(CloseCur \o <<e>>, f)
                BY <2>1, StillThen
            <4>. QED
                BY <3>2, <4>1
        <3>. QED
            BY <3>1, <3>2
    <2>3. Good(f) /\ Carries(f)
        BY <1>1, <1>3, <1>5, <2>2, StillCarries DEF Healthy, Fine
    <2>4. Good(f)'
        BY <2>3, GoodKept
    <2>5. ~InUse(f)'
        BY <1>2, <1>5 DEF InUse
    <2>. QED
        BY <2>4, <2>5 DEF Fine
<1>. QED
    BY <1>2, <1>4, <1>5 DEF Healthy

(* A statement that plans to open a database has changed nothing yet.      *)
LEMMA HealthyTurn ==
    ASSUME Typed, Healthy, Idle, UNCHANGED <<files, cur, hurt>>,
           NEW e \in Turns, todo' = <<e>>
    PROVE  Healthy'
<1>1. ~Closing /\ \A f \in Db : Still(todo, f)
    BY IdleStill DEF Idle, Closing
<1>2. UNCHANGED <<list, head, data, held, cur, hurt>>
    BY DEF files
<1>3. \A f \in Db : SameFiles(f)
    BY <1>2 DEF SameFiles
<1>4. e \in Steps /\ e # <<"leave">>
    BY TurnNames DEF Steps
<1>5. ~Closing'
    <2>1. \A k \in DOMAIN todo' : todo'[k] = e
        OBVIOUS
    <2>. QED
        BY <1>4, <2>1 DEF Closing
<1>6. \A f \in Db : Still(todo', f)
    <2>. SUFFICES ASSUME NEW f \in Db PROVE Still(todo', f)
        OBVIOUS
    <2>1. PICK p \in Seq(Steps) : p = <<>> /\ Still(p, f)
        <3>1. <<>> \in Seq(Steps) /\ Still(<<>>, f)
            BY IdleStill
        <3>. QED
            BY <3>1
    <2>2. Still(p \o <<e>>, f)
        BY <2>1, StillThen
    <2>3. todo' = p \o <<e>>
        BY <2>1
    <2>. QED
        BY <2>2, <2>3
<1>7. ASSUME NEW f \in Db \ hurt'
      PROVE  Fine(f)'
    <2>1. f \in Db \ hurt /\ Fine(f) /\ (InUse(f)' <=> InUse(f))
        BY <1>2 DEF Healthy, InUse
    <2>2. Carries(f)
        BY <1>1, <1>3, <1>6, StillCarries
    <2>. QED
        BY <1>1, <1>2, <1>5, <2>1, <2>2, FineKept
<1>. QED
    BY <1>7 DEF Healthy

(* A database that is created has no list and so no table.                 *)
LEMMA HealthyCreated ==
    ASSUME HomesApart, Overwrite = FALSE, Typed, Healthy, NEW d \in Db, CreateDatabase(d)
    PROVE  Healthy'
<1>1. /\ Idle /\ list[d] = Missing /\ UNCHANGED <<files, cur, hurt>>
      /\ todo' = CloseObject(NewObject(d)) \o << <<"end">> >>
    BY DEF CreateDatabase
<1>2. ~Closing /\ \A f \in Db : Still(todo, f)
    BY <1>1, IdleStill DEF Idle, Closing
<1>3. UNCHANGED <<list, head, data, held, cur, hurt>>
    BY <1>1 DEF files
<1>4. \A f \in Db : SameFiles(f)
    BY <1>3 DEF SameFiles
<1>5. PICK o : /\ o = NewObject(d) /\ Sound(o) /\ o.name = d /\ o.names = <<>>
               /\ DOMAIN o.tables = {}
    BY NewSound
<1>6. PICK e \in Turns \cup {<<"leave">>, <<"end">>} : e = <<"end">>
    OBVIOUS
<1>7. PICK p \in Seq(Work(d)) : p = CloseObject(o)
    BY <1>5, CloseObjectLeads
<1>8. ~Closing' /\ \A f \in Db \ {d} : Still(todo', f)
    BY <1>1, <1>5, <1>7, WorkThenEnd
<1>9. ASSUME NEW f \in Db \ hurt, f # d
      PROVE  Fine(f)'
    <2>1. Fine(f) /\ (InUse(f)' <=> InUse(f))
        BY <1>3, <1>9 DEF Healthy, InUse
    <2>2. Carries(f)
        BY <1>2, <1>4, <1>8, <1>9, StillCarries
    <2>. QED
        BY <1>2, <1>3, <1>8, <2>1, <2>2, FineKept
<1>10. ASSUME d \notin hurt
       PROVE  Fine(d)'
    <2>1. ~InUse(d)
        <3>. SUFFICES ASSUME InUse(d) PROVE FALSE
            OBVIOUS
        <3>1. cur # NoDb /\ cur.name = d /\ CurGood
            BY <1>2, <1>10 DEF Healthy, Fine, InUse
        <3>2. NowCurGood
            BY <1>2, <3>1, CurGoodNow
        <3>. QED
            BY <1>1, <3>1, <3>2, NamesThere DEF NowCurGood
    <2>2. NowGood(d)
        BY <1>2, <1>10, <2>1, GoodNow DEF Healthy, Fine
    <2>3. \A t \in Home[d] : NowGone(t)
        BY <1>1, <2>2, NamesThere DEF NowGood
    <2>4. \A t \in Home[d] : IF In(o.names, t) THEN NowWhole(t) ELSE NowGone(t)
        BY <1>5, <2>3 DEF In
    <2>5. todo' = CloseObject(o) \o <<e>>
        BY <1>1, <1>5, <1>6
    <2>6. Good(d)'
        BY <1>4, <1>5, <2>4, <2>5, CloseGood
    <2>. QED
        BY <1>3, <2>1, <2>6 DEF Fine, InUse
<1>. QED
    BY <1>3, <1>9, <1>10 DEF Healthy

(* A table that is created is in memory, and its data file is there.       *)
LEMMA HealthyTable ==
    ASSUME HomesApart, Typed, Healthy, NEW t \in Tab, CreateTable(t)
    PROVE  Healthy'
<1>1. /\ Idle /\ cur # NoDb /\ t \in Home[cur.name] /\ TableId(t) = {}
      /\ data' = [data EXCEPT ![t] = TRUE]
      /\ held' = IF data[t] THEN held ELSE [held EXCEPT ![t] = Junk]
      /\ cur' = [cur EXCEPT
                    !.names = Append(@, t),
                    !.tables = Append(@, [file |-> t, val |-> Empty, dirty |-> TRUE]),
                    !.changed = TRUE]
      /\ UNCHANGED <<list, head, db, todo, hurt>>
    BY DEF CreateTable
<1>2. todo = <<>> /\ todo' = <<>>
    BY <1>1 DEF Idle
<1>3. /\ ~Closing /\ \A f : Still(todo, f)
      /\ ~Closing' /\ \A f : Still(todo', f)
    <2>1. DOMAIN todo = {} /\ DOMAIN todo' = {}
        BY <1>2
    <2>2. ~Closing /\ ~Closing'
        BY <2>1 DEF Closing
    <2>. QED
        BY <1>2, <2>2, IdleStill
<1>4. PICK o : o = cur /\ Sound(o)
    BY <1>1 DEF Typed
<1>5. PICK m \in Managers(o.name) : m = [file |-> t, val |-> Empty, dirty |-> TRUE]
    BY <1>1, <1>4, CatalogAssumption DEF Managers
<1>6. m.file = t /\ m.val = Empty /\ m.dirty = TRUE
      /\ m.file \notin {o.names[i] : i \in DOMAIN o.names}
    BY <1>1, <1>4, <1>5 DEF TableId
<1>7. PICK n : n = [o EXCEPT !.names = Append(@, m.file), !.tables = Append(@, m),
                             !.changed = TRUE]
    OBVIOUS
<1>8. /\ Sound(n) /\ n.name = o.name /\ n.changed = TRUE
      /\ Len(n.tables) = Len(o.tables) + 1
      /\ \A i \in 1 .. Len(o.tables) : n.names[i] = o.names[i] /\ n.tables[i] = o.tables[i]
      /\ n.names[Len(o.tables) + 1] = m.file /\ n.tables[Len(o.tables) + 1] = m
    <2>1. Gains(n, o, m)
        BY <1>4, <1>6, <1>7, ObjectChanges
    <2>. QED
        BY <2>1, Zenon DEF Gains
<1>9. cur' = n
    BY <1>1, <1>4, <1>5, <1>6, <1>7
<1>10. PICK d \in Db, N \in Nat :
           /\ d = o.name /\ N = Len(o.tables)
           /\ DOMAIN o.tables = 1 .. N /\ DOMAIN o.names = 1 .. N
           /\ DOMAIN n.tables = 1 .. N + 1 /\ DOMAIN n.names = 1 .. N + 1
           /\ \A i \in 1 .. N : o.tables[i].file = o.names[i]
    BY <1>4, <1>8, ObjectTables
<1>11. \A f : InUse(f)' <=> InUse(f)
    <2>1. n # NoDb
        BY <1>8, NoDbAssumption DEF Sound
    <2>. QED
        BY <1>1, <1>4, <1>8, <1>9, <2>1 DEF InUse
<1>12. \A u \in Tab \ {t} : data'[u] = data[u] /\ held'[u] = held[u]
    BY <1>1 DEF Typed
<1>13. ASSUME NEW f \in Db \ hurt', f # d
       PROVE  Fine(f)'
    <2>1. \A u \in Home[f] : u \in Tab \ {t}
        BY <1>1, <1>4, <1>10, <1>13 DEF HomesApart, Tab
    <2>2. SameFiles(f)
        BY <1>1, <1>12, <2>1 DEF SameFiles
    <2>3. Carries(f) /\ Fine(f)
        BY <1>1, <1>3, <1>13, <2>2, StillCarries DEF Healthy
    <2>4. ~InUse(f)
        BY <1>4, <1>10, <1>13 DEF InUse
    <2>. QED
        BY <1>11, <2>3, <2>4, FineKept
<1>14. ASSUME d \notin hurt
       PROVE  Fine(d)'
    <2>1. CurGood
        BY <1>1, <1>3, <1>4, <1>10, <1>14 DEF Healthy, Fine, InUse
    <2>2. NowCurGood
        BY <1>1, <1>3, <2>1, CurGoodNow
    <2>3. ASSUME NEW i \in 1 .. N
          PROVE  NowHolds(n.tables[i])'
        <3>1. PICK q : q = o.tables[i] /\ q = n.tables[i] /\ q.file = o.names[i]
            BY <1>8, <1>10
        <3>2. NowHolds(q)
            BY <1>4, <1>10, <2>2, <3>1 DEF NowCurGood
        <3>3. q.file \in Tab \ {t}
            <4>1. q.file # t
                BY <1>6, <1>10, <3>1
            <4>2. q.file \in Home[d]
                BY <1>4, <1>10, <3>1, ObjectTables DEF Managers
            <4>. QED
                BY <4>1, <4>2 DEF Tab
        <3>4. NowHolds(q)'
            BY <1>1, <1>12, <3>2, <3>3 DEF NowHolds
        <3>. QED
            BY <3>1, <3>4
    <2>4. NowHolds(n.tables[N + 1])'
        <3>1. data'[t] = TRUE /\ Empty # Junk
            BY <1>1, CatalogAssumption DEF Typed
        <3>2. NowHolds(m)'
            BY <1>6, <3>1 DEF NowHolds
        <3>. QED
            BY <1>8, <1>10, <3>2
    <2>5. \A i \in DOMAIN n.tables : NowHolds(n.tables[i])'
        <3>1. \A i \in 1 .. N + 1 : i \in 1 .. N \/ i = N + 1
            OBVIOUS
        <3>. QED
            BY <1>10, <2>3, <2>4, <3>1
    <2>6. ASSUME NEW u \in Home[d], ~In(n.names, u)
          PROVE  NowGone(u)'
        <3>1. N + 1 \in 1 .. N + 1 /\ \A i \in 1 .. N : i \in 1 .. N + 1
            OBVIOUS
        <3>2. u # t /\ ~In(o.names, u)
            BY <1>6, <1>8, <1>10, <2>6, <3>1 DEF In
        <3>3. u \in Tab \ {t} /\ NowGone(u)
            BY <1>4, <1>10, <2>2, <3>2 DEF NowCurGood, Tab
        <3>. QED
            BY <1>1, <1>12, <3>3 DEF NowGone
    <2>7. list'[d] \in Names(d)
        BY <1>1, <1>4, <1>10, <2>2 DEF NowCurGood
    <2>8. NowCurGood'
        BY <1>8, <1>9, <1>10, <2>5, <2>6, <2>7 DEF NowCurGood
    <2>9. CurGood'
        <3>1. cur' # NoDb
            BY <1>8, <1>9, NoDbAssumption DEF Sound
        <3>. QED
            BY <1>3, <1>8, <1>9, <2>8, <3>1, CurGoodNext
    <2>10. InUse(d)
        BY <1>1, <1>4, <1>10 DEF InUse
    <2>. QED
        BY <1>3, <1>11, <2>9, <2>10 DEF Fine
<1>. QED
    BY <1>1, <1>13, <1>14 DEF Healthy

(* A table that is dropped leaves memory, and its files go.                *)
LEMMA HealthyDropped ==
    ASSUME HomesApart, Typed, Healthy, NEW t \in Tab, DropTable(t)
    PROVE  Healthy'
<1>1. PICK k \in TableId(t) :
          /\ Idle /\ cur # NoDb
          /\ todo' = DropTableFiles(cur.tables[k])
          /\ cur' = [cur EXCEPT !.names = NamesClosedUp(k),
                                !.tables = RemoveAt(@, k),
                                !.changed = TRUE]
          /\ UNCHANGED <<files, db, hurt>>
    BY DEF DropTable
<1>2. UNCHANGED <<list, head, data, held, hurt>> /\ \A f \in Db : SameFiles(f)
    BY <1>1 DEF files, SameFiles
<1>3. ~Closing /\ \A f : Still(todo, f)
    BY <1>1, IdleStill DEF Idle, Closing
<1>4. PICK o : o = cur /\ Sound(o) /\ k \in DOMAIN o.names /\ o.names[k] = t
    BY <1>1 DEF Typed, TableId
<1>5. PICK n : n = [o EXCEPT !.names = NamesClosedUp(k), !.tables = RemoveAt(@, k),
                             !.changed = TRUE]
    OBVIOUS
<1>6. /\ Sound(n) /\ n.name = o.name /\ n.changed = TRUE
      /\ Len(n.tables) = Len(o.tables) - 1
      /\ \A i \in 1 .. Len(o.tables) - 1 :
            \E j \in 1 .. Len(o.tables) :
               j # k /\ n.names[i] = o.names[j] /\ n.tables[i] = o.tables[j]
      /\ \A j \in 1 .. Len(o.tables) : j # k =>
            \E i \in 1 .. Len(o.tables) - 1 :
               n.names[i] = o.names[j] /\ n.tables[i] = o.tables[j]
    <2>1. Loses(n, o, k)
        BY <1>4, <1>5, ObjectChanges
    <2>. QED
        BY <2>1, Zenon DEF Loses
<1>7. cur' = n
    BY <1>1, <1>4, <1>5
<1>8. PICK d \in Db, N \in Nat :
          /\ d = o.name /\ N = Len(o.tables)
          /\ DOMAIN o.tables = 1 .. N /\ DOMAIN o.names = 1 .. N
          /\ \A i \in 1 .. N : o.tables[i].file = o.names[i] /\ o.tables[i] \in Managers(d)
          /\ \A i, j \in 1 .. N : i # j => o.tables[i].file # o.tables[j].file
    BY <1>4, ObjectTables
<1>9. DOMAIN n.tables = 1 .. N - 1 /\ DOMAIN n.names = 1 .. N - 1
    BY <1>6, <1>8, ObjectTables
<1>10. PICK m \in Managers(d) : m = o.tables[k] /\ m.file = t
    BY <1>4, <1>8
<1>11. PICK p \in Seq(Work(d)) : p = todo' /\ p = DropTableFiles(m)
    BY <1>1, <1>4, <1>10, DropTableLeads
<1>12. /\ Fixes(p, HeadSets(t), "none") /\ Fixes(p, DataSets(t), FALSE)
       /\ \A u : u # t => /\ Idles(p, HeadSets(u))
                          /\ Idles(p, DataSets(u))
                          /\ Idles(p, HeldSets(u))
       /\ \A e : Idles(p, ListSets(e))
    BY <1>10, <1>11, DropTableLeads
<1>13. ~Closing'
    <2>1. \A i \in DOMAIN p : p[i] \in Work(d)
        BY LenProperties, ElementOfSeq
    <2>2. <<"leave">> \notin Work(d)
        <3>1. <<"leave">>[1] = "leave"
            OBVIOUS
        <3>. QED
            BY <3>1, WorkKinds DEF Kind
    <2>. QED
        BY <1>11, <2>1, <2>2 DEF Closing
<1>14. n # NoDb
    BY <1>6, NoDbAssumption DEF Sound
<1>15. \A f : InUse(f)' <=> InUse(f)
    BY <1>1, <1>4, <1>6, <1>7, <1>14 DEF InUse
<1>16. ASSUME NEW f \in Db \ hurt', f # d
       PROVE  Fine(f)'
    <2>1. Still(todo', f)
        BY <1>11, <1>16, ElsewhereStill
    <2>2. Carries(f) /\ Fine(f)
        BY <1>2, <1>3, <1>16, <2>1, StillCarries DEF Healthy
    <2>3. ~InUse(f)
        BY <1>4, <1>8, <1>16 DEF InUse
    <2>. QED
        BY <1>15, <2>2, <2>3, FineKept
<1>17. ASSUME d \notin hurt
       PROVE  Fine(d)'
    <2>1. CurGood
        BY <1>1, <1>3, <1>4, <1>8, <1>17 DEF Healthy, Fine, InUse
    <2>2. NowCurGood
        BY <1>1, <1>3, <2>1, CurGoodNow
    <2>3. PICK l \in Names(d) : l = list[d]
        BY <1>4, <1>8, <2>2 DEF NowCurGood
    <2>4. ListEnds(d, l)'
        <3>1. l = list'[d]
            BY <1>2, <2>3
        <3>. QED
            BY <1>11, <1>12, <3>1, EndsNext
    <2>5. ASSUME NEW i \in DOMAIN n.tables
          PROVE  Holds(n.tables[i])'
        <3>1. PICK j \in 1 .. N : j # k /\ n.tables[i] = o.tables[j]
            <4>1. N = Len(o.tables) /\ i \in 1 .. N - 1
                BY <1>8, <1>9
            <4>2. i \in 1 .. Len(o.tables) - 1
                BY <4>1
            <4>3. \E j \in 1 .. Len(o.tables) :
                     j # k /\ n.names[i] = o.names[j] /\ n.tables[i] = o.tables[j]
                BY <1>6, <4>2, ZenonT(30)
            <4>. QED
                BY <4>1, <4>3, ZenonT(30)
        <3>2. PICK q : q = n.tables[i] /\ q = o.tables[j] /\ q.file # t
            BY <1>4, <1>8, <1>10, <3>1
        <3>3. NowHolds(q)
            BY <1>4, <1>8, <2>2, <3>2 DEF NowCurGood
        <3>4. /\ q.val # Junk /\ data'[q.file] = TRUE
              /\ ~q.dirty => head'[q.file] = "ok" /\ held'[q.file] = q.val
            BY <1>2, <3>3 DEF NowHolds
        <3>5. DataEnds(q.file, TRUE)'
            BY <1>11, <1>12, <3>2, <3>4, EndsNext
        <3>6. ~q.dirty => HeadEnds(q.file, "ok")' /\ HeldEnds(q.file, q.val)'
            BY <1>11, <1>12, <3>2, <3>4, EndsNext
        <3>7. Holds(q)'
            BY <3>4, <3>5, <3>6 DEF Holds
        <3>. QED
            BY <3>2, <3>7
    <2>6. ASSUME NEW u \in Home[d], ~In(n.names, u)
          PROVE  Gone(u)'
        <3>1. CASE u = t
            <4>1. HeadEnds(u, "none")' /\ DataEnds(u, FALSE)'
                BY <1>11, <1>12, <3>1, EndsNext
            <4>. QED
                BY <4>1 DEF Gone
        <3>2. CASE u # t
            <4>1. ~In(o.names, u)
                <5>. SUFFICES ASSUME In(o.names, u) PROVE FALSE
                    OBVIOUS
                <5>1. PICK j \in 1 .. N : o.names[j] = u
                    BY <1>8 DEF In
                <5>2. j # k
                    BY <1>4, <3>2, <5>1
                <5>3. PICK i \in 1 .. N - 1 : n.names[i] = u
                    BY <1>6, <1>8, <5>1, <5>2
                <5>. QED
                    BY <1>9, <2>6, <5>3 DEF In
            <4>2. NowGone(u)
                BY <1>4, <1>8, <2>2, <4>1 DEF NowCurGood
            <4>3. head'[u] = "none" /\ data'[u] = FALSE
                BY <1>2, <4>2 DEF NowGone
            <4>4. HeadEnds(u, "none")' /\ DataEnds(u, FALSE)'
                BY <1>11, <1>12, <3>2, <4>3, EndsNext
            <4>. QED
                BY <4>4 DEF Gone
        <3>. QED
            BY <3>1, <3>2
    <2>7. CurGood'
        BY <1>6, <1>7, <1>8, <2>4, <2>5, <2>6 DEF CurGood
    <2>. QED
        BY <1>4, <1>7, <1>8, <1>13, <1>14, <1>15, <2>7 DEF Fine, InUse
<1>. QED
    BY <1>2, <1>16, <1>17 DEF Healthy

(* Rows that change are in memory until the table is closed.               *)
LEMMA HealthyRows ==
    ASSUME Typed, Healthy, NEW t \in Tab, NEW v \in Value, ChangeRows(t, v)
    PROVE  Healthy'
<1>1. PICK k \in TableId(t) :
          /\ Idle /\ cur # NoDb
          /\ cur' = [cur EXCEPT
                        !.tables[k].val = IF @ = Junk THEN Junk ELSE v,
                        !.tables[k].dirty = TRUE]
          /\ UNCHANGED <<files, db, todo, hurt>>
    BY DEF ChangeRows
<1>2. UNCHANGED <<list, head, data, held, hurt, todo>> /\ \A f \in Db : SameFiles(f)
    BY <1>1 DEF files, SameFiles
<1>3. todo = <<>> /\ todo' = <<>>
    BY <1>1, <1>2 DEF Idle
<1>4. /\ ~Closing /\ \A f : Still(todo, f)
      /\ ~Closing' /\ \A f : Still(todo', f)
    <2>1. DOMAIN todo = {} /\ DOMAIN todo' = {}
        BY <1>3
    <2>2. ~Closing /\ ~Closing'
        BY <2>1 DEF Closing
    <2>. QED
        BY <1>3, <2>2, IdleStill
<1>5. PICK o : o = cur /\ Sound(o) /\ k \in DOMAIN o.names
    BY <1>1 DEF Typed, TableId
<1>6. PICK n : n = cur' /\ Alters(n, cur, k, v)
    BY <1>1, <1>5, RowsChanged
<1>7. Alters(n, o, k, v)
    BY <1>5, <1>6
<1>8. /\ Sound(n) /\ n.name = o.name /\ n.names = o.names /\ n.changed = o.changed
      /\ DOMAIN n.tables = DOMAIN o.tables
      /\ n.tables[k] = [file |-> o.names[k],
                        val |-> IF o.tables[k].val = Junk THEN Junk ELSE v,
                        dirty |-> TRUE]
      /\ \A i \in DOMAIN o.tables : i # k => n.tables[i] = o.tables[i]
    BY <1>7, Zenon DEF Alters
<1>9. cur' = n /\ n # NoDb
    BY <1>6, <1>8, NoDbAssumption DEF Sound
<1>10. \A f : InUse(f)' <=> InUse(f)
    BY <1>1, <1>5, <1>8, <1>9 DEF InUse
<1>11. PICK d \in Db : d = o.name /\ k \in DOMAIN o.tables /\ o.tables[k].file = o.names[k]
    BY <1>5, ObjectTables
<1>12. ASSUME NEW f \in Db \ hurt', f # d
       PROVE  Fine(f)'
    <2>1. Carries(f) /\ Fine(f)
        BY <1>2, <1>4, <1>12, StillCarries DEF Healthy
    <2>2. ~InUse(f)
        BY <1>5, <1>11, <1>12 DEF InUse
    <2>. QED
        BY <1>10, <2>1, <2>2, FineKept
<1>13. ASSUME d \notin hurt
       PROVE  Fine(d)'
    <2>1. CurGood
        BY <1>1, <1>4, <1>5, <1>11, <1>13 DEF Healthy, Fine, InUse
    <2>2. NowCurGood
        BY <1>1, <1>4, <2>1, CurGoodNow
    <2>3. ASSUME NEW i \in DOMAIN n.tables
          PROVE  NowHolds(n.tables[i])'
        <3>1. PICK q : q = o.tables[i] /\ NowHolds(q)
            BY <1>5, <1>8, <2>2, <2>3 DEF NowCurGood
        <3>2. CASE i # k
            <4>1. n.tables[i] = q
                BY <1>8, <2>3, <3>1, <3>2
            <4>2. NowHolds(q)'
                BY <1>2, <3>1 DEF NowHolds
            <4>. QED
                BY <4>1, <4>2
        <3>3. CASE i = k
            <4>1. PICK w : w = IF q.val = Junk THEN Junk ELSE v
                OBVIOUS
            <4>2. PICK m : /\ m = n.tables[i] /\ m.file = q.file /\ m.val = w
                           /\ m.dirty = TRUE
                BY <1>8, <1>11, <3>1, <3>3, <4>1
            <4>3. w # Junk
                BY <3>1, <4>1, CatalogAssumption DEF NowHolds
            <4>4. NowHolds(m)'
                BY <1>2, <3>1, <4>2, <4>3 DEF NowHolds
            <4>. QED
                BY <4>2, <4>4
        <3>. QED
            BY <3>2, <3>3
    <2>4. \A u \in Home[d] : ~In(n.names, u) => NowGone(u)'
        BY <1>2, <1>5, <1>8, <1>11, <2>2 DEF NowCurGood, NowGone
    <2>5. list'[d] \in Names(d) /\ (~n.changed => list'[d] = n.names)
        BY <1>2, <1>5, <1>8, <1>11, <2>2 DEF NowCurGood
    <2>6. NowCurGood'
        BY <1>8, <1>9, <1>11, <2>3, <2>4, <2>5 DEF NowCurGood
    <2>7. CurGood'
        BY <1>4, <1>8, <1>9, <2>6, CurGoodNext
    <2>8. InUse(d)
        BY <1>1, <1>5, <1>11 DEF InUse
    <2>. QED
        BY <1>4, <1>10, <2>7, <2>8 DEF Fine
<1>. QED
    BY <1>2, <1>12, <1>13 DEF Healthy

(* Pages that are evicted tear a data file that memory will write again.   *)
LEMMA HealthyEvicted ==
    ASSUME HomesApart, Typed, Healthy, Evict
    PROVE  Healthy'
<1>1. PICK k \in DOMAIN cur.tables :
          /\ Idle /\ cur # NoDb
          /\ cur.tables[k].dirty
          /\ held' = [held EXCEPT ![cur.tables[k].file] = Junk]
          /\ UNCHANGED <<list, head, data, cur, db, todo, hurt>>
    BY DEF Evict
<1>2. todo = <<>> /\ todo' = <<>>
    BY <1>1 DEF Idle
<1>3. /\ ~Closing /\ \A f : Still(todo, f)
      /\ ~Closing' /\ \A f : Still(todo', f)
    <2>1. DOMAIN todo = {} /\ DOMAIN todo' = {}
        BY <1>2
    <2>2. ~Closing /\ ~Closing'
        BY <2>1 DEF Closing
    <2>. QED
        BY <1>2, <2>2, IdleStill
<1>4. PICK o : o = cur /\ Sound(o)
    BY <1>1 DEF Typed
<1>5. PICK d \in Db, N \in Nat :
          /\ d = o.name /\ DOMAIN o.tables = 1 .. N
          /\ \A i \in 1 .. N : o.tables[i] \in Managers(d)
          /\ \A i, j \in 1 .. N : i # j => o.tables[i].file # o.tables[j].file
    BY <1>4, ObjectTables
<1>6. PICK m \in Managers(d) : m = o.tables[k] /\ m.dirty
    BY <1>1, <1>4, <1>5
<1>7. m.file \in Home[d] /\ \A u \in Tab : u # m.file => held'[u] = held[u]
    BY <1>1, <1>4, <1>6 DEF Typed, Managers
<1>8. \A f : InUse(f)' <=> InUse(f)
    BY <1>1 DEF InUse
<1>9. ASSUME NEW f \in Db \ hurt', f # d
      PROVE  Fine(f)'
    <2>1. \A u \in Home[f] : u \in Tab /\ u # m.file
        BY <1>7, <1>9 DEF HomesApart, Tab
    <2>2. SameFiles(f)
        BY <1>1, <1>7, <2>1 DEF SameFiles
    <2>3. Carries(f) /\ Fine(f)
        BY <1>1, <1>3, <1>9, <2>2, StillCarries DEF Healthy
    <2>4. ~InUse(f)
        BY <1>4, <1>5, <1>9 DEF InUse
    <2>. QED
        BY <1>8, <2>3, <2>4, FineKept
<1>10. ASSUME d \notin hurt
       PROVE  Fine(d)'
    <2>1. CurGood
        BY <1>1, <1>3, <1>4, <1>5, <1>10 DEF Healthy, Fine, InUse
    <2>2. NowCurGood
        BY <1>1, <1>3, <2>1, CurGoodNow
    <2>3. ASSUME NEW i \in DOMAIN o.tables
          PROVE  NowHolds(o.tables[i])'
        <3>1. PICK q \in Managers(d) : q = o.tables[i] /\ NowHolds(q)
            BY <1>4, <1>5, <2>2, <2>3 DEF NowCurGood
        <3>2. q.dirty \/ q.file # m.file
            BY <1>1, <1>4, <1>5, <1>6, <2>3, <3>1
        <3>3. q.file \in Tab
            BY <3>1 DEF Managers, Tab
        <3>4. NowHolds(q)'
            BY <1>1, <1>7, <3>1, <3>2, <3>3 DEF NowHolds
        <3>. QED
            BY <3>1, <3>4
    <2>4. \A u \in Home[d] : ~In(o.names, u) => NowGone(u)'
        BY <1>1, <1>4, <1>5, <2>2 DEF NowCurGood, NowGone
    <2>5. list'[d] \in Names(d) /\ (~o.changed => list'[d] = o.names)
        BY <1>1, <1>4, <1>5, <2>2 DEF NowCurGood
    <2>6. cur' = o
        BY <1>1, <1>4
    <2>7. NowCurGood'
        BY <1>5, <2>3, <2>4, <2>5, <2>6 DEF NowCurGood
    <2>8. CurGood'
        BY <1>1, <1>3, <1>4, <2>6, <2>7, CurGoodNext
    <2>9. InUse(d)
        BY <1>1, <1>4, <1>5 DEF InUse
    <2>. QED
        BY <1>3, <1>8, <2>8, <2>9 DEF Fine
<1>. QED
    BY <1>1, <1>9, <1>10 DEF Healthy

(* The plan leaves the files of a database alone that the death of the     *)
(* process cannot harm.                                                    *)
LEMMA Untouched ==
    ASSUME HomesApart, Typed, Quiet, NEW d \in Db \ Exposed
    PROVE  Still(todo, d)
<1>1. ASSUME NEW k \in DOMAIN todo
      PROVE  Still(<<todo[k]>>, d)
    <2>1. todo[k] \in Steps
        BY LenProperties, ElementOfSeq DEF Typed
    <2>2. PICK e \in Steps : e = todo[k]
        BY <2>1
    <2>3. ASSUME NEW f \in Db, e \in Work(f)
          PROVE  Still(<<e>>, d)
        <3>1. f # d
            BY <2>2, <2>3 DEF Quiet
        <3>2. <<e>> \in Seq(Work(f))
            BY <2>3
        <3>. QED
            BY <3>1, <3>2, ElsewhereStill
    <2>4. ASSUME e \in Turns \cup {<<"leave">>, <<"end">>}
          PROVE  Still(<<e>>, d)
        <3>1. PICK p \in Seq(Steps) : p = <<>> /\ Still(p, d)
            <4>1. <<>> \in Seq(Steps) /\ Still(<<>>, d)
                BY IdleStill
            <4>. QED
                BY <4>1
        <3>2. Still(p \o <<e>>, d)
            BY <2>4, <3>1, StillThen
        <3>3. p \o <<e>> = <<e>>
            BY <3>1
        <3>. QED
            BY <3>2, <3>3
    <2>. QED
        BY <2>2, <2>3, <2>4 DEF Steps
<1>. QED
    <2>1. \A e : DOMAIN <<e>> = {1} /\ <<e>>[1] = e
        OBVIOUS
    <2>2. \A E : \A k \in DOMAIN todo : Idles(<<todo[k]>>, E) => E[todo[k]] = {}
        BY <2>1 DEF Idles
    <2>3. \A t \in Home[d] : \A k \in DOMAIN todo : /\ HeadSets(t)[todo[k]] = {}
                                                    /\ DataSets(t)[todo[k]] = {}
                                                    /\ HeldSets(t)[todo[k]] = {}
        BY <1>1, <2>2 DEF Still
    <2>4. \A k \in DOMAIN todo : ListSets(d)[todo[k]] = {}
        BY <1>1, <2>2 DEF Still
    <2>. QED
        BY <2>3, <2>4 DEF Still, Idles

(* So it is good as it is. *)
LEMMA Unexposed ==
    ASSUME HomesApart, Typed, Quiet, Healthy, NEW d \in Db \ (hurt \cup Exposed)
    PROVE  Still(todo, d) /\ NowGood(d) /\ (InUse(d) => list[d] = cur.names)
<1>1. Still(todo, d)
    BY Untouched
<1>2. CASE ~InUse(d)
    <2>1. Good(d)
        BY <1>2 DEF Healthy, Fine
    <2>. QED
        BY <1>1, <1>2, <2>1, GoodNow
<1>3. CASE InUse(d)
    <2>1. cur # NoDb /\ cur.name = d /\ ~CurExposed
        BY <1>3 DEF InUse, Exposed
    <2>2. ~Closing /\ ~cur.changed /\ \A i \in DOMAIN cur.tables : ~cur.tables[i].dirty
        BY <2>1 DEF CurExposed, Closing
    <2>3. CurGood
        BY <1>3, <2>2 DEF Healthy, Fine
    <2>4. NowCurGood
        BY <1>1, <2>1, <2>3, CurGoodNow
    <2>5. list[d] = cur.names /\ list[d] \in Names(d)
        BY <2>1, <2>2, <2>4 DEF NowCurGood
    <2>6. ASSUME NEW t \in Home[d], In(cur.names, t)
          PROVE  NowWhole(t)
        <3>1. PICK i \in DOMAIN cur.names : cur.names[i] = t
            BY <2>6 DEF In
        <3>2. i \in DOMAIN cur.tables /\ cur.tables[i].file = t /\ cur.tables[i] \in Managers(d)
            BY <2>1, <3>1, ObjectTables DEF Typed
        <3>3. PICK m \in Managers(d) : m = cur.tables[i] /\ m.file = t /\ NowHolds(m) /\ ~m.dirty
            BY <2>2, <2>4, <3>2 DEF NowCurGood
        <3>4. m.val \in Value \cup {Junk}
            BY DEF Managers
        <3>. QED
            BY <3>3, <3>4 DEF NowHolds, NowWhole
    <2>7. \A t \in Home[d] : ~In(cur.names, t) => NowGone(t)
        BY <2>1, <2>4 DEF NowCurGood
    <2>. QED
        BY <1>1, <2>5, <2>6, <2>7 DEF NowGood
<1>. QED
    BY <1>2, <1>3

(* The death of the process leaves it so. *)
LEMMA HealthyCrash ==
    ASSUME HomesApart, Typed, Quiet, Healthy, Crash
    PROVE  Healthy'
<1>1. /\ cur' = NoDb /\ todo' = <<>> /\ hurt' = hurt \cup Exposed
      /\ UNCHANGED <<list, head, data, held>>
    BY DEF Crash, files
<1>2. ASSUME NEW d \in Db \ hurt'
      PROVE  Fine(d)'
    <2>1. d \in Db \ (hurt \cup Exposed)
        BY <1>1, <1>2
    <2>2. Still(todo, d) /\ NowGood(d)
        BY <2>1, Unexposed
    <2>3. Good(d) /\ SameFiles(d) /\ Still(todo', d)
        BY <1>1, <2>2, GoodNow, IdleStill DEF SameFiles
    <2>4. Carries(d)
        BY <2>2, <2>3, StillCarries
    <2>5. Good(d)'
        BY <2>3, <2>4, GoodKept
    <2>6. ~InUse(d)'
        BY <1>1 DEF InUse
    <2>. QED
        BY <2>5, <2>6 DEF Fine
<1>. QED
    BY <1>2 DEF Healthy

(* A plan of work on c, then e, and perhaps a turn.                        *)
PlanShape(s, N, c, e) ==
    /\ DOMAIN s \subseteq 1 .. N + 2
    /\ \A k \in DOMAIN s : k <= N => s[k] \in Work(c)
    /\ \A k \in DOMAIN s : k = N + 1 => s[k] = e
    /\ \A k \in DOMAIN s : k = N + 2 => s[k] \in Turns /\ s[k][1] # "show"

(* Such a plan has that shape. *)
LEMMA PlanParts ==
    ASSUME NEW c \in Db, NEW p \in Seq(Work(c)), NEW N \in Nat, N = Len(p),
           NEW e \in Steps, NEW s,
           \/ s = p \o <<e>>
           \/ \E f \in Turns : s = (p \o <<e>>) \o <<f>> /\ f[1] # "show"
    PROVE  PlanShape(s, N, c, e)
<1>1. p \in Seq(Steps)
    <2>1. Work(c) \subseteq Steps
        BY DEF Steps
    <2>. QED
        BY <2>1
<1>2. PICK r \in Seq(Steps) : r = <<e>> /\ Len(r) = 1 /\ DOMAIN r = {1} /\ r[1] = e
    <2>1. <<e>> \in Seq(Steps)
        OBVIOUS
    <2>2. Len(<<e>>) = 1 /\ <<e>>[1] = e
        OBVIOUS
    <2>3. DOMAIN <<e>> = {1}
        OBVIOUS
    <2>. QED
        BY <2>1, <2>2, <2>3
<1>3. DOMAIN p = 1 .. N /\ \A k \in 1 .. N : p[k] \in Work(c)
    BY LenProperties, ElementOfSeq
<1>4. PICK q \in Seq(Steps) : q = p \o r
    BY <1>1, ConcatProperties
<1>5. /\ Len(q) = N + 1 /\ DOMAIN q = 1 .. N + 1
      /\ \A k \in 1 .. N : q[k] \in Work(c)
      /\ q[N + 1] = e
    <2>1. Len(q) = N + 1 /\ DOMAIN q = 1 .. N + 1
        BY <1>1, <1>2, <1>4, ConcatProperties, LenProperties
    <2>2. \A k \in DOMAIN p : q[k] = p[k]
        BY <1>1, <1>4, InConcat
    <2>3. q[Len(p) + 1] = r[1]
        BY <1>1, <1>2, <1>4, InConcat
    <2>. QED
        BY <1>2, <1>3, <2>1, <2>2, <2>3
<1>6. CASE s = p \o <<e>>
    <2>1. s = q
        BY <1>2, <1>4, <1>6
    <2>2. \A k \in 1 .. N + 1 : k \in 1 .. N + 2 /\ (k <= N => k \in 1 .. N) /\ k # N + 2
        OBVIOUS
    <2>. QED
        BY <1>5, <2>1, <2>2 DEF PlanShape
<1>7. ASSUME NEW f \in Turns, s = (p \o <<e>>) \o <<f>>, f[1] # "show"
      PROVE  PlanShape(s, N, c, e)
    <2>1. f \in Steps
        BY DEF Steps
    <2>2. PICK g \in Seq(Steps) : g = <<f>> /\ Len(g) = 1 /\ DOMAIN g = {1} /\ g[1] = f
        <3>1. <<f>> \in Seq(Steps)
            BY <2>1
        <3>2. Len(<<f>>) = 1 /\ <<f>>[1] = f
            OBVIOUS
        <3>3. DOMAIN <<f>> = {1}
            OBVIOUS
        <3>. QED
            BY <3>1, <3>2, <3>3
    <2>3. s = q \o g
        BY <1>2, <1>4, <1>7, <2>2
    <2>4. DOMAIN s = 1 .. N + 2
        <3>1. DOMAIN (q \o g) = 1 .. Len(q) + Len(g)
            BY InConcat
        <3>. QED
            BY <1>5, <2>2, <2>3, <3>1
    <2>5. \A k \in DOMAIN q : s[k] = q[k]
        BY <2>3, InConcat
    <2>6. s[Len(q) + 1] = g[1]
        BY <2>2, <2>3, InConcat
    <2>7. \A k \in 1 .. N + 2 : (k <= N => k \in 1 .. N /\ k \in 1 .. N + 1)
        OBVIOUS
    <2>8. N + 1 \in 1 .. N + 1 /\ (N + 1) + 1 = N + 2
        OBVIOUS
    <2>. QED
        BY <1>5, <1>7, <2>2, <2>4, <2>5, <2>6, <2>7, <2>8 DEF PlanShape
<1>. QED
    BY <1>6, <1>7

PlanFits == LeavesLast /\ Quiet /\ TurnsFit

(* Nothing to do. *)
LEMMA EmptyPlan == ASSUME todo' = <<>> PROVE PlanFits'
<1>1. DOMAIN todo' = {}
    OBVIOUS
<1>. QED
    BY <1>1 DEF PlanFits, LeavesLast, Quiet, TurnsFit

(* Work on one database that the death of the process may harm.            *)
LEMMA WorkPlan ==
    ASSUME HomesApart, NEW d \in Db, d \in Exposed',
           \A k \in DOMAIN todo' : todo'[k] \in Work(d) \/ todo'[k] = <<"end">>
    PROVE  PlanFits'
<1>1. \A f \in Db : \A e \in Work(f) : Kind(e, f)
    BY WorkKinds
<1>2. \A f \in Db : <<"end">> \notin Work(f) /\ <<"leave">> \notin Work(f)
    <2>1. <<"leave">>[1] = "leave" /\ <<"end">>[1] = "end"
        OBVIOUS
    <2>. QED
        BY <1>1, <2>1 DEF Kind
<1>3. \A f \in Db : /\ <<"open", f>> \notin Work(d) /\ <<"open", f>> # <<"end">>
                    /\ <<"drop", f>> \notin Work(d) /\ <<"drop", f>> # <<"end">>
                    /\ <<"show", f>> \notin Work(d) /\ <<"show", f>> # <<"end">>
    <2>1. \A f : <<"open", f>>[1] = "open" /\ <<"drop", f>>[1] = "drop" /\ <<"show", f>>[1] = "show"
        OBVIOUS
    <2>2. <<"end">>[1] = "end"
        OBVIOUS
    <2>3. \A e \in Work(d) : e[1] # "open" /\ e[1] # "drop" /\ e[1] # "show"
        BY <1>1 DEF Kind
    <2>. QED
        BY <2>1, <2>2, <2>3
<1>4. <<"leave">> # <<"end">>
    <2>1. <<"leave">>[1] = "leave" /\ <<"end">>[1] = "end"
        OBVIOUS
    <2>. QED
        BY <2>1
<1>5. LeavesLast'
    BY <1>2, <1>4 DEF LeavesLast
<1>6. Quiet'
    BY <1>2, WorkApart DEF Quiet
<1>7. TurnsFit'
    BY <1>3 DEF TurnsFit
<1>. QED
    BY <1>5, <1>6, <1>7 DEF PlanFits

(* A plan that only opens a database.                                      *)
LEMMA TurnPlan ==
    ASSUME NEW d \in Db, NEW s \in {"show", "drop"}, todo' = << <<s, d>> >>,
           UNCHANGED <<list, cur>>,
           s = "drop" => ~InUse(d),
           s = "show" /\ InUse(d) => \A t \in Listed(d) : TableId(t) # {}
    PROVE  PlanFits'
<1>1. PICK e \in Turns : e = <<s, d>> /\ e[1] = s /\ e[2] = d
    BY DEF Turns
<1>2. DOMAIN todo' = {1} /\ Len(todo') = 1 /\ \A k \in DOMAIN todo' : todo'[k] = e
    BY <1>1
<1>3. e # <<"leave">> /\ \A f \in Db : e \notin Work(f)
    <2>1. \A f \in Db : e \in Work(f) => Kind(e, f)
        BY WorkKinds
    <2>. QED
        BY <1>1, <2>1, TurnNames DEF Kind
<1>4. LeavesLast' /\ Quiet'
    BY <1>2, <1>3 DEF LeavesLast, Quiet
<1>5. InUse(d)' <=> InUse(d)
    BY DEF InUse
<1>6. /\ \A t : t \in Listed(d)' <=> t \in Listed(d)
      /\ \A t : TableId(t)' = TableId(t)
    BY DEF Listed, TableId
<1>7. ASSUME NEW f \in Db
      PROVE  /\ e # <<"open", f>>
             /\ e = <<"drop", f>> => ~InUse(f)'
             /\ e = <<"show", f>> => (InUse(f)' => \A t \in Listed(f)' : TableId(t)' # {})
    <2>1. /\ <<"open", f>>[1] = "open"
          /\ <<"drop", f>>[1] = "drop" /\ <<"drop", f>>[2] = f
          /\ <<"show", f>>[1] = "show" /\ <<"show", f>>[2] = f
        OBVIOUS
    <2>2. e # <<"open", f>>
        BY <1>1, <2>1
    <2>3. ASSUME e = <<"drop", f>> PROVE ~InUse(f)'
        <3>1. s = "drop" /\ f = d
            BY <1>1, <2>1, <2>3
        <3>. QED
            BY <1>5, <3>1
    <2>4. ASSUME e = <<"show", f>>, InUse(f)' PROVE \A t \in Listed(f)' : TableId(t)' # {}
        <3>1. s = "show" /\ f = d
            BY <1>1, <2>1, <2>4
        <3>. QED
            BY <1>5, <1>6, <2>4, <3>1
    <2>. QED
        BY <2>2, <2>3, <2>4
<1>8. TurnsFit'
    BY <1>2, <1>7 DEF TurnsFit
<1>. QED
    BY <1>4, <1>8 DEF PlanFits

(* A plan that closes the database in use, and may open another then.      *)
LEMMA ClosePlan ==
    ASSUME HomesApart, Typed, UNCHANGED cur,
           \/ todo' = CloseCur /\ cur # NoDb
           \/ \E d \in Db : todo' = CloseCur \o << <<"open", d>> >>
           \/ \E d \in Db : todo' = CloseCur \o << <<"drop", d>> >> /\ cur # NoDb
    PROVE  PlanFits'
<1>1. CASE cur = NoDb
    <2>1. PICK d \in Db : todo' = <<>> \o << <<"open", d>> >>
        BY <1>1 DEF CloseCur
    <2>2. PICK e \in Turns : e = <<"open", d>> /\ e[1] = "open" /\ todo' = <<e>>
        BY <2>1 DEF Turns
    <2>3. DOMAIN todo' = {1} /\ \A k \in DOMAIN todo' : todo'[k] = e
        BY <2>2
    <2>4. e # <<"leave">> /\ \A f \in Db : e \notin Work(f)
        <3>1. \A f \in Db : e \in Work(f) => Kind(e, f)
            BY WorkKinds
        <3>. QED
            BY <2>2, <3>1, TurnNames DEF Kind
    <2>5. LeavesLast' /\ Quiet'
        BY <2>3, <2>4 DEF LeavesLast, Quiet
    <2>6. \A f \in Db : e # <<"drop", f>> /\ e # <<"show", f>>
        <3>1. \A f : <<"drop", f>>[1] = "drop" /\ <<"show", f>>[1] = "show"
            OBVIOUS
        <3>. QED
            BY <2>2, <3>1
    <2>7. TurnsFit'
        BY <1>1, <2>3, <2>6 DEF TurnsFit
    <2>. QED
        BY <2>5, <2>7 DEF PlanFits
<1>2. CASE cur # NoDb
    <2>1. PICK c \in Db : c = cur.name /\ Sound(cur)
        BY <1>2, ObjectTables DEF Typed
    <2>2. PICK p \in Seq(Work(c)) : p = CloseObject(cur)
        BY <2>1, CloseObjectLeads
    <2>3. PICK e \in Steps : e = <<"leave">>
        BY DEF Steps
    <2>4. CloseCur = p \o <<e>>
        BY <1>2, <2>2, <2>3 DEF CloseCur
    <2>5. PICK N \in Nat : N = Len(p)
        BY LenProperties
    <2>6. \/ todo' = p \o <<e>>
          \/ \E f \in Turns : todo' = (p \o <<e>>) \o <<f>> /\ f[1] # "show"
        <3>1. \A d \in Db : /\ <<"open", d>> \in Turns /\ <<"open", d>>[1] # "show"
                           /\ <<"drop", d>> \in Turns /\ <<"drop", d>>[1] # "show"
            BY DEF Turns
        <3>2. CASE todo' = CloseCur
            BY <2>4, <3>2
        <3>3. CASE \E d \in Db : todo' = CloseCur \o << <<"open", d>> >>
            BY <2>4, <3>1, <3>3
        <3>4. CASE \E d \in Db : todo' = CloseCur \o << <<"drop", d>> >>
            BY <2>4, <3>1, <3>4
        <3>. QED
            BY <3>2, <3>3, <3>4
    <2>7. /\ DOMAIN todo' \subseteq 1 .. N + 2
          /\ \A k \in DOMAIN todo' : k <= N => todo'[k] \in Work(c)
          /\ \A k \in DOMAIN todo' : k = N + 1 => todo'[k] = e
          /\ \A k \in DOMAIN todo' : k = N + 2 => todo'[k] \in Turns /\ todo'[k][1] # "show"
        <3>1. PICK t : t = todo'
            OBVIOUS
        <3>2. \/ t = p \o <<e>>
              \/ \E f \in Turns : t = (p \o <<e>>) \o <<f>> /\ f[1] # "show"
            BY <2>6, <3>1
        <3>3. PlanShape(t, N, c, e)
            BY <2>5, <3>2, PlanParts
        <3>. QED
            BY <3>1, <3>3 DEF PlanShape
    <2>8. Closing'
        <3>1. todo' = CloseCur \/
              \E f \in Turns \cup {<<"leave">>, <<"end">>} : todo' = CloseCur \o <<f>>
            BY <2>4, <2>6
        <3>. QED
            BY <1>2, <3>1, CloseCurLeaves
    <2>9. \A k \in 1 .. N + 2 : k <= N \/ k = N + 1 \/ k = N + 2
        OBVIOUS
    <2>10. \A f \in Db : e \notin Work(f) /\ \A g \in Turns : g \notin Work(f)
        <3>1. \A f \in Db : \A g \in Work(f) : Kind(g, f)
            BY WorkKinds
        <3>2. e[1] = "leave"
            BY <2>3
        <3>3. \A g \in Turns : g[1] \in {"open", "show", "drop"}
            BY DEF Turns
        <3>. QED
            BY <3>1, <3>2, <3>3 DEF Kind
    <2>11. LeavesLast'
        <3>. SUFFICES ASSUME NEW k \in DOMAIN todo', NEW j \in DOMAIN todo',
                             todo'[k] = <<"leave">>, j > k
                      PROVE  todo'[j] \in Turns
            BY DEF LeavesLast
        <3>1. ~(k <= N)
            BY <2>3, <2>7, <2>10
        <3>2. j = N + 2
            BY <2>7, <3>1
        <3>. QED
            BY <2>7, <3>2
    <2>12. Quiet'
        <3>. SUFFICES ASSUME NEW f \in Db, NEW k \in DOMAIN todo', todo'[k] \in Work(f)
                      PROVE  f \in Exposed'
            BY DEF Quiet
        <3>1. k <= N
            BY <2>7, <2>9, <2>10
        <3>2. f = c
            BY <2>7, <3>1, WorkApart
        <3>3. c \in Exposed'
            BY <1>2, <2>1, <2>8 DEF Exposed, CurExposed, Closing
        <3>. QED
            BY <3>2, <3>3
    <2>13. TurnsFit'
        <3>1. ASSUME NEW f \in Db, NEW k \in DOMAIN todo'
              PROVE  todo'[k] # <<"show", f>>
            <4>1. <<"show", f>>[1] = "show" /\ <<"show", f>> \in Turns
                BY DEF Turns
            <4>2. CASE k <= N
                BY <2>7, <2>10, <4>1, <4>2
            <4>3. CASE k = N + 1
                BY <2>3, <2>7, <4>1, <4>3, TurnNames
            <4>4. CASE k = N + 2
                BY <2>7, <4>1, <4>4
            <4>. QED
                BY <2>7, <2>9, <4>2, <4>3, <4>4
        <3>. QED
            BY <2>8, <3>1 DEF TurnsFit
    <2>. QED
        BY <2>11, <2>12, <2>13 DEF PlanFits
<1>. QED
    BY <1>1, <1>2

(* A plan fits as long as its first step changes neither database in       *)
(* memory.                                                                 *)
LEMMA PlanTail ==
    ASSUME Typed, PlanFits, Done, UNCHANGED <<cur, db>>, Closing' <=> Closing
    PROVE  PlanFits'
<1>1. /\ DOMAIN todo = 1 .. Len(todo) /\ Len(todo) \in Nat
      /\ DOMAIN todo' = 1 .. Len(todo) - 1
      /\ \A k \in DOMAIN todo' : k + 1 \in DOMAIN todo /\ todo'[k] = todo[k + 1]
    BY Runs
<1>2. Exposed' = Exposed
    <2>1. CurExposed' <=> CurExposed
        BY DEF CurExposed, Closing
    <2>. QED
        BY <2>1 DEF Exposed
<1>3. LeavesLast'
    <2>. SUFFICES ASSUME NEW k \in DOMAIN todo', NEW j \in DOMAIN todo',
                         todo'[k] = <<"leave">>, j > k
                  PROVE  todo'[j] \in Turns
        BY DEF LeavesLast
    <2>1. todo[k + 1] = <<"leave">> /\ todo'[j] = todo[j + 1] /\ j + 1 > k + 1
          /\ k + 1 \in DOMAIN todo /\ j + 1 \in DOMAIN todo
        BY <1>1
    <2>. QED
        BY <2>1 DEF PlanFits, LeavesLast
<1>4. Quiet'
    BY <1>1, <1>2 DEF PlanFits, Quiet
<1>5. TurnsFit'
    <2>1. ASSUME NEW d \in Db, NEW k \in DOMAIN todo'
          PROVE  /\ todo'[k] = <<"open", d>> => cur = NoDb \/ Closing
                 /\ todo'[k] = <<"drop", d>> => ~InUse(d) \/ Closing
                 /\ todo'[k] # <<"show", d>>
        <3>1. k + 1 \in DOMAIN todo /\ todo'[k] = todo[k + 1] /\ Len(todo) # 1
            BY <1>1
        <3>. QED
            BY <3>1 DEF PlanFits, TurnsFit
    <2>2. \A d : InUse(d)' <=> InUse(d)
        BY DEF InUse
    <2>. QED
        BY <2>1, <2>2 DEF TurnsFit
<1>. QED
    BY <1>3, <1>4, <1>5 DEF PlanFits

(* What runs by itself keeps the plan fitting.                             *)
LEMMA PlanStep ==
    ASSUME HomesApart, Openable, PlanFits, Step
    PROVE  PlanFits'
<1>1. Typed /\ TurnsLast
    BY DEF Openable
<1>2. CASE FileStep
    <2>1. Done /\ UNCHANGED <<cur, db, hurt>> /\ \E d \in Db : Head(todo) \in Work(d)
        BY <1>1, <1>2, FileStepSets
    <2>2. Head(todo) # <<"leave">>
        <3>1. <<"leave">>[1] = "leave"
            OBVIOUS
        <3>. QED
            BY <2>1, <3>1, WorkKinds DEF Kind
    <2>. QED
        BY <1>1, <2>1, <2>2, ClosingKept, PlanTail
<1>3. CASE OpenCur
    <2>0. OpensCur
        BY <1>3, ListedOpens
    <2>1. Do("open") /\ Done
        BY <2>0 DEF OpensCur
    <2>2. Len(todo) = 1
        BY <2>1, TurnComes
    <2>3. todo' \in Seq(Steps) /\ Len(todo') = Len(todo) - 1
        BY <1>1, <2>1, Runs
    <2>4. todo' = <<>>
        BY <2>2, <2>3, EmptySeq
    <2>. QED
        BY <2>4, EmptyPlan
<1>4. CASE OpenSecond
    <2>0. OpensSecond
        BY <1>4, ListedOpens
    <2>1. PICK s \in {"show", "drop"} : Do(s)
        BY <2>0 DEF OpensSecond
    <2>2. PICK d \in Db : d = Arg /\ list[d] \in Names(d)
        BY <2>1, TurnComes
    <2>3. /\ db' = OpenedList(d)
          /\ todo' = (IF Do("show") THEN CloseObject(db') ELSE DropObject(db'))
                        \o << <<"end">> >>
        BY <2>0, <2>2 DEF OpensSecond
    <2>4. PICK o : o = OpenedList(d) /\ Sound(o) /\ o.name = d /\ o # NoDb
        BY <1>1, <2>2, OpenedSound
    <2>5. PICK p \in Seq(Work(d)) : p = IF Do("show") THEN CloseObject(o) ELSE DropObject(o)
        BY <2>4, CloseObjectLeads, DropObjectLeads
    <2>6. db' = o /\ todo' = p \o << <<"end">> >>
        BY <2>3, <2>4, <2>5
    <2>7. d \in Exposed'
        BY <2>4, <2>6 DEF Exposed
    <2>8. \A k \in DOMAIN todo' : todo'[k] \in Work(d) \/ todo'[k] = <<"end">>
        BY <2>6, WorkThenEnd
    <2>. QED
        BY <2>7, <2>8, WorkPlan
<1>5. CASE Leave
    <2>1. Done /\ (\/ Do("leave") /\ cur' = NoDb /\ UNCHANGED db
                   \/ Do("end") /\ db' = NoDb /\ UNCHANGED cur)
        BY <1>5 DEF Leave
    <2>2. /\ Head(todo) \in Steps /\ Head(todo) = todo[1] /\ 1 \in DOMAIN todo
          /\ DOMAIN todo = 1 .. Len(todo) /\ Len(todo) \in Nat
          /\ DOMAIN todo' = 1 .. Len(todo) - 1
          /\ todo' \in Seq(Steps) /\ Len(todo') = Len(todo) - 1
          /\ \A k \in DOMAIN todo' : k + 1 \in DOMAIN todo /\ todo'[k] = todo[k + 1]
        BY <1>1, <2>1, Runs
    <2>3. CASE Do("end")
        <3>1. todo[1] = <<"end">>
            BY <2>2, <2>3, StepKinds DEF Do
        <3>2. Len(todo) = 1
            BY <1>1, <2>2, <3>1 DEF TurnsLast
        <3>3. todo' = <<>>
            BY <2>2, <3>2, EmptySeq
        <3>. QED
            BY <3>3, EmptyPlan
    <2>4. CASE Do("leave") /\ cur' = NoDb
        <3>1. todo[1] = <<"leave">>
            BY <2>2, <2>4, StepKinds DEF Do
        <3>2. \A k \in DOMAIN todo' : todo'[k] \in Turns
            <4>1. ASSUME NEW k \in DOMAIN todo' PROVE todo'[k] \in Turns
                <5>1. k + 1 \in DOMAIN todo /\ todo'[k] = todo[k + 1] /\ k + 1 > 1
                    BY <2>2
                <5>. QED
                    BY <2>2, <3>1, <5>1 DEF PlanFits, LeavesLast
            <4>. QED
                BY <4>1
        <3>3. LeavesLast'
            BY <3>2 DEF LeavesLast
        <3>4. \A f \in Db : \A e \in Turns : e \notin Work(f)
            <4>1. \A f \in Db : \A e \in Work(f) : Kind(e, f)
                BY WorkKinds
            <4>2. \A e \in Turns : e[1] \in {"open", "show", "drop"}
                BY DEF Turns
            <4>. QED
                BY <4>1, <4>2 DEF Kind
        <3>5. Quiet'
            BY <3>2, <3>4 DEF Quiet
        <3>6. \A d \in Db : \A k \in DOMAIN todo' : todo'[k] # <<"show", d>>
            <4>1. ASSUME NEW d \in Db, NEW k \in DOMAIN todo' PROVE todo'[k] # <<"show", d>>
                <5>1. k + 1 \in DOMAIN todo /\ todo'[k] = todo[k + 1] /\ Len(todo) # 1
                    BY <2>2
                <5>. QED
                    BY <5>1 DEF PlanFits, TurnsFit
            <4>. QED
                BY <4>1
        <3>7. TurnsFit'
            BY <2>4, <3>6 DEF TurnsFit, InUse
        <3>. QED
            BY <3>3, <3>5, <3>7 DEF PlanFits
    <2>. QED
        BY <2>1, <2>3, <2>4
<1>. QED
    BY <1>2, <1>3, <1>4, <1>5 DEF Step, FileStep

(* The state of the catalog between any two steps.                         *)
Kept == Openable /\ PlanFits /\ Healthy

(* It holds before the first statement. *)
LEMMA KeptInit == Init => Kept
<1>. SUFFICES ASSUME Init PROVE Kept
    OBVIOUS
<1>1. todo = <<>> /\ DOMAIN todo = {} /\ cur = NoDb
    BY DEF Init
<1>2. PlanFits
    BY <1>1 DEF PlanFits, LeavesLast, Quiet, TurnsFit
<1>3. ASSUME NEW d \in Db
      PROVE  Fine(d)
    <2>1. Still(todo, d)
        BY <1>1, IdleStill
    <2>2. NowGood(d)
        BY DEF Init, NowGood, NowGone, Tab
    <2>. QED
        BY <1>1, <2>1, <2>2, GoodNow DEF Fine, InUse
<1>. QED
    BY <1>2, <1>3, OpenableInit DEF Kept, Healthy

(* Each statement makes a plan that fits and leads to healthy databases.   *)
LEMMA KeptPlans ==
    ASSUME HomesApart, Overwrite = FALSE, StaleShow = FALSE, Unread = FALSE, Kept, NEW d \in Db,
           SwitchDatabase(d) \/ CreateDatabase(d) \/ DropDatabase(d)
               \/ ShowDatabase(d) \/ CloseDatabase
    PROVE  PlanFits' /\ Healthy'
<1>1. Typed /\ Healthy
    BY DEF Kept, Openable
<1>2. /\ <<"open", d>> \in Turns /\ <<"drop", d>> \in Turns /\ <<"show", d>> \in Turns
    BY DEF Turns
<1>3. CASE CreateDatabase(d)
    <2>1. db' = NewObject(d) /\ todo' = CloseObject(NewObject(d)) \o << <<"end">> >>
        BY <1>3 DEF CreateDatabase
    <2>2. PICK o : o = NewObject(d) /\ Sound(o) /\ o.name = d /\ o # NoDb
        BY NewSound
    <2>3. PICK p \in Seq(Work(d)) : p = CloseObject(o)
        BY <2>2, CloseObjectLeads
    <2>4. d \in Exposed'
        BY <2>1, <2>2 DEF Exposed
    <2>5. todo' = p \o << <<"end">> >>
        BY <2>1, <2>2, <2>3
    <2>6. \A k \in DOMAIN todo' : todo'[k] \in Work(d) \/ todo'[k] = <<"end">>
        BY <2>5, WorkThenEnd
    <2>. QED
        BY <1>1, <1>3, <2>4, <2>6, WorkPlan, HealthyCreated
<1>4. CASE SwitchDatabase(d)
    <2>1. /\ Idle /\ UNCHANGED <<files, cur, hurt>>
          /\ todo' = CloseCur \o << <<"open", d>> >>
        BY <1>4 DEF SwitchDatabase
    <2>2. PlanFits'
        BY <1>1, <2>1, ClosePlan
    <2>3. Healthy'
        BY <1>1, <1>2, <2>1, HealthyClosed
    <2>. QED
        BY <2>2, <2>3
<1>5. CASE CloseDatabase
    <2>1. /\ Idle /\ UNCHANGED <<files, cur, hurt>> /\ cur # NoDb /\ todo' = CloseCur
        BY <1>5 DEF CloseDatabase
    <2>. QED
        BY <1>1, <2>1, ClosePlan, HealthyClosed
<1>6. CASE DropDatabase(d) /\ InUse(d)
    <2>1. /\ Idle /\ UNCHANGED <<files, cur, hurt>> /\ cur # NoDb
          /\ todo' = CloseCur \o << <<"drop", d>> >>
        BY <1>6 DEF DropDatabase, InUse
    <2>2. PlanFits'
        BY <1>1, <2>1, ClosePlan
    <2>3. Healthy'
        BY <1>1, <1>2, <2>1, HealthyClosed
    <2>. QED
        BY <2>2, <2>3
<1>7. CASE DropDatabase(d) /\ ~InUse(d)
    <2>1. /\ Idle /\ UNCHANGED <<files, cur, hurt>>
          /\ todo' = <<>> \o << <<"drop", d>> >>
        BY <1>7 DEF DropDatabase
    <2>2. UNCHANGED <<list, cur>> /\ todo' = << <<"drop", d>> >>
        BY <2>1 DEF files
    <2>3. PlanFits'
        BY <1>7, <2>2, TurnPlan
    <2>4. Healthy'
        BY <1>1, <1>2, <2>1, <2>2, HealthyTurn
    <2>. QED
        BY <2>3, <2>4
<1>8. CASE ShowDatabase(d)
    <2>1. /\ Idle /\ UNCHANGED <<files, cur, hurt>> /\ todo' = << <<"show", d>> >>
          /\ InUse(d) => \A t \in Listed(d) : TableId(t) # {}
        BY <1>8 DEF ShowDatabase
    <2>2. UNCHANGED <<list, cur>>
        BY <2>1 DEF files
    <2>3. PlanFits'
        BY <2>1, <2>2, TurnPlan
    <2>4. Healthy'
        BY <1>1, <1>2, <2>1, HealthyTurn
    <2>. QED
        BY <2>3, <2>4
<1>. QED
    BY <1>3, <1>4, <1>5, <1>6, <1>7, <1>8

(* So do the statements on tables, and the death of the process.           *)
LEMMA KeptTables ==
    ASSUME HomesApart, Kept,
           \/ \E t \in Tab : CreateTable(t) \/ DropTable(t) \/ \E v \in Value : ChangeRows(t, v)
           \/ Evict \/ Crash
    PROVE  PlanFits' /\ Healthy'
<1>1. Typed /\ Healthy /\ Quiet
    BY DEF Kept, Openable, PlanFits
<1>2. ASSUME NEW t \in Tab, CreateTable(t)
      PROVE  PlanFits' /\ Healthy'
    <2>1. todo' = <<>>
        BY <1>2 DEF CreateTable, Idle
    <2>. QED
        BY <1>1, <1>2, <2>1, EmptyPlan, HealthyTable
<1>3. ASSUME NEW t \in Tab, DropTable(t)
      PROVE  PlanFits' /\ Healthy'
    <2>1. PICK k \in TableId(t) :
              /\ cur # NoDb
              /\ todo' = DropTableFiles(cur.tables[k])
              /\ cur' = [cur EXCEPT !.names = NamesClosedUp(k),
                                    !.tables = RemoveAt(@, k),
                                    !.changed = TRUE]
        BY <1>3 DEF DropTable
    <2>2. PICK o : o = cur /\ Sound(o) /\ k \in DOMAIN o.names
        BY <1>1, <2>1 DEF Typed, TableId
    <2>3. PICK n : n = [o EXCEPT !.names = NamesClosedUp(k), !.tables = RemoveAt(@, k),
                                 !.changed = TRUE]
        OBVIOUS
    <2>4. Sound(n) /\ n.name = o.name /\ n.changed = TRUE
        <3>1. Loses(n, o, k)
            BY <2>2, <2>3, ObjectChanges
        <3>. QED
            BY <3>1, Zenon DEF Loses
    <2>5. cur' = n /\ n # NoDb
        BY <2>1, <2>2, <2>3, <2>4, NoDbAssumption DEF Sound
    <2>6. /\ o.name \in Db /\ k \in DOMAIN o.tables
          /\ o.tables[k] \in Managers(o.name)
        BY <2>2, ObjectTables
    <2>7. PICK d \in Db : d = o.name
        BY <2>6
    <2>8. PICK m \in Managers(d) : m = o.tables[k]
        BY <2>6, <2>7
    <2>9. PICK p \in Seq(Work(d)) : p = DropTableFiles(m)
        BY DropTableLeads
    <2>10. todo' = p
        BY <2>1, <2>2, <2>8, <2>9
    <2>11. \A i \in DOMAIN todo' : todo'[i] \in Work(d)
        BY <2>10, LenProperties, ElementOfSeq
    <2>12. d \in Exposed'
        BY <2>4, <2>5, <2>7 DEF Exposed, CurExposed
    <2>13. PlanFits'
        BY <2>11, <2>12, WorkPlan
    <2>. QED
        BY <1>1, <1>3, <2>13, HealthyDropped
<1>4. ASSUME NEW t \in Tab, NEW v \in Value, ChangeRows(t, v)
      PROVE  PlanFits' /\ Healthy'
    <2>1. todo' = <<>>
        BY <1>4 DEF ChangeRows, Idle
    <2>. QED
        BY <1>1, <1>4, <2>1, EmptyPlan, HealthyRows
<1>5. CASE Evict
    <2>1. todo' = <<>>
        BY <1>5 DEF Evict, Idle
    <2>. QED
        BY <1>1, <1>5, <2>1, EmptyPlan, HealthyEvicted
<1>6. CASE Crash
    <2>1. todo' = <<>>
        BY <1>6 DEF Crash
    <2>. QED
        BY <1>1, <1>6, <2>1, EmptyPlan, HealthyCrash
<1>. QED
    BY <1>2, <1>3, <1>4, <1>5, <1>6

(* Every step keeps it. *)
LEMMA KeptNext ==
    ASSUME HomesApart, Overwrite = FALSE, StaleShow = FALSE, Unread = FALSE, Kept, [Next]_vars
    PROVE  Kept'
<1>1. Openable' /\ Typed
    BY OpenableNext DEF Kept, Openable
<1>2. CASE Step
    <2>1. Healthy'
        <3>1. CASE FileStep
            BY <1>1, <3>1, HealthyFiles DEF Kept
        <3>2. CASE OpenCur
            BY <3>2, ListedOpens, HealthyOpen DEF Kept, PlanFits
        <3>3. CASE OpenSecond
            BY <3>3, ListedOpens, HealthySecond DEF Kept, PlanFits
        <3>4. CASE Leave
            BY <1>1, <3>4, HealthyLeave DEF Kept
        <3>. QED
            BY <1>2, <3>1, <3>2, <3>3, <3>4 DEF Step, FileStep
    <2>2. PlanFits'
        BY <1>2, PlanStep DEF Kept
    <2>. QED
        BY <1>1, <2>1, <2>2 DEF Kept
<1>3. CASE \E d \in Db : \/ SwitchDatabase(d) \/ CreateDatabase(d)
                         \/ DropDatabase(d) \/ ShowDatabase(d)
    BY <1>1, <1>3, KeptPlans DEF Kept
<1>4. CASE CloseDatabase
    <2>1. cur.name \in Db
        BY <1>1, <1>4, ObjectTables DEF CloseDatabase, Typed
    <2>. QED
        BY <1>1, <1>4, <2>1, KeptPlans DEF Kept
<1>5. CASE \/ \E t \in Tab : CreateTable(t) \/ DropTable(t) \/ \E v \in Value : ChangeRows(t, v)
           \/ Evict \/ Crash
    BY <1>1, <1>5, KeptTables DEF Kept
<1>6. CASE UNCHANGED vars
    <2>1. UNCHANGED <<list, head, data, held, cur, db, todo, hurt>>
        BY <1>6 DEF vars, files
    <2>2. PlanFits'
        BY <2>1 DEF Kept, PlanFits, LeavesLast, Quiet, TurnsFit, Exposed, CurExposed,
                    Closing, InUse, Listed, TableId
    <2>3. (Closing' <=> Closing) /\ \A d \in Db : InUse(d)' <=> InUse(d)
        BY <2>1 DEF Closing, InUse
    <2>4. \A d \in Db : Carries(d)
        BY <2>1 DEF Carries, HeadEnds, DataEnds, HeldEnds, ListEnds
    <2>5. Healthy'
        BY <1>1, <2>1, <2>3, <2>4, FineKept DEF Kept, Healthy
    <2>. QED
        BY <1>1, <2>2, <2>5 DEF Kept
<1>. QED
    BY <1>2, <1>3, <1>4, <1>5, <1>6 DEF Next

(* What nobody works on is complete then. *)
LEMMA KeptComplete ==
    ASSUME HomesApart, Kept
    PROVE  ListedComplete
<1>. SUFFICES ASSUME NEW d \in Db \ (hurt \cup Exposed)
              PROVE  /\ list[d] # Damaged
                     /\ IsList(d) => \A t \in Listed(d) : Complete(t) /\ held[t] # Junk
    BY DEF ListedComplete
<1>1. NowGood(d)
    BY Unexposed DEF Kept, Openable, PlanFits
<1>2. list[d] # Damaged
    BY <1>1, NamesThere, CatalogAssumption DEF NowGood
<1>3. ASSUME IsList(d), NEW t \in Listed(d)
      PROVE  Complete(t) /\ held[t] # Junk
    <2>1. list[d] \in Names(d) /\ In(list[d], t)
        BY <1>1, <1>3 DEF NowGood, IsList, Listed, In
    <2>2. list[d] \in Seq(Home[d])
        BY <2>1 DEF Names
    <2>3. t \in Home[d]
        BY <1>3, <2>2, LenProperties, ElementOfSeq DEF Listed
    <2>4. NowWhole(t)
        BY <1>1, <1>3, <2>1, <2>3 DEF NowGood, IsList
    <2>. QED
        BY <2>4, CatalogAssumption DEF NowWhole, Complete
<1>. QED
    BY <1>2, <1>3

(* And nothing is left behind. *)
LEMMA KeptNoOrphans ==
    ASSUME HomesApart, Kept
    PROVE  NoOrphans
<1>. SUFFICES ASSUME Idle, NEW d \in Db \ hurt, NEW t \in Home[d],
                     head[t] # "none" \/ data[t]
              PROVE  \/ IsList(d) /\ t \in Listed(d)
                     \/ InUse(d) /\ TableId(t) # {}
    BY DEF NoOrphans
<1>1. ~Closing /\ Still(todo, d) /\ Typed /\ Fine(d)
    BY IdleStill DEF Idle, Closing, Kept, Openable, Healthy
<1>2. ~NowGone(t)
    BY DEF NowGone
<1>3. CASE InUse(d)
    <2>1. cur # NoDb /\ cur.name = d /\ CurGood
        BY <1>1, <1>3 DEF InUse, Fine
    <2>2. NowCurGood
        BY <1>1, <2>1, CurGoodNow
    <2>3. In(cur.names, t)
        BY <1>2, <2>1, <2>2 DEF NowCurGood
    <2>. QED
        BY <1>3, <2>3 DEF In, TableId
<1>4. CASE ~InUse(d)
    <2>1. NowGood(d)
        BY <1>1, <1>4, GoodNow DEF Fine
    <2>2. list[d] \in Names(d) /\ In(list[d], t)
        BY <1>2, <2>1 DEF NowGood
    <2>3. IsList(d)
        BY <2>2, NamesThere DEF IsList
    <2>. QED
        BY <2>2, <2>3 DEF In, Listed
<1>. QED
    BY <1>3, <1>4

(* Where no two databases have a table of the same name, CREATE DATABASE   *)
(* is not given a name that is there and SHOW DATABASE finds memory and    *)
(* files to agree: a database that is not being worked on and never was    *)
(* when the process died lists only tables whose files are whole and of    *)
(* one age.                                                                *)
THEOREM ListsStayComplete ==
    HomesApart /\ Overwrite = FALSE /\ StaleShow = FALSE /\ Unread = FALSE => (Spec => []ListedComplete)
<1>. SUFFICES ASSUME HomesApart, Overwrite = FALSE, StaleShow = FALSE, Unread = FALSE
              PROVE  Spec => []ListedComplete
    OBVIOUS
<1>1. Spec => []Kept
    BY KeptInit, KeptNext, PTL DEF Spec
<1>2. Kept => ListedComplete
    BY KeptComplete
<1>. QED
    BY <1>1, <1>2, PTL

(* Under the same conditions no table that was dropped, and none of a      *)
(* database that was, leaves a file behind.                                *)
THEOREM NothingOrphaned ==
    HomesApart /\ Overwrite = FALSE /\ StaleShow = FALSE /\ Unread = FALSE => (Spec => []NoOrphans)
<1>. SUFFICES ASSUME HomesApart, Overwrite = FALSE, StaleShow = FALSE, Unread = FALSE
              PROVE  Spec => []NoOrphans
    OBVIOUS
<1>1. Spec => []Kept
    BY KeptInit, KeptNext, PTL DEF Spec
<1>2. Kept => NoOrphans
    BY KeptNoOrphans
<1>. QED
    BY <1>1, <1>2, PTL

-----------------------------------------------------------------------------
(***************************************************************************)
(* Proof that to statements the catalog is the databases of Databases,     *)
(* where no two of them may have a table of the same name, CREATE DATABASE *)
(* is not given a name that is there and SHOW DATABASE finds memory and    *)
(* files to agree.                                                         *)
(*                                                                         *)
(* What a statement would find does not depend on where it looks: Mapped   *)
(* says that the files of the database in use hold what memory has, or     *)
(* will once the plan has run, and so of the database a statement opened   *)
(* besides.  Unlike Healthy this holds of harmed databases too.            *)
(***************************************************************************)

(* Does the plan end a statement besides the one in use, remove a list,    *)
(* and as the step before its end?                                         *)
Ending == In(todo, <<"end">>)

Removes(d) == In(todo, <<"remove list", d>>)

Drops(d) == \E k \in DOMAIN todo : todo[k] = <<"remove list", d>> /\ Len(todo) = k + 1

(* The files of an open table hold what memory has, unless it was changed. *)
Fits(m) ==
    /\ DataEnds(m.file, TRUE)
    /\ ~m.dirty => /\ HeldEnds(m.file, m.val)
                   /\ m.val # Junk => HeadEnds(m.file, "ok")

CurFits ==
    /\ \E l \in Names(cur.name) : ListEnds(cur.name, l) /\ (~cur.changed => l = cur.names)
    /\ \A i \in DOMAIN cur.tables : Fits(cur.tables[i])

(* They will hold it when the plan has run. *)
Stores(m) ==
    HeadEnds(m.file, "ok") /\ DataEnds(m.file, TRUE) /\ HeldEnds(m.file, m.val)

WillShow(o) ==
    /\ ListEnds(o.name, o.names)
    /\ \A i \in DOMAIN o.tables : Stores(o.tables[i])

SecondFits ==
    db # NoDb /\ ~InUse(db.name) =>
        \/ (Drops(db.name) \/ Do("end")) /\ ListEnds(db.name, Missing)
        \/ ~Removes(db.name) /\ WillShow(db)

Mapped ==
    /\ db # NoDb <=> Ending
    /\ Closing => cur # NoDb
    /\ cur # NoDb => IF Closing THEN WillShow(cur) ELSE CurFits
    /\ SecondFits

(* A step that changes nothing about how the files of a database end. *)
LEMMA ShowKept ==
    ASSUME NEW o, Sound(o), Carries(o.name), WillShow(o)
    PROVE  WillShow(o)'
<1>1. PICK d \in Db : /\ d = o.name
                      /\ \A i \in DOMAIN o.tables : o.tables[i].file \in Home[d]
    BY ObjectTables DEF Managers
<1>2. Carries(d)
    BY <1>1
<1>3. ListEnds(d, o.names)'
    BY <1>1, <1>2 DEF WillShow, Carries
<1>4. ASSUME NEW i \in DOMAIN o.tables
      PROVE  Stores(o.tables[i])'
    <2>1. PICK m : m = o.tables[i] /\ Stores(m) /\ m.file \in Home[d]
        BY <1>1 DEF WillShow
    <2>2. Stores(m)'
        BY <1>2, <2>1 DEF Stores, Carries
    <2>. QED
        BY <2>1, <2>2
<1>. QED
    BY <1>1, <1>3, <1>4 DEF WillShow

(* Likewise the database in use. *)
LEMMA CurFitsKept ==
    ASSUME Typed, cur # NoDb, Carries(cur.name), CurFits, UNCHANGED cur
    PROVE  CurFits'
<1>1. PICK o : o = cur /\ Sound(o) /\ o = cur'
    BY DEF Typed
<1>2. PICK d \in Db : /\ d = o.name /\ Carries(d)
                      /\ \A i \in DOMAIN o.tables : o.tables[i].file \in Home[d]
    BY <1>1, ObjectTables DEF Managers
<1>3. PICK l \in Names(d) : ListEnds(d, l) /\ (~o.changed => l = o.names)
    BY <1>1, <1>2 DEF CurFits
<1>4. ListEnds(d, l)'
    BY <1>2, <1>3 DEF Carries
<1>5. ASSUME NEW i \in DOMAIN o.tables
      PROVE  Fits(o.tables[i])'
    <2>1. PICK m : m = o.tables[i] /\ Fits(m) /\ m.file \in Home[d]
        BY <1>1, <1>2 DEF CurFits
    <2>2. Fits(m)'
        BY <1>2, <2>1 DEF Fits, Carries
    <2>. QED
        BY <2>1, <2>2
<1>. QED
    BY <1>1, <1>2, <1>3, <1>4, <1>5 DEF CurFits

(* A plan loses its first step and no other. *)
LEMMA TailHas ==
    ASSUME Typed, Done, NEW e, Head(todo) # e
    PROVE  In(todo', e) <=> In(todo, e)
<1>1. /\ Len(todo) \in Nat /\ DOMAIN todo = 1 .. Len(todo) /\ DOMAIN todo' = 1 .. Len(todo) - 1
      /\ Head(todo) = todo[1]
      /\ \A k \in DOMAIN todo' : k + 1 \in DOMAIN todo /\ todo'[k] = todo[k + 1]
    BY Runs
<1>2. ASSUME NEW k \in DOMAIN todo, todo[k] = e
      PROVE  In(todo', e)
    <2>1. k # 1
        BY <1>1, <1>2
    <2>2. PICK j \in 1 .. Len(todo) - 1 : j + 1 = k
        <3>1. k - 1 \in 1 .. Len(todo) - 1 /\ (k - 1) + 1 = k
            BY <1>1, <2>1
        <3>. QED
            BY <3>1
    <2>3. j \in DOMAIN todo' /\ todo'[j] = todo[k]
        BY <1>1, <2>2
    <2>. QED
        BY <1>2, <2>3 DEF In
<1>3. ASSUME NEW k \in DOMAIN todo', todo'[k] = e
      PROVE  In(todo, e)
    BY <1>1, <1>3 DEF In
<1>. QED
    BY <1>2, <1>3 DEF In

-----------------------------------------------------------------------------
(* A step on the files does what the plan said. *)
LEMMA MappedFiles ==
    ASSUME Openable, Mapped, FileStep
    PROVE  Mapped'
<1>1. Typed /\ TurnsLast
    BY DEF Openable
<1>2. Done /\ UNCHANGED <<cur, db, hurt>> /\ \E d \in Db : Head(todo) \in Work(d)
    BY <1>1, FileStepSets
<1>3. \A d \in Db : Carries(d)
    <2>1. /\ \A t \in Tab : \A x : /\ HeadEnds(t, x) => HeadEnds(t, x)'
                                   /\ DataEnds(t, x) => DataEnds(t, x)'
                                   /\ HeldEnds(t, x) => HeldEnds(t, x)'
          /\ \A d \in Db : \A x : ListEnds(d, x) => ListEnds(d, x)'
        BY <1>1, <1>2, FileStepSets, EndsKept
    <2>. QED
        BY <2>1 DEF Carries, Tab
<1>4. Head(todo) # <<"leave">> /\ Head(todo) # <<"end">>
    <2>1. <<"leave">>[1] = "leave" /\ <<"end">>[1] = "end"
        OBVIOUS
    <2>. QED
        BY <1>2, <2>1, WorkKinds DEF Kind
<1>5. (Closing' <=> Closing) /\ (Ending' <=> Ending)
    BY <1>1, <1>2, <1>4, ClosingKept, TailHas DEF Ending
<1>6. cur # NoDb => Sound(cur) /\ cur.name \in Db
    BY <1>1, ObjectTables DEF Typed
<1>7. ASSUME cur' # NoDb
      PROVE  IF Closing' THEN WillShow(cur)' ELSE CurFits'
    <2>1. PICK o : o = cur /\ o = cur' /\ Sound(o) /\ Carries(o.name)
        BY <1>2, <1>3, <1>6, <1>7
    <2>2. CASE Closing
        <3>1. WillShow(o)
            BY <1>2, <1>7, <2>1, <2>2 DEF Mapped
        <3>2. WillShow(o)'
            BY <2>1, <3>1, ShowKept
        <3>. QED
            BY <1>5, <2>1, <2>2, <3>2
    <2>3. CASE ~Closing
        <3>1. CurFits
            BY <1>2, <1>7, <2>3 DEF Mapped
        <3>2. CurFits'
            BY <1>1, <1>2, <1>7, <2>1, <3>1, CurFitsKept
        <3>. QED
            BY <1>5, <2>3, <3>2
    <2>. QED
        BY <2>2, <2>3
<1>8. SecondFits'
    <2>. SUFFICES ASSUME db # NoDb, ~InUse(db.name)
                  PROVE  \/ (Drops(db.name) \/ Do("end"))' /\ ListEnds(db.name, Missing)'
                         \/ ~Removes(db.name)' /\ WillShow(db)'
        BY <1>2 DEF SecondFits, InUse
    <2>0. PICK o : o = db /\ o = db' /\ Sound(o)
        BY <1>1, <1>2 DEF Typed
    <2>1. PICK d \in Db : o = db /\ o = db' /\ d = o.name /\ Sound(o) /\ Carries(d)
        BY <1>3, <2>0, ObjectTables
    <2>2. ~Do("end")
        BY <1>2, WorkKinds DEF Do, Kind
    <2>3. /\ Len(todo) \in Nat /\ DOMAIN todo = 1 .. Len(todo) /\ DOMAIN todo' = 1 .. Len(todo) - 1
          /\ Head(todo) = todo[1] /\ todo' \in Seq(Steps) /\ Len(todo') = Len(todo) - 1
          /\ \A k \in DOMAIN todo' : k + 1 \in DOMAIN todo /\ todo'[k] = todo[k + 1]
        BY <1>1, <1>2, Runs
    <2>4. CASE Drops(d) /\ ListEnds(d, Missing)
        <3>0. PICK p \in Seq(Steps), N \in Nat :
                  /\ p = todo' /\ N = Len(todo) /\ DOMAIN todo = 1 .. N
                  /\ Len(p) = N - 1 /\ DOMAIN p = 1 .. N - 1
                  /\ \A k \in 1 .. N - 1 : p[k] = todo[k + 1]
            BY <2>3
        <3>1. PICK k \in 1 .. N : todo[k] = <<"remove list", d>> /\ N = k + 1
            BY <2>4, <3>0 DEF Drops
        <3>5. N = k + 1
            BY <3>1
        <3>6. Len(p) = k /\ DOMAIN p = 1 .. k
            BY <3>0, <3>5
        <3>2. ListEnds(d, Missing)'
            BY <2>1, <2>4 DEF Carries
        <3>3. CASE k = 1
            <4>1. DOMAIN p = {1} /\ Len(p) = 1
                BY <3>3, <3>6
            <4>2. PICK j \in DOMAIN p : p[j] = <<"end">>
                BY <1>2, <1>5, <3>0 DEF Mapped, Ending, In
            <4>3. p[1] = <<"end">>
                BY <4>1, <4>2
            <4>4. p # <<>> /\ Head(p) = p[1]
                BY <4>1
            <4>5. Do("end")'
                BY <3>0, <4>3, <4>4 DEF Do
            <4>. QED
                BY <2>1, <3>2, <4>5
        <3>4. CASE k # 1
            <4>1. PICK j \in 1 .. N - 1 : j + 1 = k
                <5>1. k - 1 \in 1 .. N - 1 /\ (k - 1) + 1 = k
                    BY <3>4, <3>5
                <5>. QED
                    BY <5>1
            <4>2. Len(p) = j + 1 /\ j \in DOMAIN p /\ p[j] = todo[k]
                BY <3>0, <3>5, <4>1
            <4>4. p[j] = <<"remove list", d>>
                BY <3>1, <4>2
            <4>3. Drops(d)'
                BY <3>0, <4>2, <4>4 DEF Drops
            <4>. QED
                BY <2>1, <3>2, <4>3
        <3>. QED
            BY <3>3, <3>4
    <2>5. CASE ~Removes(d) /\ WillShow(o)
        <3>1. PICK e : e = <<"remove list", d>>
            OBVIOUS
        <3>2. ~In(todo, e)
            BY <2>5, <3>1 DEF Removes
        <3>3. Head(todo) # e
            BY <1>2, <2>3, <3>2, Runs DEF In
        <3>4. ~In(todo', e)
            BY <1>1, <1>2, <3>2, <3>3, TailHas
        <3>5. ~Removes(d)'
            BY <3>1, <3>4 DEF Removes
        <3>6. WillShow(o)'
            BY <2>1, <2>5, ShowKept
        <3>. QED
            BY <2>1, <3>5, <3>6
    <2>. QED
        BY <2>1, <2>2, <2>4, <2>5 DEF Mapped, SecondFits
<1>. QED
    BY <1>2, <1>5, <1>7, <1>8 DEF Mapped

(* With nothing planned it is the database in use that counts. *)
LEMMA MappedIdle ==
    ASSUME todo' = <<>>, db' = NoDb, cur' # NoDb => CurFits'
    PROVE  Mapped'
<1>1. DOMAIN todo' = {}
    OBVIOUS
<1>2. ~Ending' /\ ~Closing'
    BY <1>1 DEF Ending, In, Closing
<1>. QED
    BY <1>2 DEF Mapped, SecondFits

(* Steps that begin or end a turn write nothing. *)
LEMMA LeaveCarries ==
    ASSUME Typed, Leave
    PROVE  \A d \in Db : Carries(d)
<1>1. Done /\ UNCHANGED <<list, head, data, held>>
    BY DEF Leave, files
<1>2. Head(todo) \in Steps
    BY <1>1, Runs
<1>3. Head(todo) = <<"leave">> \/ Head(todo) = <<"end">>
    BY <1>2, StepKinds DEF Leave, Do
<1>4. \A t : /\ HeadSets(t)[Head(todo)] = {} /\ DataSets(t)[Head(todo)] = {}
             /\ HeldSets(t)[Head(todo)] = {} /\ ListSets(t)[Head(todo)] = {}
    BY <1>2, <1>3, TurnSets
<1>5. /\ \A t \in Tab : \A x : /\ HeadEnds(t, x) => HeadEnds(t, x)'
                               /\ DataEnds(t, x) => DataEnds(t, x)'
                               /\ HeldEnds(t, x) => HeldEnds(t, x)'
      /\ \A d \in Db : \A x : ListEnds(d, x) => ListEnds(d, x)'
    BY <1>1, <1>4, EndsKept
<1>. QED
    BY <1>5 DEF Carries, Tab

(* After the database in use is left, only a turn may come. *)
LEMMA LeftAlone ==
    ASSUME Openable, LeavesLast, Mapped, Do("leave"), Leave
    PROVE  /\ todo[1] = <<"leave">> /\ Closing /\ db = NoDb
           /\ cur # NoDb /\ cur' = NoDb /\ db' = NoDb
           /\ ~Closing' /\ ~Ending'
           /\ \A k \in DOMAIN todo : k # 1 => todo[k] \in Turns
<1>1. Typed
    BY DEF Openable
<1>2. Done /\ cur' = NoDb /\ UNCHANGED db
    <2>1. ~Do("end")
        BY DEF Do
    <2>. QED
        BY <2>1 DEF Leave
<1>3. /\ Head(todo) \in Steps /\ Head(todo) = todo[1] /\ 1 \in DOMAIN todo
      /\ DOMAIN todo = 1 .. Len(todo) /\ Len(todo) \in Nat
      /\ DOMAIN todo' = 1 .. Len(todo) - 1
      /\ \A k \in DOMAIN todo' : k + 1 \in DOMAIN todo /\ todo'[k] = todo[k + 1]
    BY <1>1, <1>2, Runs
<1>4. todo[1] = <<"leave">>
    BY <1>3, StepKinds DEF Do
<1>5. ASSUME NEW k \in DOMAIN todo, k # 1
      PROVE  todo[k] \in Turns
    <2>1. k > 1
        BY <1>3, <1>5
    <2>. QED
        BY <1>3, <1>4, <2>1 DEF LeavesLast
<1>6. <<"leave">> # <<"end">>
    <2>1. <<"leave">>[1] = "leave" /\ <<"end">>[1] = "end"
        OBVIOUS
    <2>. QED
        BY <2>1
<1>7. ~Ending
    <2>. SUFFICES ASSUME NEW k \in DOMAIN todo, todo[k] = <<"end">> PROVE FALSE
        BY DEF Ending, In
    <2>. QED
        BY <1>4, <1>5, <1>6, TurnNames
<1>8. \A k \in DOMAIN todo' : todo'[k] \in Turns
    <2>. SUFFICES ASSUME NEW k \in DOMAIN todo' PROVE todo'[k] \in Turns
        OBVIOUS
    <2>1. k + 1 \in DOMAIN todo /\ todo'[k] = todo[k + 1] /\ k + 1 # 1
        BY <1>3
    <2>. QED
        BY <1>5, <2>1
<1>9. ~Closing' /\ ~Ending'
    BY <1>8, TurnNames DEF Closing, Ending, In
<1>10. Closing /\ db = NoDb /\ cur # NoDb
    BY <1>3, <1>4, <1>7 DEF Closing, Mapped
<1>. QED
    BY <1>2, <1>4, <1>5, <1>9, <1>10

(* The end of a statement is the end of its plan. *)
LEMMA EndsAlone ==
    ASSUME Openable, Mapped, Do("end"), Leave
    PROVE  /\ DOMAIN todo = {1} /\ todo[1] = <<"end">> /\ todo' = <<>>
           /\ ~Closing /\ db # NoDb /\ cur' = cur /\ db' = NoDb
<1>1. Typed /\ TurnsLast
    BY DEF Openable
<1>2. Done /\ db' = NoDb /\ UNCHANGED cur
    <2>1. ~Do("leave")
        BY DEF Do
    <2>. QED
        BY <2>1 DEF Leave
<1>3. /\ Head(todo) \in Steps /\ Head(todo) = todo[1] /\ 1 \in DOMAIN todo
      /\ DOMAIN todo = 1 .. Len(todo) /\ Len(todo) \in Nat
      /\ todo' \in Seq(Steps) /\ Len(todo') = Len(todo) - 1
    BY <1>1, <1>2, Runs
<1>4. todo[1] = <<"end">>
    BY <1>3, StepKinds DEF Do
<1>5. Len(todo) = 1
    BY <1>1, <1>3, <1>4 DEF TurnsLast
<1>6. todo' = <<>> /\ DOMAIN todo = {1}
    BY <1>3, <1>5, EmptySeq
<1>7. <<"leave">> # <<"end">>
    <2>1. <<"leave">>[1] = "leave" /\ <<"end">>[1] = "end"
        OBVIOUS
    <2>. QED
        BY <2>1
<1>8. ~Closing /\ Ending
    BY <1>4, <1>6, <1>7 DEF Closing, Ending, In
<1>. QED
    BY <1>2, <1>4, <1>6, <1>8 DEF Mapped

(* A database left, and a statement that ends. *)
LEMMA MappedLeave ==
    ASSUME Openable, LeavesLast, Mapped, Leave
    PROVE  Mapped'
<1>1. Typed
    BY DEF Openable
<1>2. CASE Do("leave")
    <2>1. cur' = NoDb /\ db' = NoDb /\ ~Closing' /\ ~Ending'
        BY <1>2, LeftAlone
    <2>. QED
        BY <2>1 DEF Mapped, SecondFits
<1>3. CASE Do("end")
    <2>1. todo' = <<>> /\ ~Closing /\ cur' = cur /\ db' = NoDb
        BY <1>3, EndsAlone
    <2>2. ASSUME cur' # NoDb
          PROVE  CurFits'
        <3>1. cur # NoDb /\ CurFits /\ cur.name \in Db
            BY <1>1, <2>1, <2>2, ObjectTables DEF Mapped, Typed
        <3>2. Carries(cur.name)
            BY <1>1, <3>1, LeaveCarries
        <3>. QED
            BY <1>1, <2>1, <3>1, <3>2, CurFitsKept
    <2>. QED
        BY <2>1, <2>2, MappedIdle
<1>. QED
    BY <1>2, <1>3 DEF Leave

(* Where the plan leaves the database in use alone. *)
NowFits(m) ==
    /\ data[m.file] = TRUE
    /\ ~m.dirty => held[m.file] = m.val /\ (m.val # Junk => head[m.file] = "ok")

NowCurFits ==
    /\ list[cur.name] \in Names(cur.name)
    /\ ~cur.changed => list[cur.name] = cur.names
    /\ \A i \in DOMAIN cur.tables : NowFits(cur.tables[i])

(* What the files hold then is what they end as. *)
LEMMA FitsNow ==
    ASSUME Typed, cur # NoDb, Still(todo, cur.name)
    PROVE  CurFits <=> NowCurFits
<1>0. PICK o : o = cur /\ Sound(o)
    BY DEF Typed
<1>1. PICK d \in Db : /\ o = cur /\ d = o.name /\ Sound(o)
                      /\ \A i \in DOMAIN o.tables : o.tables[i].file \in Home[d]
    BY <1>0, ObjectTables DEF Managers
<1>2. /\ \A t \in Home[d] : \A x : /\ HeadEnds(t, x) <=> x = head[t]
                                   /\ DataEnds(t, x) <=> x = data[t]
                                   /\ HeldEnds(t, x) <=> x = held[t]
      /\ \A x : ListEnds(d, x) <=> x = list[d]
    BY <1>1, NowEnds
<1>3. \A m : m.file \in Home[d] => (Fits(m) <=> NowFits(m))
    BY <1>2 DEF Fits, NowFits
<1>4. (\A i \in DOMAIN o.tables : Fits(o.tables[i]))
        <=> \A i \in DOMAIN o.tables : NowFits(o.tables[i])
    BY <1>1, <1>3
<1>. QED
    BY <1>1, <1>2, <1>4 DEF CurFits, NowCurFits

(* The next plan leaves the database in use alone. *)
LEMMA FitsNext ==
    ASSUME cur' # NoDb, Sound(cur'), Still(todo', cur'.name), NowCurFits'
    PROVE  CurFits'
<1>0. PICK o : o = cur' /\ Sound(o)
    OBVIOUS
<1>1. PICK d \in Db : o = cur' /\ d = o.name /\ Sound(o)
    BY <1>0, ObjectTables
<1>2. /\ \A t \in Home[d] : /\ Idles(todo', HeadSets(t))
                            /\ Idles(todo', DataSets(t))
                            /\ Idles(todo', HeldSets(t))
      /\ Idles(todo', ListSets(d))
    BY <1>1 DEF Still
<1>3. /\ list'[d] \in Names(d) /\ (~o.changed => list'[d] = o.names)
      /\ \A i \in DOMAIN o.tables : NowFits(o.tables[i])'
    BY <1>1 DEF NowCurFits
<1>4. PICK l \in Names(d) : l = list'[d] /\ (~o.changed => l = o.names)
    BY <1>3
<1>5. ListEnds(d, l)'
    BY <1>2, <1>4, EndsNext
<1>6. ASSUME NEW i \in DOMAIN o.tables
      PROVE  Fits(o.tables[i])'
    <2>1. PICK m : m = o.tables[i] /\ m.file \in Home[d]
        BY <1>1, ObjectTables DEF Managers
    <2>2. NowFits(m)'
        BY <1>3, <2>1
    <2>3. /\ data'[m.file] = TRUE
          /\ ~m.dirty => held'[m.file] = m.val /\ (m.val # Junk => head'[m.file] = "ok")
        BY <2>2 DEF NowFits
    <2>4. DataEnds(m.file, TRUE)'
        BY <1>2, <2>1, <2>3, EndsNext
    <2>5. ~m.dirty => HeldEnds(m.file, m.val)' /\ (m.val # Junk => HeadEnds(m.file, "ok")')
        BY <1>2, <2>1, <2>3, EndsNext
    <2>6. Fits(m)'
        BY <2>4, <2>5 DEF Fits
    <2>. QED
        BY <2>1, <2>6
<1>. QED
    BY <1>1, <1>4, <1>5, <1>6 DEF CurFits

(* While a database is to be opened there is no other besides the one in   *)
(* use.                                                                    *)
LEMMA NoSecond ==
    ASSUME Openable, Mapped, NEW s \in {"open", "show", "drop"}, Do(s)
    PROVE  db = NoDb /\ ~Ending
<1>1. DOMAIN todo = {1} /\ todo[1] = <<s, Arg>>
    BY TurnComes
<1>2. <<s, Arg>>[1] = s /\ <<"end">>[1] = "end"
    OBVIOUS
<1>3. ~Ending
    BY <1>1, <1>2 DEF Ending, In
<1>. QED
    BY <1>3 DEF Mapped

(* What a table holds when it is opened is what memory has of it.          *)
LEMMA OpenedFits ==
    ASSUME Typed, NEW d \in Db, list[d] \in Names(d), FilesOpen(d),
           NEW o, AsOpened(o, d), NEW i \in DOMAIN o.tables
    PROVE  /\ NowFits(o.tables[i])'
           /\ data'[o.tables[i].file] = TRUE
           /\ held'[o.tables[i].file] = o.tables[i].val
           /\ o.tables[i].dirty = FALSE
<1>1. PICK t : /\ t = list[d][i] /\ o.tables[i].file = t
               /\ o.tables[i].val = OnDisk(t) /\ o.tables[i].dirty = FALSE
               /\ t \in Listed(d)
    BY DEF AsOpened, Listed
<1>2. t \in Tab
    <2>1. o.tables[i] \in Managers(d) /\ o.tables[i].file = t
        BY <1>1, ObjectTables DEF AsOpened
    <2>. QED
        BY <2>1 DEF Managers, Tab
<1>3. data'[t] = TRUE /\ held'[t] = OnDisk(t) /\ head'[t] = head[t]
    BY <1>1, <1>2, FilesOpened
<1>4. OnDisk(t) # Junk => head'[t] = "ok"
    BY <1>3 DEF OnDisk, Complete
<1>5. PICK m : m = o.tables[i] /\ m.file = t /\ m.val = OnDisk(t) /\ m.dirty = FALSE
    BY <1>1
<1>6. NowFits(m)'
    BY <1>3, <1>4, <1>5 DEF NowFits
<1>. QED
    BY <1>3, <1>5, <1>6

(* A database that is opened fits. *)
LEMMA MappedOpen ==
    ASSUME Openable, Mapped, OpensCur
    PROVE  Mapped'
<1>1. Do("open") /\ Done /\ FilesOpen(Arg) /\ cur' = OpenedList(Arg) /\ UNCHANGED <<db, hurt>>
    BY DEF OpensCur
<1>2. PICK d \in Db : d = Arg /\ list[d] \in Names(d) /\ Len(todo) = 1
    BY <1>1, TurnComes
<1>3. Typed /\ db' = NoDb
    BY <1>1, NoSecond DEF Openable
<1>4. todo' = <<>>
    <2>1. todo' \in Seq(Steps) /\ Len(todo') = Len(todo) - 1
        BY <1>1, <1>3, Runs
    <2>. QED
        BY <1>2, <2>1, EmptySeq
<1>5. PICK o : o = cur' /\ AsOpened(o, d)
    BY <1>1, <1>2, <1>3, OpenedAs
<1>6. o = cur' /\ Sound(o) /\ o # NoDb /\ o.name = d /\ o.names = list[d]
    BY <1>5 DEF AsOpened
<1>7. list'[d] = list[d]
    BY <1>1, <1>2 DEF FilesOpen
<1>8. \A i \in DOMAIN o.tables : NowFits(o.tables[i])'
    BY <1>1, <1>2, <1>3, <1>5, OpenedFits
<1>9. NowCurFits'
    BY <1>2, <1>6, <1>7, <1>8 DEF NowCurFits
<1>10. Still(todo', d)
    BY <1>4, IdleStill
<1>11. CurFits'
    BY <1>6, <1>9, <1>10, FitsNext
<1>. QED
    BY <1>3, <1>4, <1>11, MappedIdle

(* Closing a database does not remove its list. *)
LEMMA CloseRemovesNothing ==
    ASSUME NEW o, Sound(o), NEW d
    PROVE  ~In(CloseObject(o), <<"remove list", d>>)
<1>1. PICK f \in Db, n \in Nat :
          f = o.name /\ n = Len(o.tables) /\ DOMAIN o.tables = 1 .. n
    BY ObjectTables
<1>2. \A i \in 1 .. n : o.tables[i] \in Managers(f)
    BY <1>1, ObjectTables
<1>3. PICK P \in SUBSET Work(f) : P = {e \in Work(f) : e[1] # "remove list"}
    OBVIOUS
<1>4. ASSUME NEW m \in Managers(f)
      PROVE  CloseTable(m) \in Seq(P)
    <2>1. PICK a \in P : a = <<"cut", m.file>>
        BY <1>3 DEF Work, Managers
    <2>2. PICK b \in P : b = <<"head", m>>
        BY <1>3 DEF Work
    <2>3. PICK c \in P : c = <<"data", m>>
        BY <1>3 DEF Work
    <2>4. <<a, b, c>> \in Seq(P)
        BY ThreeSteps
    <2>. QED
        BY <2>1, <2>2, <2>3, <2>4 DEF CloseTable
<1>5. PICK bs \in [1 .. n -> Seq(P)] : bs = [i \in DOMAIN o.tables |-> CloseTable(o.tables[i])]
    BY <1>1, <1>2, <1>4
<1>6. PICK p \in Seq(P) : p = FlattenSeq(bs)
    <2>1. ASSUME NEW i \in 1 .. n, NEW k \in DOMAIN bs[i] PROVE bs[i][k] \in P
        <3>1. bs[i] \in Seq(P)
            OBVIOUS
        <3>. QED
            BY <3>1, LenProperties, ElementOfSeq
    <2>2. FlattenSeq(bs) \in Seq(P)
        BY <2>1, FlattenAll
    <2>. QED
        BY <2>2
<1>7. PICK a \in P : a = <<"cut list", f>>
    BY <1>3 DEF Work
<1>8. PICK b \in P : b = <<"list", f, o.names>>
    <2>1. o.names \in Names(f)
        BY <1>1 DEF Sound
    <2>. QED
        BY <1>3, <2>1 DEF Work
<1>9. PICK r \in Seq(P) : r = <<a, b>>
    BY TwoSteps
<1>10. PICK c \in Seq(P) : c = CloseObject(o)
    <2>1. CloseObject(o) = p \o r
        BY <1>1, <1>5, <1>6, <1>7, <1>8, <1>9 DEF CloseObject
    <2>2. p \o r \in Seq(P)
        BY ConcatProperties
    <2>. QED
        BY <2>1, <2>2
<1>11. \A k \in DOMAIN c : c[k] \in P
    BY LenProperties, ElementOfSeq
<1>12. <<"remove list", d>> \notin P
    <2>1. <<"remove list", d>>[1] = "remove list"
        OBVIOUS
    <2>. QED
        BY <1>3, <2>1
<1>. QED
    BY <1>10, <1>11, <1>12 DEF In

(* Nor does a plan that closes one and then ends. *)
LEMMA CloseEndRemovesNothing ==
    ASSUME NEW o, Sound(o), todo' = CloseObject(o) \o << <<"end">> >>, NEW d
    PROVE  ~Removes(d)'
<1>1. PICK f \in Db : f = o.name
    BY ObjectTables
<1>2. PICK p \in Seq(Plain) : p = CloseObject(o)
    <2>1. CloseObject(o) \in Seq(Work(f))
        BY <1>1, CloseObjectLeads
    <2>2. Work(f) \subseteq Plain
        BY DEF Plain
    <2>. QED
        BY <2>1, <2>2
<1>3. PICK e \in Steps : e = <<"end">>
    BY DEF Steps
<1>4. todo' = p \o <<e>>
    BY <1>2, <1>3
<1>5. \A k \in DOMAIN (p \o <<e>>) :
         \/ (p \o <<e>>)[k] = e
         \/ k \in DOMAIN p /\ (p \o <<e>>)[k] = p[k]
    BY PlanThen
<1>6. PICK g : g = <<"remove list", d>>
    OBVIOUS
<1>7. g # e
    <2>1. g[1] = "remove list" /\ e[1] = "end"
        BY <1>3, <1>6
    <2>. QED
        BY <2>1
<1>8. ~In(p, g)
    BY <1>2, <1>6, CloseRemovesNothing
<1>9. ~In(p \o <<e>>, g)
    BY <1>5, <1>7, <1>8 DEF In
<1>. QED
    BY <1>4, <1>6, <1>9 DEF Removes

(* Dropping a database ends with removing its list. *)
LEMMA DropRemovesList ==
    ASSUME NEW o, Sound(o), todo' = DropObject(o) \o << <<"end">> >>
    PROVE  Drops(o.name)'
<1>1. PICK d \in Db, n \in Nat :
          d = o.name /\ n = Len(o.tables) /\ DOMAIN o.tables = 1 .. n
    BY ObjectTables
<1>2. \A i \in 1 .. n : o.tables[i] \in Managers(d)
    BY <1>1, ObjectTables
<1>3. PICK bs \in [1 .. n -> Seq(Work(d))] :
          bs = [i \in DOMAIN o.tables |-> DropTableFiles(o.tables[i])]
    BY <1>1, <1>2, DropTableLeads
<1>4. PICK p \in Seq(Work(d)) : p = FlattenSeq(bs)
    <2>1. ASSUME NEW i \in 1 .. n, NEW k \in DOMAIN bs[i] PROVE bs[i][k] \in Work(d)
        <3>1. bs[i] \in Seq(Work(d))
            OBVIOUS
        <3>. QED
            BY <3>1, LenProperties, ElementOfSeq
    <2>2. FlattenSeq(bs) \in Seq(Work(d))
        BY <2>1, FlattenAll
    <2>. QED
        BY <2>2
<1>5. PICK a \in Steps, b \in Steps, c \in Steps :
          a = <<"cut list", d>> /\ b = <<"list", d, <<>> >> /\ c = <<"remove list", d>>
    <2>1. <<>> \in Names(d)
        BY DEF Names, IsInjective
    <2>2. <<"cut list", d>> \in Work(d) /\ <<"remove list", d>> \in Work(d)
        BY DEF Work
    <2>3. <<"list", d, <<>> >> \in Work(d)
        BY <2>1 DEF Work
    <2>4. Work(d) \subseteq Steps
        BY DEF Steps
    <2>. QED
        BY <2>2, <2>3, <2>4
<1>6. PICK e \in Steps : e = <<"end">>
    BY DEF Steps
<1>7. PICK r \in Seq(Steps) : r = <<a, b, c>> /\ Len(r) = 3 /\ r[3] = c
    <2>1. <<a, b, c>> \in Seq(Steps)
        BY ThreeSteps
    <2>. QED
        BY <2>1
<1>8. PICK q \in Seq(Steps), N \in Nat : q = p /\ N = Len(q)
    <2>1. p \in Seq(Steps)
        BY DEF Steps
    <2>. QED
        BY <2>1, LenProperties
<1>9. PICK s \in Seq(Steps) : s = q \o r /\ Len(s) = N + 3 /\ s[N + 3] = c
    <2>1. q \o r \in Seq(Steps) /\ DOMAIN (q \o r) = 1 .. Len(q) + Len(r)
        BY InConcat
    <2>2. (q \o r)[Len(q) + 3] = r[3]
        <3>1. 3 \in DOMAIN r
            BY <1>7
        <3>. QED
            BY <3>1, InConcat
    <2>3. Len(q \o r) = Len(q) + Len(r)
        BY ConcatProperties
    <2>. QED
        BY <1>7, <1>8, <2>1, <2>2, <2>3
<1>10. PICK z \in Seq(Steps) : z = <<e>> /\ Len(z) = 1
    <2>1. <<e>> \in Seq(Steps) /\ Len(<<e>>) = 1
        OBVIOUS
    <2>. QED
        BY <2>1
<1>11. N + 3 \in DOMAIN (s \o z) /\ (s \o z)[N + 3] = c /\ Len(s \o z) = N + 4
    <2>1. N + 3 \in DOMAIN s
        BY <1>9, LenProperties
    <2>2. N + 3 \in DOMAIN (s \o z) /\ (s \o z)[N + 3] = s[N + 3]
        BY <2>1, InConcat
    <2>3. Len(s \o z) = Len(s) + Len(z)
        BY ConcatProperties
    <2>. QED
        BY <1>9, <1>10, <2>2, <2>3
<1>12. todo' = s \o z
    BY <1>1, <1>3, <1>4, <1>5, <1>6, <1>7, <1>8, <1>9, <1>10 DEF DropObject
<1>13. PICK k \in Nat : k = N + 3 /\ k + 1 = N + 4
    OBVIOUS
<1>14. k \in DOMAIN todo' /\ todo'[k] = c /\ Len(todo') = k + 1
    BY <1>11, <1>12, <1>13
<1>15. Drops(d)'
    BY <1>5, <1>14 DEF Drops
<1>. QED
    BY <1>1, <1>15

(* A database opened to be shown is written as it was read. *)
LEMMA ShownAgain ==
    ASSUME Typed, NEW d \in Db, list[d] \in Names(d), FilesOpen(d),
           NEW o, AsOpened(o, d), todo' = CloseObject(o) \o << <<"end">> >>
    PROVE  WillShow(o)'
<1>1. PICK e \in Turns \cup {<<"leave">>, <<"end">>} : e = <<"end">>
    OBVIOUS
<1>2. PICK p : p = todo' /\ p = CloseObject(o) \o <<e>>
    BY <1>1
<1>3. Sound(o)
    BY DEF AsOpened
<1>4. /\ Fixes(p, ListSets(o.name), o.names)
      /\ \A i \in DOMAIN o.tables :
            /\ Fixes(p, HeadSets(o.tables[i].file), "ok")
            /\ ~o.tables[i].dirty => Idles(p, HeldSets(o.tables[i].file))
      /\ \A t : Idles(p, DataSets(t))
    BY <1>2, <1>3, CloseThen
<1>5. ListEnds(o.name, o.names)'
    BY <1>2, <1>4, EndsNext
<1>6. ASSUME NEW i \in DOMAIN o.tables
      PROVE  Stores(o.tables[i])'
    <2>1. PICK m : m = o.tables[i] /\ data'[m.file] = TRUE /\ held'[m.file] = m.val /\ ~m.dirty
        BY <1>6, OpenedFits
    <2>2. HeadEnds(m.file, "ok")'
        BY <1>2, <1>4, <2>1, EndsNext
    <2>3. DataEnds(m.file, TRUE)'
        BY <1>2, <1>4, <2>1, EndsNext
    <2>4. HeldEnds(m.file, m.val)'
        BY <1>2, <1>4, <2>1, EndsNext
    <2>5. Stores(m)'
        BY <2>2, <2>3, <2>4 DEF Stores
    <2>. QED
        BY <2>1, <2>5
<1>. QED
    BY <1>5, <1>6 DEF WillShow

(* If it is the one in use, memory still fits. *)
LEMMA ShowCurFits ==
    ASSUME Typed, NEW d \in Db, InUse(d), list[d] \in Names(d), FilesOpen(d), NowCurFits,
           NEW o, AsOpened(o, d), todo' = CloseObject(o) \o << <<"end">> >>, UNCHANGED cur
    PROVE  CurFits'
<1>1. cur # NoDb /\ cur.name = d /\ cur' = cur /\ Sound(cur)
    BY DEF InUse, Typed
<1>2. PICK e \in Turns \cup {<<"leave">>, <<"end">>} : e = <<"end">>
    OBVIOUS
<1>3. PICK p : p = todo' /\ p = CloseObject(o) \o <<e>>
    BY <1>2
<1>4. Sound(o) /\ o.name = d /\ o.names = list[d] /\ DOMAIN o.tables = DOMAIN list[d]
    BY DEF AsOpened
<1>5. /\ Fixes(p, ListSets(d), list[d])
      /\ \A i \in DOMAIN o.tables : Fixes(p, HeadSets(o.tables[i].file), "ok")
      /\ \A t : ~In(list[d], t) => Idles(p, HeadSets(t)) /\ Idles(p, HeldSets(t))
      /\ \A t : Idles(p, DataSets(t))
    BY <1>3, <1>4, CloseThen
<1>6. \A i \in DOMAIN o.tables : ~o.tables[i].dirty /\ o.tables[i].file = list[d][i]
    BY DEF AsOpened
<1>7. \A t : In(list[d], t) => Fixes(p, HeadSets(t), "ok") /\ Idles(p, HeldSets(t))
    <2>1. \A i \in DOMAIN o.tables : Idles(p, HeldSets(o.tables[i].file))
        BY <1>3, <1>4, <1>6, CloseThen
    <2>. QED
        BY <1>4, <1>5, <1>6, <2>1 DEF In
<1>8. \A t : Idles(p, HeldSets(t))
    BY <1>5, <1>7
<1>9. /\ UNCHANGED <<list, head>>
      /\ \A t \in Tab : /\ data'[t] = (data[t] \/ t \in Listed(d))
                        /\ held'[t] = IF t \in Listed(d) THEN OnDisk(t) ELSE held[t]
    BY FilesOpened
<1>10. PICK l \in Names(d) : l = list[d] /\ (~cur.changed => l = cur.names)
    BY <1>1 DEF NowCurFits
<1>11. ListEnds(d, l)'
    BY <1>3, <1>5, <1>10, EndsNext
<1>12. ASSUME NEW i \in DOMAIN cur.tables
       PROVE  Fits(cur.tables[i])'
    <2>1. PICK m : m = cur.tables[i] /\ m.file \in Home[d]
        BY <1>1, ObjectTables, SMTT(30) DEF Managers
    <2>2. NowFits(m)
        BY <2>1 DEF NowCurFits
    <2>3. PICK t \in Tab : t = m.file /\ data[t] = TRUE
        BY <2>1, <2>2 DEF NowFits, Tab
    <2>4. DataEnds(t, TRUE)'
        <3>1. data'[t] = TRUE
            BY <1>9, <2>3
        <3>. QED
            BY <1>3, <1>5, <3>1, EndsNext
    <2>5. ASSUME ~m.dirty
          PROVE  HeldEnds(t, m.val)' /\ (m.val # Junk => HeadEnds(t, "ok")')
        <3>1. held[t] = m.val /\ (m.val # Junk => head[t] = "ok")
            BY <2>2, <2>3, <2>5 DEF NowFits
        <3>2. held'[t] = m.val /\ (m.val # Junk => head'[t] = "ok")
            BY <1>9, <2>3, <3>1 DEF OnDisk, Complete
        <3>3. HeldEnds(t, m.val)'
            BY <1>3, <1>8, <3>2, EndsNext
        <3>4. ASSUME m.val # Junk
              PROVE  HeadEnds(t, "ok")'
            <4>1. CASE In(l, t)
                BY <1>3, <1>7, <1>10, <4>1, EndsNext
            <4>2. CASE ~In(l, t)
                BY <1>3, <1>5, <1>10, <3>2, <3>4, <4>2, EndsNext
            <4>. QED
                BY <4>1, <4>2
        <3>. QED
            BY <3>3, <3>4
    <2>6. Fits(m)'
        BY <2>3, <2>4, <2>5 DEF Fits
    <2>. QED
        BY <2>1, <2>6
<1>. QED
    BY <1>1, <1>10, <1>11, <1>12 DEF CurFits

(* A plan with an end. *)
LEMMA EndPlanned ==
    ASSUME NEW d \in Db, NEW p \in Seq(Work(d)), todo' = p \o << <<"end">> >>
    PROVE  Ending'
<1>1. p \in Seq(Plain)
    BY DEF Plain
<1>2. PICK e \in Steps : e = <<"end">>
    BY DEF Steps
<1>3. Len(p \o <<e>>) \in DOMAIN (p \o <<e>>) /\ (p \o <<e>>)[Len(p \o <<e>>)] = e
    BY <1>1, PlanThen
<1>. QED
    BY <1>2, <1>3 DEF Ending, In

(* A database opened besides the one in use. *)
LEMMA MappedSecond ==
    ASSUME HomesApart, Openable, TurnsFit, Mapped, OpensSecond
    PROVE  Mapped'
<1>1. PICK s \in {"show", "drop"} : Do(s)
    BY DEF OpensSecond
<1>2. PICK d \in Db : d = Arg /\ todo[1] = <<s, d>> /\ list[d] \in Names(d)
                      /\ DOMAIN todo = {1} /\ Len(todo) = 1
    BY <1>1, TurnComes
<1>3. ~Closing /\ \A f \in Db : Still(todo, f)
    BY <1>1, TurnAlone
<1>4. Typed
    BY DEF Openable
<1>5. /\ FilesOpen(d) /\ UNCHANGED <<cur, hurt>> /\ db' = OpenedList(d)
      /\ todo' = (IF Do("show") THEN CloseObject(OpenedList(d)) ELSE DropObject(OpenedList(d)))
                    \o << <<"end">> >>
    BY <1>2 DEF OpensSecond
<1>6. PICK o : o = OpenedList(d) /\ AsOpened(o, d)
    BY <1>2, <1>4, OpenedAs
<1>7. Sound(o) /\ o.name = d /\ o # NoDb /\ db' = o
    BY <1>5, <1>6 DEF AsOpened
<1>8. PICK p \in Seq(Work(d)) : p = IF Do("show") THEN CloseObject(o) ELSE DropObject(o)
    BY <1>7, CloseObjectLeads, DropObjectLeads
<1>9. todo' = p \o << <<"end">> >>
    BY <1>5, <1>6, <1>8
<1>10. Ending' /\ ~Closing' /\ \A f \in Db \ {d} : Still(todo', f)
    BY <1>9, EndPlanned, WorkThenEnd
<1>11. ASSUME cur' # NoDb
       PROVE  CurFits'
    <2>1. PICK c : c = cur /\ c = cur' /\ Sound(c) /\ c.name \in Db
        BY <1>4, <1>5, <1>11, ObjectTables DEF Typed
    <2>2. CurFits
        BY <1>3, <1>5, <1>11 DEF Mapped
    <2>3. CASE c.name # d
        <3>1. SameFiles(c.name)
            BY <1>2, <1>4, <1>5, <2>1, <2>3, OpenedSame
        <3>2. Carries(c.name)
            BY <1>3, <1>10, <2>1, <2>3, <3>1, StillCarries
        <3>. QED
            BY <1>4, <1>5, <1>11, <2>1, <2>2, <3>2, CurFitsKept
    <2>4. CASE c.name = d
        <3>1. InUse(d)
            BY <1>5, <1>11, <2>1, <2>4 DEF InUse
        <3>2. s = "show"
            BY <1>2, <1>3, <3>1 DEF TurnsFit
        <3>3. NowCurFits
            BY <1>3, <1>4, <1>5, <1>11, <2>1, <2>2, FitsNow
        <3>4. todo' = CloseObject(o) \o << <<"end">> >>
            BY <1>1, <1>8, <1>9, <3>2
        <3>. QED
            BY <1>2, <1>4, <1>5, <1>6, <3>1, <3>3, <3>4, ShowCurFits
    <2>. QED
        BY <2>3, <2>4
<1>12. \/ Drops(d)' /\ ListEnds(d, Missing)'
       \/ ~Removes(d)' /\ WillShow(o)'
    <2>1. CASE s = "show"
        <3>1. todo' = CloseObject(o) \o << <<"end">> >>
            BY <1>1, <1>8, <1>9, <2>1
        <3>2. ~Removes(d)'
            BY <1>7, <3>1, CloseEndRemovesNothing
        <3>3. WillShow(o)'
            BY <1>2, <1>4, <1>5, <1>6, <3>1, ShownAgain
        <3>. QED
            BY <3>2, <3>3
    <2>2. CASE s = "drop"
        <3>1. ~Do("show")
            BY <1>1, <2>2 DEF Do
        <3>2. todo' = DropObject(o) \o << <<"end">> >>
            BY <1>8, <1>9, <3>1
        <3>3. Drops(d)'
            <4>1. Drops(o.name)'
                BY <1>7, <3>2, DropRemovesList
            <4>. QED
                BY <1>7, <4>1
        <3>4. PICK e \in Turns \cup {<<"leave">>, <<"end">>} : e = <<"end">>
            OBVIOUS
        <3>5. PICK q : q = todo' /\ q = DropObject(o) \o <<e>>
            BY <3>2, <3>4
        <3>6. Fixes(q, ListSets(d), Missing)
            BY <1>7, <3>5, DropThen
        <3>7. ListEnds(d, Missing)'
            BY <3>5, <3>6, EndsNext
        <3>. QED
            BY <3>3, <3>7
    <2>. QED
        BY <2>1, <2>2
<1>13. SecondFits'
    BY <1>7, <1>12 DEF SecondFits
<1>. QED
    BY <1>7, <1>10, <1>11, <1>13 DEF Mapped

-----------------------------------------------------------------------------
(* Between statements. *)
LEMMA Between ==
    ASSUME Typed, Mapped, Idle
    PROVE  /\ ~Closing /\ ~Ending /\ db = NoDb
           /\ \A f : Still(todo, f)
           /\ cur # NoDb => CurFits /\ NowCurFits
<1>1. DOMAIN todo = {} /\ todo = <<>>
    BY DEF Idle
<1>2. ~Closing /\ ~Ending /\ \A f : Still(todo, f)
    BY <1>1, IdleStill DEF Closing, Ending, In
<1>3. db = NoDb /\ (cur # NoDb => CurFits)
    BY <1>2 DEF Mapped
<1>4. cur # NoDb => NowCurFits
    BY <1>2, <1>3, FitsNow
<1>. QED
    BY <1>2, <1>3, <1>4

(* The plan that closes the database in use does not end a statement. *)
LEMMA CloseCurEndsNothing ==
    ASSUME Typed, todo' = CloseCur \/ \E e \in Turns : todo' = CloseCur \o <<e>>
    PROVE  ~Ending'
<1>1. PICK p \in Seq(Plain) : p = CloseCur
    BY ClosePlans
<1>2. <<"end">> \notin Plain
    BY PlainSteps
<1>3. \A k \in DOMAIN p : p[k] # <<"end">>
    BY <1>2, LenProperties, ElementOfSeq
<1>4. CASE todo' = CloseCur
    BY <1>1, <1>3, <1>4 DEF Ending, In
<1>5. ASSUME NEW e \in Turns, todo' = CloseCur \o <<e>>
      PROVE  ~Ending'
    <2>1. e \in Steps /\ e # <<"end">>
        BY TurnNames DEF Steps
    <2>2. \A k \in DOMAIN (p \o <<e>>) :
             \/ (p \o <<e>>)[k] = e
             \/ k \in DOMAIN p /\ (p \o <<e>>)[k] = p[k]
        BY <2>1, PlanThen
    <2>3. ~In(p \o <<e>>, <<"end">>)
        BY <1>3, <2>1, <2>2 DEF In
    <2>. QED
        BY <1>1, <1>5, <2>3 DEF Ending
<1>. QED
    BY <1>4, <1>5

(* It writes what memory has. *)
LEMMA CloseCurShows ==
    ASSUME Typed, cur # NoDb, NowCurFits, UNCHANGED <<files, cur>>,
           todo' = CloseCur \/ \E e \in Turns : todo' = CloseCur \o <<e>>
    PROVE  WillShow(cur)'
<1>1. PICK o : o = cur /\ o = cur' /\ Sound(o)
    BY DEF Typed
<1>2. PICK p : p = todo' /\ (p = CloseCur \/ \E e \in Turns : p = CloseCur \o <<e>>)
    OBVIOUS
<1>3. p = CloseCur \/ \E e \in Turns \cup {<<"leave">>, <<"end">>} : p = CloseCur \o <<e>>
    BY <1>2
<1>4. /\ Fixes(p, ListSets(o.name), o.names)
      /\ \A i \in DOMAIN o.tables :
            /\ Fixes(p, HeadSets(o.tables[i].file), "ok")
            /\ o.tables[i].dirty => Fixes(p, HeldSets(o.tables[i].file), o.tables[i].val)
            /\ ~o.tables[i].dirty => Idles(p, HeldSets(o.tables[i].file))
      /\ \A t : Idles(p, DataSets(t))
    BY <1>1, <1>3, CloseCurThen
<1>5. UNCHANGED <<list, head, data, held>>
    BY DEF files
<1>6. ListEnds(o.name, o.names)'
    BY <1>2, <1>4, EndsNext
<1>7. ASSUME NEW i \in DOMAIN o.tables
      PROVE  Stores(o.tables[i])'
    <2>1. PICK m : m = o.tables[i] /\ NowFits(m)
        BY <1>1 DEF NowCurFits
    <2>2. HeadEnds(m.file, "ok")'
        BY <1>2, <1>4, <2>1, EndsNext
    <2>3. DataEnds(m.file, TRUE)'
        <3>1. data'[m.file] = TRUE
            BY <1>5, <2>1 DEF NowFits
        <3>. QED
            BY <1>2, <1>4, <3>1, EndsNext
    <2>4. HeldEnds(m.file, m.val)'
        <3>1. CASE m.dirty
            BY <1>2, <1>4, <2>1, <3>1, EndsNext
        <3>2. CASE ~m.dirty
            <4>1. held'[m.file] = m.val
                BY <1>5, <2>1, <3>2 DEF NowFits
            <4>. QED
                BY <1>2, <1>4, <2>1, <3>2, <4>1, EndsNext
        <3>. QED
            BY <3>1, <3>2
    <2>5. Stores(m)'
        BY <2>2, <2>3, <2>4 DEF Stores
    <2>. QED
        BY <2>1, <2>5
<1>8. WillShow(o)'
    BY <1>6, <1>7 DEF WillShow
<1>. QED
    BY <1>1, <1>8

(* A statement that leaves the database in use. *)
LEMMA MappedClosed ==
    ASSUME Typed, Mapped, Idle, UNCHANGED <<files, cur, db>>, cur # NoDb,
           todo' = CloseCur \/ \E e \in Turns : todo' = CloseCur \o <<e>>
    PROVE  Mapped'
<1>1. db' = NoDb /\ NowCurFits
    BY Between
<1>2. ~Ending'
    BY CloseCurEndsNothing
<1>3. Closing'
    <2>1. todo' = CloseCur \/
          \E e \in Turns \cup {<<"leave">>, <<"end">>} : todo' = CloseCur \o <<e>>
        OBVIOUS
    <2>. QED
        BY <2>1, CloseCurLeaves
<1>4. WillShow(cur)'
    BY <1>1, CloseCurShows
<1>. QED
    BY <1>1, <1>2, <1>3, <1>4 DEF Mapped, SecondFits

(* A statement that only opens a database next. *)
LEMMA MappedTurn ==
    ASSUME Typed, Mapped, Idle, UNCHANGED <<files, cur, db>>,
           NEW e \in Turns, todo' = <<e>>
    PROVE  Mapped'
<1>1. db' = NoDb /\ (cur # NoDb => CurFits) /\ \A f \in Db : Still(todo, f)
    BY Between
<1>2. ~Ending' /\ ~Closing'
    <2>1. \A k \in DOMAIN todo' : todo'[k] = e
        OBVIOUS
    <2>. QED
        BY <2>1, TurnNames DEF Ending, In, Closing
<1>3. \A f \in Db : SameFiles(f)
    BY DEF SameFiles, files
<1>4. \A f \in Db : Still(todo', f)
    <2>. SUFFICES ASSUME NEW f \in Db PROVE Still(todo', f)
        OBVIOUS
    <2>1. PICK p \in Seq(Steps) : p = <<>> /\ Still(p, f)
        <3>1. <<>> \in Seq(Steps) /\ Still(<<>>, f)
            BY IdleStill
        <3>. QED
            BY <3>1
    <2>2. Still(p \o <<e>>, f)
        BY <2>1, StillThen
    <2>3. e \in Steps
        BY DEF Steps
    <2>4. todo' = p \o <<e>>
        BY <2>1, <2>3
    <2>. QED
        BY <2>2, <2>4
<1>5. ASSUME cur' # NoDb
      PROVE  CurFits'
    <2>1. cur # NoDb /\ CurFits /\ cur.name \in Db
        BY <1>1, <1>5, ObjectTables DEF Typed
    <2>2. Carries(cur.name)
        BY <1>1, <1>3, <1>4, <2>1, StillCarries
    <2>. QED
        BY <2>1, <2>2, CurFitsKept
<1>. QED
    BY <1>1, <1>2, <1>5 DEF Mapped, SecondFits

(* A database that is created is written as an empty one. *)
LEMMA MappedCreated ==
    ASSUME HomesApart, Overwrite = FALSE, Typed, Mapped, NEW d \in Db, CreateDatabase(d)
    PROVE  Mapped' /\ ~InUse(d)
<1>1. /\ Idle /\ list[d] = Missing /\ UNCHANGED <<files, cur, hurt>>
      /\ db' = NewObject(d) /\ todo' = CloseObject(NewObject(d)) \o << <<"end">> >>
    BY DEF CreateDatabase
<1>2. /\ db = NoDb /\ \A f \in Db : Still(todo, f)
      /\ cur # NoDb => CurFits /\ NowCurFits
    BY <1>1, Between
<1>3. PICK o : /\ o = NewObject(d) /\ Sound(o) /\ o.name = d /\ o.names = <<>>
               /\ DOMAIN o.tables = {} /\ o # NoDb
    BY NewSound
<1>4. PICK p \in Seq(Work(d)) : p = CloseObject(o)
    BY <1>3, CloseObjectLeads
<1>5. todo' = p \o << <<"end">> >> /\ todo' = CloseObject(o) \o << <<"end">> >> /\ db' = o
    BY <1>1, <1>3, <1>4
<1>6. Ending' /\ ~Closing' /\ \A f \in Db \ {d} : Still(todo', f)
    BY <1>5, EndPlanned, WorkThenEnd
<1>7. ~InUse(d)
    <2>. SUFFICES ASSUME InUse(d) PROVE FALSE
        OBVIOUS
    <2>1. list[d] \in Names(d)
        BY <1>2 DEF InUse, NowCurFits
    <2>. QED
        BY <1>1, <2>1, NamesThere
<1>8. ASSUME cur' # NoDb
      PROVE  CurFits'
    <2>1. cur # NoDb /\ CurFits /\ cur.name \in Db /\ cur.name # d
        BY <1>1, <1>2, <1>7, <1>8, ObjectTables DEF Typed, InUse
    <2>2. SameFiles(cur.name)
        BY <1>1 DEF SameFiles, files
    <2>3. Carries(cur.name)
        BY <1>2, <1>6, <2>1, <2>2, StillCarries
    <2>. QED
        BY <1>1, <2>1, <2>3, CurFitsKept
<1>9. WillShow(o)'
    <2>1. PICK e \in Turns \cup {<<"leave">>, <<"end">>} : e = <<"end">>
        OBVIOUS
    <2>2. PICK q : q = todo' /\ q = CloseObject(o) \o <<e>>
        BY <1>5, <2>1
    <2>3. Fixes(q, ListSets(o.name), o.names)
        BY <1>3, <2>2, CloseThen
    <2>4. ListEnds(o.name, o.names)'
        BY <2>2, <2>3, EndsNext
    <2>. QED
        BY <1>3, <2>4 DEF WillShow
<1>10. ~Removes(d)'
    BY <1>3, <1>5, CloseEndRemovesNothing
<1>11. SecondFits'
    BY <1>3, <1>5, <1>9, <1>10 DEF SecondFits
<1>. QED
    BY <1>3, <1>5, <1>6, <1>7, <1>8, <1>11 DEF Mapped

-----------------------------------------------------------------------------
(* A table that is created is in memory, and its data file is there.       *)
LEMMA MappedTable ==
    ASSUME Typed, Mapped, NEW t \in Tab, CreateTable(t)
    PROVE  Mapped'
<1>1. /\ Idle /\ cur # NoDb /\ t \in Home[cur.name] /\ TableId(t) = {}
      /\ data' = [data EXCEPT ![t] = TRUE]
      /\ held' = IF data[t] THEN held ELSE [held EXCEPT ![t] = Junk]
      /\ cur' = [cur EXCEPT
                    !.names = Append(@, t),
                    !.tables = Append(@, [file |-> t, val |-> Empty, dirty |-> TRUE]),
                    !.changed = TRUE]
      /\ UNCHANGED <<list, head, db, todo, hurt>>
    BY DEF CreateTable
<1>2. todo = <<>> /\ todo' = <<>>
    BY <1>1 DEF Idle
<1>3. db = NoDb /\ NowCurFits /\ db' = NoDb /\ \A f : Still(todo', f)
    BY <1>1, <1>2, Between, IdleStill
<1>4. PICK o : o = cur /\ Sound(o)
    BY <1>1 DEF Typed
<1>5. PICK m \in Managers(o.name) : m = [file |-> t, val |-> Empty, dirty |-> TRUE]
    BY <1>1, <1>4, CatalogAssumption DEF Managers
<1>6. m.file = t /\ m.val = Empty /\ m.dirty = TRUE
      /\ m.file \notin {o.names[i] : i \in DOMAIN o.names}
    BY <1>1, <1>4, <1>5 DEF TableId
<1>7. PICK n : n = [o EXCEPT !.names = Append(@, m.file), !.tables = Append(@, m),
                             !.changed = TRUE]
    OBVIOUS
<1>8. /\ Sound(n) /\ n.name = o.name /\ n.changed = TRUE
      /\ Len(n.tables) = Len(o.tables) + 1
      /\ \A i \in 1 .. Len(o.tables) : n.names[i] = o.names[i] /\ n.tables[i] = o.tables[i]
      /\ n.names[Len(o.tables) + 1] = m.file /\ n.tables[Len(o.tables) + 1] = m
    <2>1. Gains(n, o, m)
        BY <1>4, <1>6, <1>7, ObjectChanges
    <2>. QED
        BY <2>1, Zenon DEF Gains
<1>9. cur' = n
    BY <1>1, <1>4, <1>5, <1>6, <1>7
<1>10. PICK d \in Db, N \in Nat :
           /\ d = o.name /\ N = Len(o.tables)
           /\ DOMAIN o.tables = 1 .. N /\ DOMAIN o.names = 1 .. N
           /\ DOMAIN n.tables = 1 .. N + 1
           /\ \A i \in 1 .. N : o.tables[i].file = o.names[i]
    BY <1>4, <1>8, ObjectTables
<1>11. \A u \in Tab \ {t} : data'[u] = data[u] /\ held'[u] = held[u]
    BY <1>1 DEF Typed
<1>12. ASSUME NEW i \in 1 .. N
       PROVE  NowFits(n.tables[i])'
    <2>1. PICK q : q = o.tables[i] /\ q = n.tables[i] /\ q.file = o.names[i]
        BY <1>8, <1>10
    <2>2. NowFits(q)
        BY <1>3, <1>4, <1>10, <2>1 DEF NowCurFits
    <2>3. q.file \in Tab \ {t}
        <3>1. q.file # t
            BY <1>6, <1>10, <2>1
        <3>2. q.file \in Home[d]
            BY <1>4, <1>10, <2>1, ObjectTables DEF Managers
        <3>. QED
            BY <3>1, <3>2 DEF Tab
    <2>4. NowFits(q)'
        BY <1>1, <1>11, <2>2, <2>3 DEF NowFits
    <2>. QED
        BY <2>1, <2>4
<1>13. NowFits(n.tables[N + 1])'
    <2>1. data'[t] = TRUE
        BY <1>1 DEF Typed
    <2>2. NowFits(m)'
        BY <1>6, <2>1 DEF NowFits
    <2>. QED
        BY <1>8, <1>10, <2>2
<1>14. \A i \in DOMAIN n.tables : NowFits(n.tables[i])'
    <2>1. \A i \in 1 .. N + 1 : i \in 1 .. N \/ i = N + 1
        OBVIOUS
    <2>. QED
        BY <1>10, <1>12, <1>13, <2>1
<1>15. list'[d] \in Names(d)
    BY <1>1, <1>3, <1>4, <1>10 DEF NowCurFits
<1>16. NowCurFits'
    BY <1>8, <1>9, <1>10, <1>14, <1>15 DEF NowCurFits
<1>17. CurFits'
    <2>1. cur' # NoDb
        BY <1>8, <1>9, NoDbAssumption DEF Sound
    <2>. QED
        BY <1>3, <1>8, <1>9, <1>16, <2>1, FitsNext
<1>. QED
    BY <1>2, <1>3, <1>17, MappedIdle

(* Rows that change are in memory until the table is closed.               *)
LEMMA MappedRows ==
    ASSUME Typed, Mapped, NEW t \in Tab, NEW v \in Value, ChangeRows(t, v)
    PROVE  Mapped'
<1>1. PICK k \in TableId(t) :
          /\ Idle /\ cur # NoDb
          /\ cur' = [cur EXCEPT
                        !.tables[k].val = IF @ = Junk THEN Junk ELSE v,
                        !.tables[k].dirty = TRUE]
          /\ UNCHANGED <<files, db, todo, hurt>>
    BY DEF ChangeRows
<1>2. UNCHANGED <<list, head, data, held, hurt, todo>>
    BY <1>1 DEF files
<1>3. todo = <<>> /\ todo' = <<>>
    BY <1>1, <1>2 DEF Idle
<1>4. db = NoDb /\ NowCurFits /\ db' = NoDb /\ \A f : Still(todo', f)
    BY <1>1, <1>3, Between, IdleStill
<1>5. PICK o : o = cur /\ Sound(o) /\ k \in DOMAIN o.names
    BY <1>1 DEF Typed, TableId
<1>6. PICK n : n = cur' /\ Alters(n, cur, k, v)
    BY <1>1, <1>5, RowsChanged
<1>7. Alters(n, o, k, v)
    BY <1>5, <1>6
<1>8. /\ Sound(n) /\ n.name = o.name /\ n.names = o.names /\ n.changed = o.changed
      /\ DOMAIN n.tables = DOMAIN o.tables
      /\ n.tables[k] = [file |-> o.names[k],
                        val |-> IF o.tables[k].val = Junk THEN Junk ELSE v,
                        dirty |-> TRUE]
      /\ \A i \in DOMAIN o.tables : i # k => n.tables[i] = o.tables[i]
    BY <1>7, Zenon DEF Alters
<1>9. cur' = n /\ n # NoDb
    BY <1>6, <1>8, NoDbAssumption DEF Sound
<1>10. PICK d \in Db : d = o.name /\ k \in DOMAIN o.tables /\ o.tables[k].file = o.names[k]
    BY <1>5, ObjectTables
<1>11. ASSUME NEW i \in DOMAIN n.tables
       PROVE  NowFits(n.tables[i])'
    <2>1. PICK q : q = o.tables[i] /\ NowFits(q)
        BY <1>4, <1>5, <1>8, <1>11 DEF NowCurFits
    <2>2. CASE i # k
        <3>1. n.tables[i] = q
            BY <1>8, <1>11, <2>1, <2>2
        <3>2. NowFits(q)'
            BY <1>2, <2>1 DEF NowFits
        <3>. QED
            BY <3>1, <3>2
    <2>3. CASE i = k
        <3>1. PICK m : m = n.tables[i] /\ m.file = q.file /\ m.dirty = TRUE
            BY <1>8, <1>10, <2>1, <2>3
        <3>2. NowFits(m)'
            BY <1>2, <2>1, <3>1 DEF NowFits
        <3>. QED
            BY <3>1, <3>2
    <2>. QED
        BY <2>2, <2>3
<1>12. list'[d] \in Names(d) /\ (~n.changed => list'[d] = n.names)
    BY <1>2, <1>4, <1>5, <1>8, <1>10 DEF NowCurFits
<1>13. NowCurFits'
    BY <1>8, <1>9, <1>10, <1>11, <1>12 DEF NowCurFits
<1>14. CurFits'
    BY <1>4, <1>8, <1>9, <1>13, FitsNext
<1>. QED
    BY <1>3, <1>4, <1>14, MappedIdle

(* Pages that are evicted tear a data file that memory will write again.   *)
LEMMA MappedEvicted ==
    ASSUME Typed, Mapped, Evict
    PROVE  Mapped'
<1>1. PICK k \in DOMAIN cur.tables :
          /\ Idle /\ cur # NoDb
          /\ cur.tables[k].dirty
          /\ held' = [held EXCEPT ![cur.tables[k].file] = Junk]
          /\ UNCHANGED <<list, head, data, cur, db, todo, hurt>>
    BY DEF Evict
<1>2. todo = <<>> /\ todo' = <<>>
    BY <1>1 DEF Idle
<1>3. db = NoDb /\ NowCurFits /\ db' = NoDb /\ \A f : Still(todo', f)
    BY <1>1, <1>2, Between, IdleStill
<1>4. PICK o : o = cur /\ Sound(o)
    BY <1>1 DEF Typed
<1>5. PICK d \in Db, N \in Nat :
          /\ d = o.name /\ DOMAIN o.tables = 1 .. N
          /\ \A i \in 1 .. N : o.tables[i] \in Managers(d)
          /\ \A i, j \in 1 .. N : i # j => o.tables[i].file # o.tables[j].file
    BY <1>4, ObjectTables
<1>6. PICK m \in Managers(d) : m = o.tables[k] /\ m.dirty
    BY <1>1, <1>4, <1>5
<1>7. \A u \in Tab : u # m.file => held'[u] = held[u]
    BY <1>1, <1>4, <1>6 DEF Typed, Managers
<1>8. ASSUME NEW i \in DOMAIN o.tables
      PROVE  NowFits(o.tables[i])'
    <2>1. PICK q \in Managers(d) : q = o.tables[i] /\ NowFits(q)
        BY <1>3, <1>4, <1>5, <1>8 DEF NowCurFits
    <2>2. q.dirty \/ q.file # m.file
        BY <1>1, <1>4, <1>5, <1>6, <1>8, <2>1
    <2>3. q.file \in Tab
        BY <2>1 DEF Managers, Tab
    <2>4. NowFits(q)'
        BY <1>1, <1>7, <2>1, <2>2, <2>3 DEF NowFits
    <2>. QED
        BY <2>1, <2>4
<1>9. list'[d] \in Names(d) /\ (~o.changed => list'[d] = o.names)
    BY <1>1, <1>3, <1>4, <1>5 DEF NowCurFits
<1>10. cur' = o
    BY <1>1, <1>4
<1>11. NowCurFits'
    BY <1>5, <1>8, <1>9, <1>10 DEF NowCurFits
<1>12. CurFits'
    BY <1>1, <1>3, <1>4, <1>10, <1>11, FitsNext
<1>. QED
    BY <1>2, <1>3, <1>12, MappedIdle

(* A table that is dropped leaves memory, and the others stay.             *)
LEMMA MappedDropped ==
    ASSUME Typed, Mapped, NEW t \in Tab, DropTable(t)
    PROVE  Mapped'
<1>1. PICK k \in TableId(t) :
          /\ Idle /\ cur # NoDb
          /\ todo' = DropTableFiles(cur.tables[k])
          /\ cur' = [cur EXCEPT !.names = NamesClosedUp(k),
                                !.tables = RemoveAt(@, k),
                                !.changed = TRUE]
          /\ UNCHANGED <<files, db, hurt>>
    BY DEF DropTable
<1>2. UNCHANGED <<list, head, data, held>>
    BY <1>1 DEF files
<1>3. db = NoDb /\ NowCurFits /\ db' = NoDb
    BY <1>1, Between
<1>4. PICK o : o = cur /\ Sound(o) /\ k \in DOMAIN o.names /\ o.names[k] = t
    BY <1>1 DEF Typed, TableId
<1>5. PICK n : n = [o EXCEPT !.names = NamesClosedUp(k), !.tables = RemoveAt(@, k),
                             !.changed = TRUE]
    OBVIOUS
<1>6. /\ Sound(n) /\ n.name = o.name /\ n.changed = TRUE
      /\ Len(n.tables) = Len(o.tables) - 1
      /\ \A i \in 1 .. Len(o.tables) - 1 :
            \E j \in 1 .. Len(o.tables) :
               j # k /\ n.names[i] = o.names[j] /\ n.tables[i] = o.tables[j]
    <2>1. Loses(n, o, k)
        BY <1>4, <1>5, ObjectChanges
    <2>. QED
        BY <2>1, Zenon DEF Loses
<1>7. cur' = n /\ n # NoDb
    BY <1>1, <1>4, <1>5, <1>6, NoDbAssumption DEF Sound
<1>8. PICK d \in Db, N \in Nat :
          /\ d = o.name /\ N = Len(o.tables)
          /\ DOMAIN o.tables = 1 .. N
          /\ \A i \in 1 .. N : o.tables[i] \in Managers(d)
          /\ \A i, j \in 1 .. N : i # j => o.tables[i].file # o.tables[j].file
          /\ DOMAIN o.names = 1 .. N
          /\ \A i \in 1 .. N : o.tables[i].file = o.names[i]
    BY <1>4, ObjectTables
<1>9. k \in 1 .. N /\ o.tables[k].file = t
    BY <1>4, <1>8
<1>10. DOMAIN n.tables = 1 .. N - 1
    BY <1>6, <1>8, ObjectTables
<1>11. PICK m \in Managers(d) : m = o.tables[k] /\ m.file = t
    BY <1>8, <1>9
<1>12. PICK p \in Seq(Work(d)) : p = todo' /\ p = DropTableFiles(m)
    BY <1>1, <1>4, <1>11, DropTableLeads
<1>13. /\ \A u : u # t => /\ Idles(p, HeadSets(u))
                          /\ Idles(p, DataSets(u))
                          /\ Idles(p, HeldSets(u))
       /\ \A e : Idles(p, ListSets(e))
    BY <1>11, <1>12, DropTableLeads
<1>14. ~Closing' /\ ~Ending'
    <2>1. \A i \in DOMAIN p : p[i] \in Work(d)
        BY LenProperties, ElementOfSeq
    <2>2. <<"leave">> \notin Work(d) /\ <<"end">> \notin Work(d)
        <3>1. <<"leave">>[1] = "leave" /\ <<"end">>[1] = "end"
            OBVIOUS
        <3>. QED
            BY <3>1, WorkKinds DEF Kind
    <2>. QED
        BY <1>12, <2>1, <2>2 DEF Closing, Ending, In
<1>15. PICK l \in Names(d) : l = list[d]
    BY <1>3, <1>4, <1>8 DEF NowCurFits
<1>16. ListEnds(d, l)'
    <2>1. l = list'[d]
        BY <1>2, <1>15
    <2>. QED
        BY <1>12, <1>13, <2>1, EndsNext
<1>17. ASSUME NEW i \in DOMAIN n.tables
       PROVE  Fits(n.tables[i])'
    <2>1. PICK j \in 1 .. N : j # k /\ n.tables[i] = o.tables[j]
        <3>1. N = Len(o.tables) /\ i \in 1 .. N - 1
            BY <1>8, <1>10
        <3>2. i \in 1 .. Len(o.tables) - 1
            BY <3>1
        <3>3. \E j \in 1 .. Len(o.tables) :
                 j # k /\ n.names[i] = o.names[j] /\ n.tables[i] = o.tables[j]
            BY <1>6, <3>2, ZenonT(30)
        <3>. QED
            BY <3>1, <3>3, ZenonT(30)
    <2>2. PICK q : q = n.tables[i] /\ q = o.tables[j] /\ q.file # t
        BY <1>4, <1>8, <1>9, <1>11, <2>1
    <2>3. NowFits(q)
        BY <1>3, <1>4, <1>8, <2>2 DEF NowCurFits
    <2>4. /\ data'[q.file] = TRUE
          /\ ~q.dirty => held'[q.file] = q.val /\ (q.val # Junk => head'[q.file] = "ok")
        BY <1>2, <2>3 DEF NowFits
    <2>5. DataEnds(q.file, TRUE)'
        BY <1>12, <1>13, <2>2, <2>4, EndsNext
    <2>6. ~q.dirty => HeldEnds(q.file, q.val)'
        BY <1>12, <1>13, <2>2, <2>4, EndsNext
    <2>7. ~q.dirty /\ q.val # Junk => HeadEnds(q.file, "ok")'
        BY <1>12, <1>13, <2>2, <2>4, EndsNext
    <2>8. Fits(q)'
        BY <2>5, <2>6, <2>7 DEF Fits
    <2>. QED
        BY <2>2, <2>8
<1>18. CurFits'
    BY <1>6, <1>7, <1>8, <1>15, <1>16, <1>17 DEF CurFits
<1>. QED
    BY <1>3, <1>7, <1>14, <1>18 DEF Mapped, SecondFits

(* Before the first statement nothing is in memory. *)
LEMMA MappedInit == Init => Mapped
<1>. SUFFICES ASSUME Init PROVE Mapped
    OBVIOUS
<1>1. DOMAIN todo = {} /\ cur = NoDb /\ db = NoDb
    BY DEF Init
<1>. QED
    BY <1>1 DEF Mapped, SecondFits, Ending, Closing, In

(* The statements that name a database plan what memory has.               *)
LEMMA MappedPlans ==
    ASSUME HomesApart, Overwrite = FALSE, Typed, Mapped, NEW d \in Db,
           SwitchDatabase(d) \/ CreateDatabase(d) \/ DropDatabase(d)
               \/ ShowDatabase(d) \/ CloseDatabase
    PROVE  Mapped'
<1>1. <<"open", d>> \in Turns /\ <<"drop", d>> \in Turns /\ <<"show", d>> \in Turns
    BY DEF Turns
<1>2. ASSUME NEW e \in Turns, Idle, UNCHANGED <<files, cur, db, hurt>>,
             todo' = CloseCur \o <<e>>
      PROVE  Mapped'
    <2>1. CASE cur = NoDb
        <3>1. todo' = <<e>>
            BY <1>2, <2>1, ConcatEmptySeq DEF CloseCur
        <3>. QED
            BY <1>2, <3>1, MappedTurn
    <2>2. CASE cur # NoDb
        BY <1>2, <2>2, MappedClosed
    <2>. QED
        BY <2>1, <2>2
<1>3. CASE CreateDatabase(d)
    BY <1>3, MappedCreated
<1>4. CASE SwitchDatabase(d)
    BY <1>1, <1>2, <1>4 DEF SwitchDatabase
<1>5. CASE CloseDatabase
    BY <1>5, MappedClosed DEF CloseDatabase
<1>6. CASE DropDatabase(d) /\ InUse(d)
    <2>1. /\ Idle /\ UNCHANGED <<files, cur, db, hurt>>
          /\ todo' = CloseCur \o << <<"drop", d>> >>
        BY <1>6 DEF DropDatabase
    <2>. QED
        BY <1>1, <1>2, <2>1
<1>7. CASE DropDatabase(d) /\ ~InUse(d)
    <2>1. /\ Idle /\ UNCHANGED <<files, cur, db, hurt>>
          /\ todo' = <<>> \o << <<"drop", d>> >>
        BY <1>7 DEF DropDatabase
    <2>2. todo' = << <<"drop", d>> >>
        BY <2>1
    <2>. QED
        BY <1>1, <2>1, <2>2, MappedTurn
<1>8. CASE ShowDatabase(d)
    BY <1>1, <1>8, MappedTurn DEF ShowDatabase
<1>. QED
    BY <1>3, <1>4, <1>5, <1>6, <1>7, <1>8

(* What a statement would find is kept by every step.                      *)
LEMMA MappedNext ==
    ASSUME HomesApart, Overwrite = FALSE, Kept, Mapped, [Next]_vars
    PROVE  Mapped'
<1>1. Openable /\ Typed /\ LeavesLast /\ TurnsFit
    BY DEF Kept, Openable, PlanFits
<1>2. CASE Step
    <2>1. CASE FileStep
        BY <1>1, <2>1, MappedFiles
    <2>2. CASE OpenCur
        BY <1>1, <2>2, ListedOpens, MappedOpen
    <2>3. CASE OpenSecond
        BY <1>1, <2>3, ListedOpens, MappedSecond
    <2>4. CASE Leave
        BY <1>1, <2>4, MappedLeave
    <2>. QED
        BY <1>2, <2>1, <2>2, <2>3, <2>4 DEF Step, FileStep
<1>3. CASE \E d \in Db : \/ SwitchDatabase(d) \/ CreateDatabase(d)
                         \/ DropDatabase(d) \/ ShowDatabase(d)
    BY <1>1, <1>3, MappedPlans
<1>4. CASE CloseDatabase
    <2>1. cur.name \in Db
        BY <1>1, <1>4, ObjectTables DEF CloseDatabase, Typed
    <2>. QED
        BY <1>1, <1>4, <2>1, MappedPlans
<1>5. ASSUME NEW t \in Tab,
             CreateTable(t) \/ DropTable(t) \/ \E v \in Value : ChangeRows(t, v)
      PROVE  Mapped'
    BY <1>1, <1>5, MappedTable, MappedDropped, MappedRows
<1>6. CASE Evict
    BY <1>1, <1>6, MappedEvicted
<1>7. CASE Crash
    <2>1. todo' = <<>> /\ db' = NoDb /\ cur' = NoDb
        BY <1>7 DEF Crash
    <2>. QED
        BY <2>1, MappedIdle
<1>8. CASE UNCHANGED vars
    <2>1. UNCHANGED <<list, head, data, held, cur, db, todo, hurt>>
        BY <1>8 DEF vars, files
    <2>. QED
        BY <2>1 DEF Mapped, SecondFits, Ending, Closing, In, WillShow, CurFits, Fits, Stores,
                    Drops, Removes, InUse, Do, HeadEnds, DataEnds, HeldEnds, ListEnds
<1>. QED
    BY <1>2, <1>3, <1>4, <1>5, <1>6, <1>7, <1>8 DEF Next

-----------------------------------------------------------------------------
(* What a statement would find.                                            *)

(* A plan leads to one value. *)
LEMMA LeadsOnce ==
    ASSUME NEW S, NEW s \in Seq(S), NEW E, NEW v, NEW x, NEW y,
           Leads(s, E, v, x), Leads(s, E, v, y)
    PROVE  x = y
<1>1. PICK n \in Nat : DOMAIN s = 1 .. n
    BY LenProperties
<1>2. CASE Idles(s, E)
    BY <1>2 DEF Leads, Fixes, Idles
<1>3. CASE ~Idles(s, E)
    <2>1. PICK k \in DOMAIN s : E[s[k]] = {x} /\ \A j \in DOMAIN s : j > k => E[s[j]] = {}
        BY <1>3 DEF Leads, Fixes
    <2>2. PICK i \in DOMAIN s : E[s[i]] = {y} /\ \A j \in DOMAIN s : j > i => E[s[j]] = {}
        BY <1>3 DEF Leads, Fixes
    <2>3. k = i
        <3>1. ~(k > i) /\ ~(i > k)
            BY <2>1, <2>2
        <3>. QED
            BY <1>1, <3>1
    <2>. QED
        BY <2>1, <2>2, <2>3
<1>. QED
    BY <1>2, <1>3

(* The tables of an object, by name. *)
Showing(f, o) ==
    /\ f = [t \in DOMAIN f |-> f[t]]
    /\ DOMAIN f = {o.names[i] : i \in DOMAIN o.names}
    /\ \A i \in DOMAIN o.tables : f[o.names[i]] = o.tables[i].val

(* That is what memory has of it, and nothing else is. *)
LEMMA MemoryShows ==
    ASSUME NEW o, Sound(o)
    PROVE  /\ Showing(InMemory(o), o)
           /\ \A f : Showing(f, o) => f = InMemory(o)
           /\ InMemory(o) \in Catalogue!Tables
<1>1. PICK n \in Nat : /\ DOMAIN o.names = 1 .. n /\ DOMAIN o.tables = 1 .. n
                       /\ \A i \in 1 .. n : o.tables[i] \in Managers(o.name)
                       /\ \A i \in 1 .. n : o.tables[i].file = o.names[i]
                       /\ \A i, j \in 1 .. n : i # j => o.names[i] # o.names[j]
    BY ObjectTables
<1>2. PICK S : S = {o.names[i] : i \in DOMAIN o.names}
    OBVIOUS
<1>3. PICK m : m = InMemory(o)
    OBVIOUS
<1>4. m = [t \in S |-> o.tables[CHOOSE i \in DOMAIN o.names : o.names[i] = t].val]
    BY <1>2, <1>3 DEF InMemory
<1>5. ASSUME NEW i \in 1 .. n
      PROVE  o.names[i] \in S /\ m[o.names[i]] = o.tables[i].val
    <2>1. PICK t : t = o.names[i]
        OBVIOUS
    <2>2. (CHOOSE j \in DOMAIN o.names : o.names[j] = t) = i
        BY <1>1, <1>5, <2>1
    <2>3. t \in S
        BY <1>1, <1>2, <2>1
    <2>. QED
        BY <1>4, <2>1, <2>2, <2>3
<1>6. Showing(m, o)
    BY <1>1, <1>2, <1>4, <1>5 DEF Showing
<1>7. ASSUME NEW f, Showing(f, o)
      PROVE  f = m
    <2>1. DOMAIN f = S /\ f = [t \in S |-> f[t]]
        BY <1>2, <1>7 DEF Showing
    <2>2. ASSUME NEW t \in S
          PROVE  f[t] = m[t]
        <3>1. PICK i \in 1 .. n : t = o.names[i]
            BY <1>1, <1>2
        <3>. QED
            BY <1>1, <1>5, <1>7, <3>1 DEF Showing
    <2>. QED
        BY <1>4, <2>1, <2>2
<1>8. m \in Catalogue!Tables
    <2>1. S \in SUBSET Tab
        <3>1. \A i \in 1 .. n : o.names[i] \in Tab
            BY <1>1, ObjectTables DEF Managers, Tab
        <3>. QED
            BY <1>1, <1>2, <3>1
    <2>2. \A t \in S : m[t] \in Value \cup {Junk}
        <3>. SUFFICES ASSUME NEW t \in S PROVE m[t] \in Value \cup {Junk}
            OBVIOUS
        <3>1. PICK i \in 1 .. n : t = o.names[i]
            BY <1>1, <1>2
        <3>2. o.tables[i].val \in Value \cup {Junk}
            BY <1>1 DEF Managers
        <3>. QED
            BY <1>5, <3>1, <3>2
    <2>3. m \in [S -> Value \cup {Junk}]
        BY <1>4, <2>2
    <2>. QED
        BY <2>1, <2>3 DEF Catalogue!Tables
<1>. QED
    BY <1>3, <1>6, <1>7, <1>8

(* The files hold what memory has. *)
Stored(o) ==
    /\ list[o.name] = o.names
    /\ \A i \in DOMAIN o.tables : OnDisk(o.tables[i].file) = o.tables[i].val

(* Then they show the same. *)
LEMMA StoredFound ==
    ASSUME NEW o, Sound(o), Stored(o)
    PROVE  InFiles(o.name) = InMemory(o)
<1>1. IsList(o.name)
    BY NamesThere, ObjectTables DEF IsList, Stored, Sound
<1>2. PICK n \in Nat : /\ DOMAIN o.names = 1 .. n /\ DOMAIN o.tables = 1 .. n
                       /\ \A i \in 1 .. n : o.tables[i].file = o.names[i]
    BY ObjectTables
<1>3. PICK f : f = InFiles(o.name)
    OBVIOUS
<1>4. PICK S : S = {o.names[i] : i \in DOMAIN o.names}
    OBVIOUS
<1>5. f = [t \in S |-> OnDisk(t)]
    BY <1>1, <1>3, <1>4 DEF InFiles, Listed, Stored
<1>6. ASSUME NEW i \in DOMAIN o.tables
      PROVE  f[o.names[i]] = o.tables[i].val
    <2>1. PICK t \in S : t = o.names[i] /\ OnDisk(t) = o.tables[i].val
        BY <1>2, <1>4 DEF Stored
    <2>. QED
        BY <1>5, <2>1
<1>7. Showing(f, o)
    BY <1>4, <1>5, <1>6 DEF Showing
<1>. QED
    BY <1>3, <1>7, MemoryShows

(* What the files of a database show does not change with other files.     *)
LEMMA FilesFound ==
    ASSUME Typed, NEW d \in Db
    PROVE  /\ SameFiles(d) => InFiles(d)' = InFiles(d)
           /\ InFiles(d) \in Catalogue!Tables \cup {Missing, Damaged}
           /\ IsList(d) => InFiles(d) \in Catalogue!Tables
<1>1. PICK l : l = list[d]
    OBVIOUS
<1>2. CASE l \in {Missing, Damaged}
    BY <1>1, <1>2 DEF InFiles, IsList, SameFiles
<1>3. CASE l \in Names(d)
    <2>1. IsList(d)
        BY <1>1, <1>3, NamesThere DEF IsList
    <2>2. PICK S : S = {l[i] : i \in DOMAIN l}
        OBVIOUS
    <2>3. S \subseteq Home[d]
        <3>1. l \in Seq(Home[d])
            BY <1>3 DEF Names
        <3>. QED
            BY <2>2, <3>1, LenProperties, ElementOfSeq
    <2>4. InFiles(d) = [t \in S |-> OnDisk(t)]
        BY <1>1, <2>1, <2>2 DEF InFiles, Listed
    <2>5. \A t \in S : OnDisk(t) \in Value \cup {Junk}
        BY <2>3 DEF OnDisk, Typed, Tab
    <2>6. S \in SUBSET Tab
        BY <2>3 DEF Tab
    <2>7. InFiles(d) \in Catalogue!Tables
        <3>1. InFiles(d) \in [S -> Value \cup {Junk}]
            BY <2>4, <2>5
        <3>. QED
            BY <2>6, <3>1 DEF Catalogue!Tables
    <2>8. ASSUME SameFiles(d)
          PROVE  InFiles(d)' = InFiles(d)
        <3>1. list'[d] = l
            BY <1>1, <2>8 DEF SameFiles
        <3>2. IsList(d)'
            BY <1>3, <3>1, NamesThere DEF IsList
        <3>3. InFiles(d)' = [t \in S |-> OnDisk(t)']
            BY <2>2, <3>1, <3>2 DEF InFiles, Listed
        <3>4. \A t \in S : OnDisk(t)' = OnDisk(t)
            BY <2>3, <2>8 DEF SameFiles, OnDisk, Complete
        <3>. QED
            BY <2>4, <3>3, <3>4
    <2>. QED
        BY <2>7, <2>8
<1>. QED
    BY <1>1, <1>2, <1>3 DEF Typed

(* A plan that comes to its end has nothing else to do. *)
LEMMA EndComes ==
    ASSUME Openable, Do("end")
    PROVE  /\ DOMAIN todo = {1} /\ todo[1] = <<"end">>
           /\ \A d \in Db : Still(todo, d)
<1>1. todo \in Seq(Steps) /\ todo # <<>> /\ Head(todo)[1] = "end"
    BY DEF Do, Openable, Typed
<1>2. PICK n \in Nat : DOMAIN todo = 1 .. n /\ n = Len(todo) /\ n > 0 /\ Head(todo) = todo[1]
    BY <1>1, LenProperties
<1>3. PICK e \in Steps : e = todo[1] /\ e[1] = "end"
    BY <1>1, <1>2, LenProperties, ElementOfSeq
<1>4. e = <<"end">>
    BY <1>3, StepKinds
<1>5. 1 \in DOMAIN todo /\ n = 1
    <2>1. 1 \in DOMAIN todo
        BY <1>2
    <2>2. 1 = Len(todo)
        BY <1>3, <1>4, <2>1 DEF TurnsLast, Openable
    <2>. QED
        BY <1>2, <2>1, <2>2
<1>6. DOMAIN todo = {1}
    BY <1>2, <1>5
<1>7. \A t : /\ HeadSets(t)[e] = {} /\ DataSets(t)[e] = {}
             /\ HeldSets(t)[e] = {} /\ ListSets(t)[e] = {}
    BY <1>4, TurnSets
<1>. QED
    BY <1>3, <1>4, <1>6, <1>7 DEF Still, Idles

(* A database is dropped, to statements, once its list is to go.           *)
LEMMA DroppedEnds ==
    ASSUME Openable, Mapped, db # NoDb, ~InUse(db.name), NEW d, d = db.name
    PROVE  Dropped(d) <=> ListEnds(d, Missing)
<1>1. Sound(db) /\ d \in Db /\ todo \in Seq(Steps)
    BY ObjectTables DEF Openable, Typed
<1>2. CASE (Drops(d) \/ Do("end")) /\ ListEnds(d, Missing)
    <2>1. CASE Drops(d)
        BY <1>2, <2>1 DEF Drops, Dropped
    <2>2. CASE Do("end")
        <3>1. Still(todo, d)
            BY <1>1, <2>2, EndComes
        <3>2. list[d] = Missing
            BY <1>1, <1>2, <3>1, NowEnds
        <3>. QED
            BY <1>2, <2>2, <3>2 DEF Dropped
    <2>. QED
        BY <1>2, <2>1, <2>2
<1>3. CASE ~Removes(d) /\ WillShow(db)
    <2>1. PICK l \in Names(d) : l = db.names
        BY <1>1 DEF Sound
    <2>2. l # Missing /\ ListEnds(d, l)
        BY <1>1, <1>3, <2>1, NamesThere DEF WillShow
    <2>3. ~ListEnds(d, Missing)
        BY <1>1, <2>2, LeadsOnce DEF ListEnds
    <2>4. ~(Do("end") /\ list[d] = Missing)
        <3>. SUFFICES ASSUME Do("end"), list[d] = Missing PROVE FALSE
            OBVIOUS
        <3>1. Still(todo, d)
            BY <1>1, EndComes
        <3>2. ListEnds(d, Missing)
            BY <1>1, <3>1, NowEnds
        <3>. QED
            BY <2>3, <3>2
    <2>. QED
        BY <1>3, <2>3, <2>4 DEF Dropped, Removes, In
<1>. QED
    BY <1>2, <1>3 DEF Mapped, SecondFits

(* What a statement would find, where it would look.                       *)
FoundThere ==
    \A d \in Db :
        /\ InUse(d) => Found(d) = InMemory(cur)
        /\ ~InUse(d) /\ db # NoDb /\ db.name = d =>
               Found(d) = IF ListEnds(d, Missing) THEN Missing ELSE InMemory(db)
        /\ ~InUse(d) /\ ~(db # NoDb /\ db.name = d) => Found(d) = InFiles(d)

(* There it is. *)
LEMMA FoundHere ==
    ASSUME Kept, Mapped
    PROVE  FoundThere
<1>. SUFFICES ASSUME NEW d \in Db
              PROVE  /\ InUse(d) => Found(d) = InMemory(cur)
                     /\ ~InUse(d) /\ db # NoDb /\ db.name = d =>
                            Found(d) = IF ListEnds(d, Missing) THEN Missing ELSE InMemory(db)
                     /\ ~InUse(d) /\ ~(db # NoDb /\ db.name = d) => Found(d) = InFiles(d)
    BY DEF FoundThere
<1>1. CASE InUse(d)
    BY <1>1 DEF Found
<1>2. CASE ~InUse(d) /\ db # NoDb /\ db.name = d
    <2>1. Dropped(d) <=> ListEnds(d, Missing)
        BY <1>2, DroppedEnds DEF Kept
    <2>. QED
        BY <1>2, <2>1 DEF Found
<1>3. CASE ~InUse(d) /\ ~(db # NoDb /\ db.name = d)
    <2>1. CASE Dropped(d)
        <3>1. d \notin Exposed
            BY <1>3 DEF Exposed, CurExposed, InUse
        <3>2. ~Removes(d)
            <4>1. <<"remove list", d>> \in Work(d)
                BY DEF Work
            <4>. QED
                BY <3>1, <4>1 DEF Removes, In, Kept, PlanFits, Quiet
        <3>3. list[d] = Missing
            BY <2>1, <3>2 DEF Dropped, Removes, In
        <3>. QED
            BY <1>3, <2>1, <3>3 DEF Found, InFiles, IsList
    <2>2. CASE ~Dropped(d)
        BY <1>3, <2>2 DEF Found
    <2>. QED
        BY <2>1, <2>2
<1>. QED
    BY <1>1, <1>2, <1>3

(* And after a step. *)
LEMMA FoundNext == (Kept /\ Mapped => FoundThere)'
<1>1. Kept /\ Mapped => FoundThere
    BY FoundHere
<1>. QED
    BY <1>1, PTL

-----------------------------------------------------------------------------
(* What a step shows to statements. *)
Uses == IF cur = NoDb THEN NoDb ELSE cur.name

SameFound == \A d \in Db : Found(d)' = Found(d)

SameElsewhere(c) == \A d \in Db \ {c} : Found(d)' = Found(d)

(* The steps of Databases, as steps of Catalog: none, ... *)
LEMMA AsStutter ==
    ASSUME SameFound, UNCHANGED <<Uses, Exposed, hurt>>
    PROVE  UNCHANGED Catalogue!dbVars
BY DEF SameFound, Uses, Catalogue!dbVars

(* ... the beginning of work on a database, ... *)
LEMMA AsTouch ==
    ASSUME NEW d \in Db, SameFound, UNCHANGED <<Uses, hurt>>, Exposed' = Exposed \cup {d}
    PROVE  Catalogue!DbNext
<1>1. Catalogue!Touch(d)
    BY DEF SameFound, Uses, Catalogue!Touch
<1>. QED
    BY <1>1 DEF Catalogue!DbNext

(* ... and its end, ... *)
LEMMA AsSettle ==
    ASSUME NEW d \in Db, SameFound, UNCHANGED <<Uses, hurt>>, Exposed' = Exposed \ {d}
    PROVE  Catalogue!DbNext
<1>1. Catalogue!Settle(d)
    BY DEF SameFound, Uses, Catalogue!Settle
<1>. QED
    BY <1>1 DEF Catalogue!DbNext

(* ... a database that is created, ... *)
LEMMA AsCreate ==
    ASSUME NEW d \in Db, Found(d) = Missing, Found(d)' = [t \in {} |-> Empty],
           SameElsewhere(d), UNCHANGED <<Uses, hurt>>, Exposed' = Exposed \cup {d}
    PROVE  Catalogue!DbNext
<1>1. [e \in Db |-> Found(e)]' = [[e \in Db |-> Found(e)] EXCEPT ![d] = [t \in {} |-> Empty]]
    BY DEF SameElsewhere
<1>2. Catalogue!CreateDb(d)
    BY <1>1 DEF Uses, Catalogue!CreateDb
<1>. QED
    BY <1>2 DEF Catalogue!DbNext

(* ... dropped, ... *)
LEMMA AsDrop ==
    ASSUME NEW d \in Db, Found(d) \in Catalogue!Tables, Found(d)' = Missing, ~InUse(d),
           SameElsewhere(d), UNCHANGED <<Uses, hurt>>, Exposed' = Exposed \cup {d}
    PROVE  Catalogue!DbNext
<1>1. [e \in Db |-> Found(e)]' = [[e \in Db |-> Found(e)] EXCEPT ![d] = Missing]
    BY DEF SameElsewhere
<1>2. Uses # d
    BY CatalogAssumption DEF Uses, InUse
<1>3. Catalogue!DropDb(d)
    BY <1>1, <1>2 DEF Uses, Catalogue!DropDb
<1>. QED
    BY <1>3 DEF Catalogue!DbNext

(* ... used, ... *)
LEMMA AsUse ==
    ASSUME NEW d \in Db, Found(d) \in Catalogue!Tables, SameFound, cur = NoDb,
           cur' # NoDb, cur'.name = d, UNCHANGED <<Exposed, hurt>>
    PROVE  Catalogue!DbNext
<1>1. Catalogue!UseDb(d)
    BY DEF SameFound, Catalogue!UseDb
<1>. QED
    BY <1>1 DEF Catalogue!DbNext

(* ... and left; ... *)
LEMMA AsLeave ==
    ASSUME SameFound, cur # NoDb, cur' = NoDb, UNCHANGED hurt, Exposed' = Exposed \ {cur.name}
    PROVE  Catalogue!DbNext
<1>1. Catalogue!LeaveDb
    BY DEF SameFound, Catalogue!LeaveDb
<1>. QED
    BY <1>1 DEF Catalogue!DbNext

(* ... a statement on the tables of the one in use: a table that is        *)
(* created, ...                                                            *)
Turned(c, f) ==
    /\ cur # NoDb /\ cur.name = c /\ cur' # NoDb /\ cur'.name = c
    /\ Found(c)' = f /\ SameElsewhere(c)
    /\ UNCHANGED hurt /\ Exposed' = Exposed \cup {c}

(* In general. *)
LEMMA AsInUse ==
    ASSUME NEW c \in Db, NEW f, Turned(c, f)
    PROVE  /\ Catalogue!InUse(f)
           /\ Uses = c /\ c # NoDb /\ [e \in Db |-> Found(e)][c] = Found(c)
<1>1. [e \in Db |-> Found(e)]' = [[e \in Db |-> Found(e)] EXCEPT ![c] = f]
    BY DEF SameElsewhere, Turned
<1>2. Uses = c /\ Uses' = c /\ c # NoDb
    BY CatalogAssumption DEF Uses, Turned
<1>. QED
    BY <1>1, <1>2 DEF Uses, Turned, Catalogue!InUse

(* A table that is created, ... *)
LEMMA AsNewTable ==
    ASSUME NEW c \in Db, NEW t \in Tab, NEW f, NEW g, Turned(c, f), g = Found(c),
           t \notin DOMAIN g,
           f = [u \in DOMAIN g \cup {t} |-> IF u = t THEN Empty ELSE g[u]]
    PROVE  Catalogue!DbNext
<1>1. Catalogue!InUse(f) /\ Uses = c /\ c # NoDb /\ [e \in Db |-> Found(e)][Uses] = g
    BY AsInUse
<1>2. Catalogue!NewTable(t)
    BY <1>1 DEF Uses, Catalogue!NewTable
<1>. QED
    BY <1>1, <1>2 DEF Uses, Catalogue!DbNext

(* ... one that is dropped, ... *)
LEMMA AsOldTable ==
    ASSUME NEW c \in Db, NEW t \in Tab, NEW f, NEW g, Turned(c, f), g = Found(c),
           t \in DOMAIN g, f = [u \in DOMAIN g \ {t} |-> g[u]]
    PROVE  Catalogue!DbNext
<1>1. Catalogue!InUse(f) /\ Uses = c /\ c # NoDb /\ [e \in Db |-> Found(e)][Uses] = g
    BY AsInUse
<1>2. Catalogue!OldTable(t)
    BY <1>1 DEF Uses, Catalogue!OldTable
<1>. QED
    BY <1>1, <1>2 DEF Uses, Catalogue!DbNext

(* ... and one whose rows change; ... *)
LEMMA AsChange ==
    ASSUME NEW c \in Db, NEW t \in Tab, NEW v \in Value \cup {Junk}, NEW f, NEW g,
           Turned(c, f), g = Found(c), t \in DOMAIN g, f = [g EXCEPT ![t] = v]
    PROVE  Catalogue!DbNext
<1>1. Catalogue!InUse(f) /\ Uses = c /\ c # NoDb /\ [e \in Db |-> Found(e)][Uses] = g
    BY AsInUse
<1>2. Catalogue!ChangeTable(t, v)
    BY <1>1 DEF Uses, Catalogue!ChangeTable
<1>. QED
    BY <1>1, <1>2 DEF Uses, Catalogue!DbNext

(* ... and the death of the process. *)
LEMMA AsDeath ==
    ASSUME \A d \in Db : /\ d \in Exposed \/ Found(d)' = Found(d)
                         /\ Found(d)' \in Catalogue!Tables \cup {Missing, Damaged},
           cur' = NoDb, Exposed' = {}, hurt' = hurt \cup Exposed
    PROVE  Catalogue!DbNext
<1>1. Catalogue!Die
    BY DEF Catalogue!Die
<1>. QED
    BY <1>1 DEF Catalogue!DbNext

(* What the death of the process may harm, in terms of the plan. *)
LEMMA ExposedThen ==
    /\ CurExposed <=> cur # NoDb /\ (\/ cur.changed
                                     \/ \E i \in DOMAIN cur.tables : cur.tables[i].dirty
                                     \/ Closing)
    /\ \A d : d \in Exposed <=> \/ CurExposed /\ d = cur.name
                                \/ db # NoDb /\ d = db.name
BY DEF CurExposed, Closing, Exposed

(* Where a step leaves both objects and the files of a database alone, a   *)
(* statement finds there what it found before.                             *)
LEMMA FoundStays ==
    ASSUME Typed, FoundThere, FoundThere', NEW d \in Db, UNCHANGED cur,
           ~InUse(d) => /\ ~(db # NoDb /\ db.name = d)
                        /\ ~(db # NoDb /\ db.name = d)'
                        /\ SameFiles(d)
    PROVE  Found(d)' = Found(d)
<1>1. InUse(d)' <=> InUse(d)
    BY DEF InUse
<1>2. CASE InUse(d)
    <2>1. Found(d) = InMemory(cur) /\ Found(d)' = InMemory(cur)'
        BY <1>1, <1>2 DEF FoundThere
    <2>2. InMemory(cur)' = InMemory(cur)
        BY DEF InMemory
    <2>. QED
        BY <2>1, <2>2
<1>3. CASE ~InUse(d)
    <2>1. Found(d) = InFiles(d) /\ Found(d)' = InFiles(d)'
        BY <1>1, <1>3 DEF FoundThere
    <2>. QED
        BY <1>3, <2>1, FilesFound
<1>. QED
    BY <1>2, <1>3

(* Writing and removing files shows nothing. *)
LEMMA ShownFiles ==
    ASSUME HomesApart, Kept, Mapped, FoundThere, FoundThere', Kept', FileStep
    PROVE  UNCHANGED Catalogue!dbVars
<1>1. Typed /\ Quiet /\ todo' \in Seq(Steps)
    BY DEF Kept, Openable, PlanFits, Typed
<1>2. Done /\ UNCHANGED <<cur, db, hurt>>
    BY <1>1, FileStepSets
<1>3. PICK c \in Db : Head(todo) \in Work(c)
    BY <1>1, FileStepSets
<1>4. PICK e \in Work(c) : e = Head(todo) /\ e = todo[1] /\ 1 \in DOMAIN todo
    BY <1>1, <1>2, <1>3, Runs
<1>5. c \in Exposed
    BY <1>1, <1>4 DEF Quiet
<1>6. Closing' <=> Closing
    <2>1. e # <<"leave">>
        <3>1. <<"leave">>[1] = "leave"
            OBVIOUS
        <3>. QED
            BY <3>1, WorkKinds DEF Kind
    <2>. QED
        BY <1>1, <1>2, <1>4, <2>1, ClosingKept
<1>7. UNCHANGED <<Uses, Exposed, hurt>>
    <2>1. CurExposed' <=> CurExposed
        BY <1>2, <1>6 DEF CurExposed, Closing
    <2>. QED
        BY <1>2, <2>1 DEF Uses, Exposed
<1>8. ASSUME NEW d \in Db \ {c}
      PROVE  SameFiles(d)
    <2>1. <<e>> \in Seq(Work(c)) /\ 1 \in DOMAIN <<e>> /\ <<e>>[1] = e
        OBVIOUS
    <2>2. Still(<<e>>, d)
        BY <1>8, <2>1, ElsewhereStill
    <2>3. /\ \A t \in Home[d] : /\ HeadSets(t)[e] = {} /\ DataSets(t)[e] = {}
                                /\ HeldSets(t)[e] = {}
          /\ ListSets(d)[e] = {}
        BY <2>1, <2>2 DEF Still, Idles
    <2>4. Home[d] \subseteq Tab
        BY DEF Tab
    <2>. QED
        BY <1>1, <1>4, <2>3, <2>4, FileStepSets DEF SameFiles
<1>9. ASSUME NEW d \in Db, ~InUse(d), db # NoDb, db.name = d
      PROVE  Found(d)' = Found(d)
    <2>1. \A x : ListEnds(d, x) => ListEnds(d, x)'
        BY <1>1, <1>2, FileStepSets, EndsKept
    <2>2. ListEnds(d, Missing)' <=> ListEnds(d, Missing)
        <3>1. CASE ListEnds(d, Missing)
            BY <2>1, <3>1
        <3>2. CASE ~ListEnds(d, Missing)
            <4>1. PICK l \in Names(d) : l = db.names
                BY <1>1, <1>9 DEF Typed, Sound
            <4>2. ListEnds(d, l)
                BY <1>9, <3>2, <4>1 DEF Mapped, SecondFits, WillShow
            <4>3. ListEnds(d, l)' /\ l # Missing
                BY <2>1, <4>2, NamesThere
            <4>4. ~ListEnds(d, Missing)'
                BY <1>1, <4>3, LeadsOnce DEF ListEnds
            <4>. QED
                BY <3>2, <4>4
        <3>. QED
            BY <3>1, <3>2
    <2>3. InMemory(db)' = InMemory(db) /\ ~InUse(d)' /\ (db # NoDb /\ db.name = d)'
        BY <1>2, <1>9 DEF InMemory, InUse
    <2>4. Found(d) = IF ListEnds(d, Missing) THEN Missing ELSE InMemory(db)
        BY <1>9 DEF FoundThere
    <2>5. Found(d)' = IF ListEnds(d, Missing)' THEN Missing ELSE InMemory(db)'
        BY <2>3 DEF FoundThere
    <2>. QED
        BY <2>2, <2>3, <2>4, <2>5
<1>10. ASSUME NEW d \in Db, InUse(d) \/ ~(db # NoDb /\ db.name = d)
       PROVE  Found(d)' = Found(d)
    <2>1. ~InUse(d) => d # c
        BY <1>5, <1>10, ExposedThen DEF CurExposed, InUse
    <2>2. ~InUse(d) => SameFiles(d)
        BY <1>8, <2>1
    <2>. QED
        BY <1>1, <1>2, <1>10, <2>2, FoundStays
<1>11. SameFound
    BY <1>9, <1>10 DEF SameFound
<1>. QED
    BY <1>7, <1>11, AsStutter

(* Nor does the eviction of pages. *)
LEMMA ShownEvicted ==
    ASSUME HomesApart, Kept, Mapped, FoundThere, FoundThere', Evict
    PROVE  UNCHANGED Catalogue!dbVars
<1>1. PICK k \in DOMAIN cur.tables :
          /\ Idle /\ cur # NoDb
          /\ held' = [held EXCEPT ![cur.tables[k].file] = Junk]
          /\ UNCHANGED <<list, head, data, cur, db, todo, hurt>>
    BY DEF Evict
<1>2. Typed /\ db = NoDb /\ db' = NoDb
    BY <1>1, Between DEF Kept, Openable
<1>3. PICK c \in Db, f \in Tab : c = cur.name /\ f \in Home[c] /\ f = cur.tables[k].file
    <2>1. cur.name \in Db /\ cur.tables[k].file \in Home[cur.name]
        BY <1>1, <1>2, ObjectTables DEF Typed, Managers
    <2>. QED
        BY <2>1 DEF Tab
<1>4. ASSUME NEW d \in Db
      PROVE  Found(d)' = Found(d)
    <2>1. ASSUME ~InUse(d)
          PROVE  SameFiles(d)
        <3>1. d # c
            BY <1>1, <1>3, <2>1 DEF InUse
        <3>2. \A t \in Home[d] : t \in Tab /\ t # f
            BY <1>3, <3>1 DEF HomesApart, Tab
        <3>. QED
            BY <1>1, <1>2, <1>3, <3>2 DEF SameFiles, Typed
    <2>. QED
        BY <1>1, <1>2, <2>1, FoundStays
<1>5. UNCHANGED <<Uses, Exposed, hurt>>
    BY <1>1 DEF Uses, Exposed, CurExposed
<1>. QED
    BY <1>4, <1>5, AsStutter DEF SameFound

(* What a plan was to write is written when it leaves the files alone.     *)
LEMMA StoredNow ==
    ASSUME NEW o, Sound(o), WillShow(o), Still(todo, o.name)
    PROVE  Stored(o) /\ InFiles(o.name) = InMemory(o)
<1>1. PICK c \in Db : c = o.name
    BY ObjectTables
<1>2. list[c] = o.names
    BY <1>1, NowEnds DEF WillShow
<1>3. ASSUME NEW i \in DOMAIN o.tables
      PROVE  OnDisk(o.tables[i].file) = o.tables[i].val
    <2>1. PICK m \in Managers(c) : m = o.tables[i]
        BY <1>1, <1>3, ObjectTables
    <2>2. m.file \in Home[c] /\ Stores(m)
        BY <1>3, <2>1 DEF Managers, WillShow
    <2>3. head[m.file] = "ok" /\ data[m.file] = TRUE /\ held[m.file] = m.val
        BY <1>1, <2>2, NowEnds DEF Stores
    <2>. QED
        BY <2>1, <2>3 DEF OnDisk, Complete
<1>4. Stored(o)
    BY <1>1, <1>2, <1>3 DEF Stored
<1>. QED
    BY <1>4, StoredFound

(* The database in use is left. *)
LEMMA ShownLeft ==
    ASSUME Kept, Mapped, FoundThere, FoundThere', Do("leave"), Leave
    PROVE  Catalogue!DbNext
<1>1. /\ todo[1] = <<"leave">> /\ Closing /\ db = NoDb
      /\ cur # NoDb /\ cur' = NoDb /\ db' = NoDb
      /\ \A k \in DOMAIN todo : k # 1 => todo[k] \in Turns
    BY LeftAlone DEF Kept, PlanFits
<1>2. UNCHANGED <<list, head, data, held, hurt>> /\ Typed
    BY DEF Leave, files, Kept, Openable
<1>3. PICK o : o = cur /\ Sound(o) /\ WillShow(o) /\ o.name \in Db
    BY <1>1, <1>2, ObjectTables DEF Typed, Mapped
<1>4. Still(todo, o.name)
    <2>1. \A k \in DOMAIN todo : todo[k] \in Turns \cup {<<"leave">>, <<"end">>}
        BY <1>1
    <2>2. \A k \in DOMAIN todo : todo[k] \in Steps
        BY <1>2, LenProperties, ElementOfSeq DEF Typed
    <2>3. \A k \in DOMAIN todo : \A t : /\ HeadSets(t)[todo[k]] = {} /\ DataSets(t)[todo[k]] = {}
                                        /\ HeldSets(t)[todo[k]] = {} /\ ListSets(t)[todo[k]] = {}
        BY <2>1, <2>2, TurnSets
    <2>. QED
        BY <2>3 DEF Still, Idles
<1>5. ASSUME NEW d \in Db
      PROVE  Found(d)' = Found(d)
    <2>1. Found(d)' = InFiles(d)' /\ InFiles(d)' = InFiles(d)
        <3>1. SameFiles(d)
            BY <1>2 DEF SameFiles
        <3>. QED
            BY <1>1, <1>2, <3>1, FilesFound DEF FoundThere, InUse
    <2>2. CASE d = o.name
        <3>1. Found(d) = InMemory(o)
            BY <1>1, <1>3, <2>2 DEF FoundThere, InUse
        <3>2. InFiles(d) = InMemory(o)
            BY <1>3, <1>4, <2>2, StoredNow
        <3>. QED
            BY <2>1, <3>1, <3>2
    <2>3. CASE d # o.name
        BY <1>1, <1>3, <2>1, <2>3 DEF FoundThere, InUse
    <2>. QED
        BY <2>2, <2>3
<1>6. Exposed' = Exposed \ {cur.name}
    BY <1>1 DEF Exposed, CurExposed
<1>. QED
    BY <1>1, <1>2, <1>5, <1>6, AsLeave DEF SameFound

(* The statement is done with the other database. *)
LEMMA ShownEnd ==
    ASSUME Kept, Mapped, FoundThere, FoundThere', Do("end"), Leave
    PROVE  Catalogue!DbNext \/ UNCHANGED Catalogue!dbVars
<1>1. /\ todo' = <<>> /\ ~Closing /\ db # NoDb /\ cur' = cur /\ db' = NoDb
      /\ \A d \in Db : Still(todo, d)
    BY EndsAlone, EndComes DEF Kept
<1>2. UNCHANGED <<list, head, data, held, hurt>> /\ Typed
    BY DEF Leave, files, Kept, Openable
<1>3. PICK o : o = db /\ Sound(o) /\ o.name \in Db
    BY <1>1, <1>2, ObjectTables DEF Typed
<1>4. ASSUME NEW d \in Db
      PROVE  Found(d)' = Found(d)
    <2>1. CASE InUse(d) \/ d # o.name
        <3>1. SameFiles(d)
            BY <1>2 DEF SameFiles
        <3>. QED
            BY <1>1, <1>2, <1>3, <2>1, <3>1, FoundStays
    <2>2. CASE ~InUse(d) /\ d = o.name
        <3>1. Found(d) = IF ListEnds(d, Missing) THEN Missing ELSE InMemory(o)
            BY <1>1, <1>3, <2>2 DEF FoundThere
        <3>2. Found(d)' = InFiles(d)'
            BY <1>1, <2>2 DEF FoundThere, InUse
        <3>3. InFiles(d)' = InFiles(d)
            <4>1. SameFiles(d)
                BY <1>2 DEF SameFiles
            <4>. QED
                BY <1>2, <4>1, FilesFound
        <3>4. CASE ListEnds(d, Missing)
            <4>1. list[d] = Missing
                BY <1>1, <3>4, NowEnds
            <4>2. InFiles(d) = Missing
                BY <4>1 DEF InFiles, IsList
            <4>. QED
                BY <3>1, <3>2, <3>3, <3>4, <4>2
        <3>5. CASE ~ListEnds(d, Missing)
            <4>1. WillShow(o)
                BY <1>1, <1>3, <2>2, <3>5 DEF Mapped, SecondFits
            <4>2. InFiles(d) = InMemory(o)
                BY <1>1, <1>3, <2>2, <4>1, StoredNow
            <4>. QED
                BY <3>1, <3>2, <3>3, <3>5, <4>2
        <3>. QED
            BY <3>4, <3>5
    <2>. QED
        BY <2>1, <2>2
<1>5. UNCHANGED <<Uses, hurt>>
    BY <1>1, <1>2 DEF Uses
<1>6. CurExposed' <=> CurExposed
    <2>1. ~Closing'
        BY <1>1 DEF Closing
    <2>. QED
        BY <1>1, <2>1 DEF CurExposed, Closing
<1>7. CASE CurExposed /\ cur.name = o.name
    <2>1. Exposed' = Exposed
        BY <1>1, <1>3, <1>6, <1>7 DEF Exposed
    <2>. QED
        BY <1>4, <1>5, <2>1, AsStutter DEF SameFound
<1>8. CASE ~(CurExposed /\ cur.name = o.name)
    <2>1. Exposed' = Exposed \ {o.name}
        BY <1>1, <1>3, <1>6, <1>8 DEF Exposed
    <2>. QED
        BY <1>3, <1>4, <1>5, <2>1, AsSettle DEF SameFound
<1>. QED
    BY <1>7, <1>8

(* A database is opened as its files are. *)
LEMMA OpenedShows ==
    ASSUME Typed, NEW d \in Db, list[d] \in Names(d)
    PROVE  /\ AsOpened(OpenedList(d), d) /\ InMemory(OpenedList(d)) = InFiles(d)
           /\ InFiles(d) \in Catalogue!Tables
<1>1. PICK o : o = OpenedList(d) /\ AsOpened(o, d)
    BY OpenedAs
<1>2. /\ Sound(o) /\ o.name = d /\ o.names = list[d] /\ DOMAIN o.tables = DOMAIN list[d]
      /\ \A i \in DOMAIN list[d] : /\ o.tables[i].file = list[d][i]
                                   /\ o.tables[i].val = OnDisk(list[d][i])
    BY <1>1 DEF AsOpened
<1>3. Stored(o)
    BY <1>2 DEF Stored
<1>. QED
    BY <1>1, <1>2, <1>3, StoredFound, MemoryShows

(* A database is opened that becomes the one in use.                       *)
LEMMA ShownOpened ==
    ASSUME HomesApart, Kept, Mapped, FoundThere, FoundThere', OpensCur
    PROVE  Catalogue!DbNext
<1>1. Openable /\ Typed /\ TurnsFit
    BY DEF Kept, Openable, PlanFits
<1>2. PICK d \in Db : /\ d = Arg /\ DOMAIN todo = {1} /\ Len(todo) = 1
                      /\ todo[1] = <<"open", d>> /\ list[d] \in Names(d)
    BY <1>1, TurnComes DEF OpensCur
<1>3. FilesOpen(d) /\ cur' = OpenedList(d) /\ Done /\ UNCHANGED <<db, hurt>>
    BY <1>2 DEF OpensCur
<1>4. ~Closing /\ cur = NoDb /\ db = NoDb
    <2>1. Do("open")
        BY DEF OpensCur
    <2>2. ~Closing /\ db = NoDb
        BY <1>1, <2>1, TurnAlone, NoSecond
    <2>. QED
        BY <1>1, <1>2, <2>2 DEF TurnsFit
<1>5. PICK o : /\ o = cur' /\ Sound(o) /\ o # NoDb /\ o.name = d /\ o.changed = FALSE
               /\ \A i \in DOMAIN o.tables : o.tables[i].dirty = FALSE
               /\ InMemory(o) = InFiles(d)
    <2>1. PICK o : o = OpenedList(d) /\ AsOpened(o, d) /\ InMemory(o) = InFiles(d)
        BY <1>1, <1>2, OpenedShows
    <2>2. o = cur'
        BY <1>3, <2>1
    <2>. QED
        BY <2>1, <2>2 DEF AsOpened
<1>6. Found(d) = InFiles(d) /\ Found(d) \in Catalogue!Tables
    BY <1>1, <1>2, <1>4, OpenedShows DEF FoundThere, InUse
<1>7. Found(d)' = InMemory(o)
    <2>1. InUse(d)'
        BY <1>5 DEF InUse
    <2>2. InMemory(cur)' = InMemory(o)
        BY <1>5 DEF InMemory
    <2>. QED
        BY <2>1, <2>2 DEF FoundThere
<1>8. ASSUME NEW f \in Db \ {d}
      PROVE  Found(f)' = Found(f)
    <2>1. Found(f) = InFiles(f) /\ Found(f)' = InFiles(f)'
        BY <1>3, <1>4, <1>5, <1>8 DEF FoundThere, InUse
    <2>2. SameFiles(f)
        BY <1>1, <1>2, <1>3, <1>8, OpenedSame
    <2>. QED
        BY <1>1, <2>1, <2>2, FilesFound
<1>9. Exposed' = Exposed
    <2>1. todo' = <<>>
        BY <1>1, <1>2, <1>3, Runs, EmptySeq
    <2>2. ~CurExposed' /\ ~CurExposed
        BY <1>4, <1>5, <2>1 DEF CurExposed
    <2>. QED
        BY <1>3, <1>4, <2>2 DEF Exposed
<1>. QED
    BY <1>3, <1>4, <1>5, <1>6, <1>7, <1>8, <1>9, AsUse DEF SameFound

(* A database is opened besides the one in use. *)
LEMMA ShownSecond ==
    ASSUME HomesApart, Kept, Mapped, FoundThere, FoundThere', Kept', OpensSecond
    PROVE  Catalogue!DbNext
<1>1. Openable /\ Typed /\ TurnsFit /\ todo' \in Seq(Steps)
    BY DEF Kept, Openable, PlanFits, Typed
<1>2. PICK s \in {"show", "drop"} : Do(s)
    BY DEF OpensSecond
<1>3. PICK d \in Db : /\ d = Arg /\ DOMAIN todo = {1} /\ Len(todo) = 1
                      /\ todo[1] = <<s, d>> /\ list[d] \in Names(d)
    BY <1>1, <1>2, TurnComes
<1>4. /\ FilesOpen(d) /\ db' = OpenedList(d) /\ UNCHANGED <<cur, hurt>>
      /\ todo' = (IF s = "show" THEN CloseObject(db') ELSE DropObject(db')) \o << <<"end">> >>
    BY <1>2, <1>3 DEF OpensSecond, Do
<1>5. ~Closing /\ db = NoDb
    BY <1>1, <1>2, TurnAlone, NoSecond
<1>6. PICK o : /\ o = db' /\ Sound(o) /\ o # NoDb /\ o.name = d
               /\ InMemory(o) = InFiles(d)
    BY <1>1, <1>3, <1>4, OpenedShows DEF AsOpened
<1>7. PICK e \in Turns \cup {<<"leave">>, <<"end">>} : e = <<"end">>
    OBVIOUS
<1>8. ~Closing'
    <2>1. CloseObject(o) \in Seq(Work(d)) /\ DropObject(o) \in Seq(Work(d))
        BY <1>6, CloseObjectLeads, DropObjectLeads
    <2>2. PICK p \in Seq(Work(d)) : p = IF s = "show" THEN CloseObject(o) ELSE DropObject(o)
        BY <2>1
    <2>3. todo' = p \o << <<"end">> >>
        BY <1>4, <1>6, <2>2
    <2>. QED
        BY <2>3, WorkThenEnd
<1>9. UNCHANGED <<Uses, hurt>> /\ Exposed' = Exposed \cup {d}
    <2>1. CurExposed' <=> CurExposed
        BY <1>4, <1>5, <1>8 DEF CurExposed, Closing
    <2>. QED
        BY <1>4, <1>5, <1>6, <2>1 DEF Uses, Exposed
<1>10. ASSUME NEW f \in Db, InUse(f) \/ f # d
       PROVE  Found(f)' = Found(f)
    <2>1. f # d => SameFiles(f)
        BY <1>1, <1>3, <1>4, OpenedSame
    <2>. QED
        BY <1>1, <1>4, <1>5, <1>6, <1>10, <2>1, FoundStays
<1>11. ASSUME ~InUse(d)
       PROVE  /\ Found(d) = InFiles(d)
              /\ Found(d)' = IF ListEnds(d, Missing)' THEN Missing ELSE InMemory(o)
    <2>1. ~InUse(d)' /\ (db # NoDb /\ db.name = d)'
        BY <1>4, <1>6, <1>11 DEF InUse
    <2>2. InMemory(db)' = InMemory(o)
        BY <1>6 DEF InMemory
    <2>. QED
        BY <1>5, <1>11, <2>1, <2>2 DEF FoundThere
<1>12. CASE s = "show"
    <2>1. todo' = CloseObject(o) \o <<e>>
        BY <1>4, <1>6, <1>7, <1>12
    <2>2. PICK l \in Names(d) : l = o.names
        BY <1>6 DEF Sound
    <2>3. Fixes(todo', ListSets(d), l)
        BY <1>6, <2>1, <2>2, CloseThen
    <2>4. ListEnds(d, l)' /\ l # Missing
        BY <2>3, EndsNext, NamesThere
    <2>5. ~ListEnds(d, Missing)'
        BY <1>1, <2>4, LeadsOnce DEF ListEnds
    <2>6. Found(d)' = Found(d)
        <3>1. CASE InUse(d)
            BY <1>10, <3>1
        <3>2. CASE ~InUse(d)
            BY <1>6, <1>11, <2>5, <3>2
        <3>. QED
            BY <3>1, <3>2
    <2>7. SameFound
        BY <1>10, <2>6 DEF SameFound
    <2>. QED
        BY <1>9, <2>7, AsTouch
<1>13. CASE s = "drop"
    <2>1. todo' = DropObject(o) \o <<e>>
        BY <1>4, <1>6, <1>7, <1>13
    <2>2. Fixes(todo', ListSets(d), Missing)
        BY <1>6, <2>1, DropThen
    <2>3. ListEnds(d, Missing)'
        BY <2>2, EndsNext
    <2>4. ~InUse(d)
        BY <1>1, <1>3, <1>5, <1>13 DEF TurnsFit
    <2>5. Found(d)' = Missing /\ Found(d) \in Catalogue!Tables
        BY <1>1, <1>3, <1>11, <2>3, <2>4, OpenedShows
    <2>6. SameElsewhere(d)
        BY <1>10 DEF SameElsewhere
    <2>. QED
        BY <1>9, <2>4, <2>5, <2>6, AsDrop
<1>. QED
    BY <1>12, <1>13

(* A statement that only makes a plan shows nothing yet. *)
LEMMA PlannedShows ==
    ASSUME Kept, Mapped, FoundThere, FoundThere', Idle, UNCHANGED <<files, cur, db, hurt>>
    PROVE  SameFound /\ UNCHANGED <<Uses, hurt>>
<1>1. Typed /\ db = NoDb /\ UNCHANGED <<list, head, data, held, cur, db, hurt>>
    BY Between DEF Kept, Openable, files
<1>2. ASSUME NEW d \in Db
      PROVE  Found(d)' = Found(d)
    <2>1. SameFiles(d)
        BY <1>1 DEF SameFiles
    <2>. QED
        BY <1>1, <2>1, FoundStays
<1>. QED
    BY <1>1, <1>2 DEF SameFound, Uses

(* One that closes the database in use begins to work on it. *)
LEMMA ShownClosed ==
    ASSUME Kept, Mapped, FoundThere, FoundThere', Idle, UNCHANGED <<files, cur, db, hurt>>,
           cur # NoDb, todo' = CloseCur \/ \E e \in Turns : todo' = CloseCur \o <<e>>
    PROVE  Catalogue!DbNext
<1>1. Typed /\ db = NoDb
    BY Between DEF Kept, Openable
<1>2. PICK c \in Db : c = cur.name
    BY <1>1, ObjectTables DEF Typed
<1>3. Closing'
    BY <1>1, CloseCurLeaves
<1>4. CurExposed'
    BY <1>3 DEF CurExposed, Closing
<1>5. Exposed' = Exposed \cup {c}
    BY <1>1, <1>2, <1>4 DEF Exposed
<1>. QED
    BY <1>5, PlannedShows, AsTouch

(* One that opens a database next does not. *)
LEMMA ShownTurn ==
    ASSUME Kept, Mapped, FoundThere, FoundThere', Idle, UNCHANGED <<files, cur, db, hurt>>,
           NEW e \in Turns, todo' = <<e>>
    PROVE  UNCHANGED Catalogue!dbVars
<1>1. ~Closing
    BY Between DEF Kept, Openable
<1>2. ~Closing'
    BY TurnNames DEF Closing
<1>3. CurExposed' <=> CurExposed
    BY <1>1, <1>2 DEF CurExposed, Closing
<1>4. Exposed' = Exposed
    BY <1>3 DEF Exposed
<1>. QED
    BY <1>4, PlannedShows, AsStutter

(* A database that is created is empty. *)
LEMMA ShownCreated ==
    ASSUME HomesApart, Overwrite = FALSE, Kept, Mapped, FoundThere, FoundThere', Kept',
           NEW d \in Db, CreateDatabase(d)
    PROVE  Catalogue!DbNext
<1>1. /\ Idle /\ list[d] = Missing /\ UNCHANGED <<list, head, data, held, cur, hurt>>
      /\ db' = NewObject(d) /\ todo' = CloseObject(NewObject(d)) \o << <<"end">> >>
    BY DEF CreateDatabase, files
<1>2. Typed /\ todo' \in Seq(Steps) /\ db = NoDb /\ ~Closing
    BY <1>1, Between DEF Kept, Openable, Typed
<1>3. ~InUse(d)
    BY <1>2, MappedCreated
<1>4. PICK o : o = db' /\ Sound(o) /\ o # NoDb /\ o.name = d /\ o.names = <<>>
               /\ DOMAIN o.tables = {}
    BY <1>1, NewSound
<1>5. PICK e \in Turns \cup {<<"leave">>, <<"end">>} : e = <<"end">>
    OBVIOUS
<1>6. todo' = CloseObject(o) \o <<e>>
    BY <1>1, <1>4, <1>5
<1>7. ~Closing'
    <2>1. PICK p \in Seq(Work(d)) : p = CloseObject(o)
        BY <1>4, CloseObjectLeads
    <2>2. todo' = p \o << <<"end">> >>
        BY <1>1, <1>4, <2>1
    <2>. QED
        BY <2>2, WorkThenEnd
<1>8. UNCHANGED <<Uses, hurt>> /\ Exposed' = Exposed \cup {d}
    <2>1. CurExposed' <=> CurExposed
        BY <1>1, <1>2, <1>7 DEF CurExposed, Closing
    <2>. QED
        BY <1>1, <1>2, <1>4, <2>1 DEF Uses, Exposed
<1>9. Found(d) = Missing
    <2>1. Found(d) = InFiles(d)
        BY <1>2, <1>3 DEF FoundThere
    <2>. QED
        BY <1>1, <2>1 DEF InFiles, IsList
<1>10. Found(d)' = [t \in {} |-> Empty]
    <2>1. PICK l \in Names(d) : l = o.names
        BY <1>4 DEF Sound
    <2>2. Fixes(todo', ListSets(d), l)
        BY <1>4, <1>6, <2>1, CloseThen
    <2>3. ListEnds(d, l)' /\ l # Missing
        BY <2>2, EndsNext, NamesThere
    <2>4. ~ListEnds(d, Missing)'
        BY <1>2, <2>3, LeadsOnce DEF ListEnds
    <2>5. ~InUse(d)' /\ (db # NoDb /\ db.name = d)'
        BY <1>1, <1>3, <1>4 DEF InUse
    <2>6. InMemory(db)' = InMemory(o)
        BY <1>4 DEF InMemory
    <2>7. Found(d)' = InMemory(o)
        BY <2>4, <2>5, <2>6 DEF FoundThere
    <2>8. {o.names[i] : i \in DOMAIN o.names} = {}
        BY <1>4
    <2>9. InMemory(o) = [t \in {} |-> Empty]
        BY <2>8 DEF InMemory
    <2>. QED
        BY <2>7, <2>9
<1>11. SameElsewhere(d)
    <2>1. ASSUME NEW f \in Db \ {d}
          PROVE  Found(f)' = Found(f)
        <3>1. SameFiles(f)
            BY <1>1 DEF SameFiles
        <3>. QED
            BY <1>1, <1>2, <1>4, <2>1, <3>1, FoundStays
    <2>. QED
        BY <2>1 DEF SameElsewhere
<1>. QED
    BY <1>8, <1>9, <1>10, <1>11, AsCreate

(* The statements that name a database. *)
LEMMA ShownPlans ==
    ASSUME HomesApart, Overwrite = FALSE, Kept, Mapped, FoundThere, FoundThere', Kept',
           NEW d \in Db,
           SwitchDatabase(d) \/ CreateDatabase(d) \/ DropDatabase(d)
               \/ ShowDatabase(d) \/ CloseDatabase
    PROVE  Catalogue!DbNext \/ UNCHANGED Catalogue!dbVars
<1>1. <<"open", d>> \in Turns /\ <<"drop", d>> \in Turns /\ <<"show", d>> \in Turns
    BY DEF Turns
<1>2. ASSUME NEW e \in Turns, Idle, UNCHANGED <<files, cur, db, hurt>>,
             todo' = CloseCur \o <<e>>
      PROVE  Catalogue!DbNext \/ UNCHANGED Catalogue!dbVars
    <2>1. CASE cur = NoDb
        <3>1. todo' = <<e>>
            BY <1>2, <2>1, ConcatEmptySeq DEF CloseCur
        <3>. QED
            BY <1>2, <3>1, ShownTurn
    <2>2. CASE cur # NoDb
        BY <1>2, <2>2, ShownClosed
    <2>. QED
        BY <2>1, <2>2
<1>3. CASE CreateDatabase(d)
    BY <1>3, ShownCreated
<1>4. CASE SwitchDatabase(d)
    BY <1>1, <1>2, <1>4 DEF SwitchDatabase
<1>5. CASE CloseDatabase
    BY <1>5, ShownClosed DEF CloseDatabase
<1>6. CASE DropDatabase(d) /\ InUse(d)
    <2>1. /\ Idle /\ UNCHANGED <<files, cur, db, hurt>>
          /\ todo' = CloseCur \o << <<"drop", d>> >>
        BY <1>6 DEF DropDatabase
    <2>. QED
        BY <1>1, <1>2, <2>1
<1>7. CASE DropDatabase(d) /\ ~InUse(d)
    <2>1. /\ Idle /\ UNCHANGED <<files, cur, db, hurt>>
          /\ todo' = <<>> \o << <<"drop", d>> >>
        BY <1>7 DEF DropDatabase
    <2>2. todo' = << <<"drop", d>> >>
        BY <2>1
    <2>. QED
        BY <1>1, <2>1, <2>2, ShownTurn
<1>8. CASE ShowDatabase(d)
    BY <1>1, <1>8, ShownTurn DEF ShowDatabase
<1>. QED
    BY <1>3, <1>4, <1>5, <1>6, <1>7, <1>8

(* What memory shows of an object with one more table, ... *)
LEMMA GainsShows ==
    ASSUME NEW o, Sound(o), NEW n, NEW m \in Managers(o.name), Gains(n, o, m),
           m.file \notin {o.names[i] : i \in DOMAIN o.names},
           NEW g, g = InMemory(o), NEW t, t = m.file, NEW v, v = m.val
    PROVE  /\ t \notin DOMAIN g
           /\ InMemory(n) = [u \in DOMAIN g \cup {t} |-> IF u = t THEN v ELSE g[u]]
<1>1. PICK N \in Nat :
          /\ N = Len(o.tables)
          /\ DOMAIN o.tables = 1 .. N /\ DOMAIN o.names = 1 .. N
          /\ DOMAIN n.tables = 1 .. N + 1 /\ DOMAIN n.names = 1 .. N + 1
    BY ObjectTables DEF Gains
<1>2. /\ Sound(n)
      /\ \A i \in 1 .. N : n.names[i] = o.names[i] /\ n.tables[i] = o.tables[i]
      /\ n.names[N + 1] = t /\ n.tables[N + 1] = m
    BY <1>1 DEF Gains
<1>3. DOMAIN g = {o.names[i] : i \in 1 .. N} /\ \A i \in 1 .. N : g[o.names[i]] = o.tables[i].val
    <2>1. Showing(g, o)
        BY MemoryShows
    <2>2. /\ DOMAIN g = {o.names[i] : i \in DOMAIN o.names}
          /\ \A i \in DOMAIN o.tables : g[o.names[i]] = o.tables[i].val
          /\ g = [u \in DOMAIN g |-> g[u]]
        BY <2>1, Zenon DEF Showing
    <2>. QED
        BY <1>1, <2>2
<1>4. t \notin DOMAIN g
    BY <1>1, <1>3
<1>5. PICK f : f = [u \in DOMAIN g \cup {t} |-> IF u = t THEN v ELSE g[u]]
    OBVIOUS
<1>6. \A i \in 1 .. N + 1 : i \in 1 .. N \/ i = N + 1
    OBVIOUS
<1>7. N + 1 \in 1 .. N + 1 /\ \A i \in 1 .. N : i \in 1 .. N + 1
    OBVIOUS
<1>8. DOMAIN f = {n.names[i] : i \in DOMAIN n.names}
    <2>1. DOMAIN f = DOMAIN g \cup {t}
        BY <1>5
    <2>2. ASSUME NEW u \in DOMAIN g \cup {t}
          PROVE  \E i \in DOMAIN n.names : u = n.names[i]
        <3>1. CASE u = t
            BY <1>1, <1>2, <1>7, <3>1
        <3>2. CASE u # t
            <4>1. PICK i \in 1 .. N : u = o.names[i]
                BY <1>3, <2>2, <3>2
            <4>2. i \in DOMAIN n.names /\ n.names[i] = u
                BY <1>1, <1>2, <1>7, <4>1
            <4>. QED
                BY <4>2
        <3>. QED
            BY <3>1, <3>2
    <2>3. ASSUME NEW i \in DOMAIN n.names
          PROVE  n.names[i] \in DOMAIN g \cup {t}
        <3>1. CASE i = N + 1
            BY <1>2, <3>1
        <3>2. CASE i \in 1 .. N
            BY <1>2, <1>3, <3>2
        <3>. QED
            BY <1>1, <1>6, <2>3, <3>1, <3>2
    <2>. QED
        BY <2>1, <2>2, <2>3
<1>9. ASSUME NEW i \in DOMAIN n.tables
      PROVE  f[n.names[i]] = n.tables[i].val
    <2>1. CASE i = N + 1
        <3>1. n.names[i] = t /\ n.tables[i].val = v
            BY <1>2, <2>1
        <3>. QED
            BY <1>5, <3>1
    <2>2. CASE i \in 1 .. N
        <3>1. PICK u : u = n.names[i] /\ u = o.names[i]
            BY <1>2, <2>2
        <3>2. u \in DOMAIN g /\ u # t /\ g[u] = n.tables[i].val
            BY <1>2, <1>3, <1>4, <2>2, <3>1
        <3>3. f[u] = g[u]
            BY <1>5, <3>2
        <3>. QED
            BY <3>1, <3>2, <3>3
    <2>. QED
        BY <1>1, <1>6, <1>9, <2>1, <2>2
<1>10. f = InMemory(n)
    <2>1. Showing(f, n)
        BY <1>5, <1>8, <1>9 DEF Showing
    <2>. QED
        BY <1>2, <2>1, MemoryShows
<1>. QED
    BY <1>4, <1>5, <1>10

(* ... with one less, ... *)
LEMMA LosesShows ==
    ASSUME NEW o, Sound(o), NEW n, NEW k \in DOMAIN o.names, Loses(n, o, k),
           NEW g, g = InMemory(o), NEW t, t = o.names[k]
    PROVE  t \in DOMAIN g /\ InMemory(n) = [u \in DOMAIN g \ {t} |-> g[u]]
<1>1. PICK N \in Nat :
          /\ N = Len(o.tables)
          /\ DOMAIN o.tables = 1 .. N /\ DOMAIN o.names = 1 .. N
          /\ \A i \in 1 .. N : o.tables[i].file = o.names[i]
          /\ \A i, j \in 1 .. N : i # j => o.tables[i].file # o.tables[j].file
    BY ObjectTables
<1>2. PICK M : M = N - 1
    OBVIOUS
<1>3. Sound(n) /\ Len(n.tables) = M
    BY <1>1, <1>2 DEF Loses
<1>4. DOMAIN n.tables = 1 .. M /\ DOMAIN n.names = 1 .. M
    BY <1>3, ObjectTables
<1>5. /\ \A i \in 1 .. M : \E j \in 1 .. N :
            j # k /\ n.names[i] = o.names[j] /\ n.tables[i] = o.tables[j]
      /\ \A j \in 1 .. N : j # k => \E i \in 1 .. M :
            n.names[i] = o.names[j] /\ n.tables[i] = o.tables[j]
    BY <1>1, <1>2 DEF Loses
<1>6. DOMAIN g = {o.names[i] : i \in 1 .. N} /\ \A i \in 1 .. N : g[o.names[i]] = o.tables[i].val
    <2>1. Showing(g, o)
        BY MemoryShows
    <2>2. /\ DOMAIN g = {o.names[i] : i \in DOMAIN o.names}
          /\ \A i \in DOMAIN o.tables : g[o.names[i]] = o.tables[i].val
          /\ g = [u \in DOMAIN g |-> g[u]]
        BY <2>1, Zenon DEF Showing
    <2>. QED
        BY <1>1, <2>2
<1>7. t \in DOMAIN g /\ \A j \in 1 .. N : j # k <=> o.names[j] # t
    <2>1. k \in 1 .. N /\ \A j \in 1 .. N : j # k => o.names[j] # o.names[k]
        BY <1>1
    <2>. QED
        BY <1>6, <2>1
<1>8. PICK f : f = [u \in DOMAIN g \ {t} |-> g[u]]
    OBVIOUS
<1>9. DOMAIN f = {n.names[i] : i \in DOMAIN n.names}
    <2>1. DOMAIN f = DOMAIN g \ {t}
        BY <1>8
    <2>2. ASSUME NEW u \in DOMAIN g \ {t}
          PROVE  \E i \in DOMAIN n.names : u = n.names[i]
        <3>1. PICK j \in 1 .. N : u = o.names[j] /\ j # k
            BY <1>6, <1>7, <2>2
        <3>2. PICK i \in 1 .. M : n.names[i] = o.names[j]
            BY <1>5, <3>1
        <3>. QED
            BY <1>4, <3>1, <3>2
    <2>3. ASSUME NEW i \in DOMAIN n.names
          PROVE  n.names[i] \in DOMAIN g \ {t}
        <3>1. PICK j \in 1 .. N : j # k /\ n.names[i] = o.names[j]
            BY <1>4, <1>5, <2>3
        <3>. QED
            BY <1>6, <1>7, <3>1
    <2>. QED
        BY <2>1, <2>2, <2>3
<1>10. ASSUME NEW i \in DOMAIN n.tables
       PROVE  f[n.names[i]] = n.tables[i].val
    <2>1. PICK j \in 1 .. N : j # k /\ n.names[i] = o.names[j] /\ n.tables[i] = o.tables[j]
        BY <1>4, <1>5, <1>10
    <2>2. PICK u : u = o.names[j]
        OBVIOUS
    <2>3. u \in DOMAIN g \ {t} /\ g[u] = n.tables[i].val
        BY <1>6, <1>7, <2>1, <2>2
    <2>4. f[u] = g[u]
        BY <1>8, <2>3
    <2>. QED
        BY <2>1, <2>2, <2>3, <2>4
<1>11. f = InMemory(n)
    <2>1. Showing(f, n)
        BY <1>8, <1>9, <1>10 DEF Showing
    <2>. QED
        BY <1>3, <2>1, MemoryShows
<1>. QED
    BY <1>7, <1>8, <1>11

(* ... and with other rows in one of them. *)
LEMMA AltersShows ==
    ASSUME NEW o, Sound(o), NEW n, NEW k \in DOMAIN o.names, NEW v, Alters(n, o, k, v),
           NEW g, g = InMemory(o), NEW t, t = o.names[k],
           NEW w, w = n.tables[k].val
    PROVE  t \in DOMAIN g /\ InMemory(n) = [g EXCEPT ![t] = w]
<1>1. PICK N \in Nat :
          /\ DOMAIN o.tables = 1 .. N /\ DOMAIN o.names = 1 .. N
          /\ \A i \in 1 .. N : o.tables[i].file = o.names[i]
          /\ \A i, j \in 1 .. N : i # j => o.tables[i].file # o.tables[j].file
    BY ObjectTables
<1>2. Sound(n) /\ n.names = o.names /\ DOMAIN n.tables = 1 .. N
    BY <1>1 DEF Alters
<1>3. \A i \in 1 .. N : i # k => n.tables[i] = o.tables[i]
    BY <1>1 DEF Alters
<1>4. /\ DOMAIN g = {o.names[i] : i \in 1 .. N}
      /\ \A i \in 1 .. N : g[o.names[i]] = o.tables[i].val
      /\ g = [u \in DOMAIN g |-> g[u]]
    <2>1. Showing(g, o)
        BY MemoryShows
    <2>2. /\ DOMAIN g = {o.names[i] : i \in DOMAIN o.names}
          /\ \A i \in DOMAIN o.tables : g[o.names[i]] = o.tables[i].val
          /\ g = [u \in DOMAIN g |-> g[u]]
        BY <2>1, Zenon DEF Showing
    <2>. QED
        BY <1>1, <2>2
<1>5. t \in DOMAIN g /\ \A j \in 1 .. N : j # k <=> o.names[j] # t
    <2>1. k \in 1 .. N /\ \A j \in 1 .. N : j # k => o.names[j] # o.names[k]
        BY <1>1
    <2>. QED
        BY <1>4, <2>1
<1>6. PICK f : f = [g EXCEPT ![t] = w]
    OBVIOUS
<1>7. /\ DOMAIN f = DOMAIN g /\ f = [u \in DOMAIN f |-> f[u]]
      /\ f[t] = w /\ \A u \in DOMAIN g : u # t => f[u] = g[u]
    BY <1>4, <1>5, <1>6
<1>8. ASSUME NEW i \in 1 .. N
      PROVE  f[n.names[i]] = n.tables[i].val
    <2>1. PICK u : u = o.names[i] /\ u = n.names[i]
        BY <1>2
    <2>2. CASE i = k
        <3>1. u = t
            BY <2>1, <2>2
        <3>. QED
            BY <1>7, <2>1, <2>2, <3>1
    <2>3. CASE i # k
        <3>1. u # t /\ u \in DOMAIN g /\ g[u] = n.tables[i].val
            BY <1>3, <1>4, <1>5, <2>1, <2>3
        <3>. QED
            BY <1>7, <2>1, <3>1
    <2>. QED
        BY <2>2, <2>3
<1>9. f = InMemory(n)
    <2>1. DOMAIN f = {n.names[i] : i \in DOMAIN n.names}
        <3>1. DOMAIN n.names = 1 .. N /\ \A i \in 1 .. N : n.names[i] = o.names[i]
            BY <1>1, <1>2
        <3>2. {n.names[i] : i \in 1 .. N} = {o.names[i] : i \in 1 .. N}
            BY <3>1
        <3>. QED
            BY <1>4, <1>7, <3>1, <3>2
    <2>2. Showing(f, n)
        BY <1>2, <1>7, <1>8, <2>1 DEF Showing
    <2>. QED
        BY <1>2, <2>2, MemoryShows
<1>. QED
    BY <1>5, <1>6, <1>9

(* A statement on a table of the database in use shows in memory.          *)
LEMMA TurnedThere ==
    ASSUME Typed, FoundThere, FoundThere', cur # NoDb, db = NoDb, db' = NoDb,
           NEW o, o = cur, Sound(o), NEW n, n = cur', Sound(n), n.name = o.name,
           n.changed \/ (\E i \in DOMAIN n.tables : n.tables[i].dirty),
           NEW c \in Db, c = o.name, \A d \in Db \ {c} : SameFiles(d), UNCHANGED hurt
    PROVE  Turned(c, InMemory(n)) /\ Found(c) = InMemory(o)
<1>1. n # NoDb /\ o # NoDb
    BY NoDbAssumption DEF Sound
<1>2. InUse(c) /\ InUse(c)' /\ \A d \in Db \ {c} : ~InUse(d) /\ ~InUse(d)'
    BY <1>1 DEF InUse
<1>3. Found(c) = InMemory(o)
    BY <1>2 DEF FoundThere
<1>4. Found(c)' = InMemory(n)
    <2>1. InMemory(cur)' = InMemory(n)
        BY DEF InMemory
    <2>. QED
        BY <1>2, <2>1 DEF FoundThere
<1>5. ASSUME NEW d \in Db \ {c}
      PROVE  Found(d)' = Found(d)
    <2>1. Found(d) = InFiles(d) /\ Found(d)' = InFiles(d)'
        BY <1>2, <1>5 DEF FoundThere
    <2>2. SameFiles(d)
        BY <1>5
    <2>. QED
        BY <2>1, <2>2, FilesFound
<1>6. Exposed' = Exposed \cup {c}
    <2>1. CurExposed'
        BY <1>1 DEF CurExposed
    <2>. QED
        BY <1>1, <2>1 DEF Exposed
<1>. QED
    BY <1>1, <1>3, <1>4, <1>5, <1>6 DEF Turned, SameElsewhere

(* CREATE TABLE. *)
LEMMA ShownTable ==
    ASSUME HomesApart, Kept, Mapped, FoundThere, FoundThere', NEW t \in Tab, CreateTable(t)
    PROVE  Catalogue!DbNext
<1>1. /\ Idle /\ cur # NoDb /\ t \in Home[cur.name] /\ TableId(t) = {}
      /\ data' = [data EXCEPT ![t] = TRUE]
      /\ held' = IF data[t] THEN held ELSE [held EXCEPT ![t] = Junk]
      /\ cur' = [cur EXCEPT
                    !.names = Append(@, t),
                    !.tables = Append(@, [file |-> t, val |-> Empty, dirty |-> TRUE]),
                    !.changed = TRUE]
      /\ UNCHANGED <<list, head, db, todo, hurt>>
    BY DEF CreateTable
<1>2. Typed /\ db = NoDb /\ db' = NoDb
    BY <1>1, Between DEF Kept, Openable
<1>3. PICK o : o = cur /\ Sound(o)
    BY <1>1, <1>2 DEF Typed
<1>4. PICK m \in Managers(o.name) : m = [file |-> t, val |-> Empty, dirty |-> TRUE]
    BY <1>1, <1>3, CatalogAssumption DEF Managers
<1>5. m.file = t /\ m.val = Empty /\ m.file \notin {o.names[i] : i \in DOMAIN o.names}
    BY <1>1, <1>3, <1>4 DEF TableId
<1>6. PICK n : n = [o EXCEPT !.names = Append(@, m.file), !.tables = Append(@, m),
                             !.changed = TRUE]
    OBVIOUS
<1>7. Gains(n, o, m)
    BY <1>3, <1>5, <1>6, ObjectChanges
<1>8. Sound(n) /\ n.name = o.name /\ n.changed = TRUE
    BY <1>7, Zenon DEF Gains
<1>9. n = cur'
    BY <1>1, <1>3, <1>4, <1>5, <1>6
<1>10. PICK c \in Db : c = o.name
    BY <1>3, ObjectTables
<1>11. ASSUME NEW d \in Db \ {c}
       PROVE  SameFiles(d)
    <2>1. \A u \in Home[d] : u \in Tab /\ u # t
        BY <1>1, <1>3, <1>10, <1>11 DEF HomesApart, Tab
    <2>2. \A u \in Tab \ {t} : data'[u] = data[u] /\ held'[u] = held[u]
        BY <1>1, <1>2 DEF Typed
    <2>. QED
        BY <1>1, <2>1, <2>2 DEF SameFiles
<1>12. PICK g, f : g = InMemory(o) /\ f = InMemory(n)
    OBVIOUS
<1>13. Turned(c, f) /\ g = Found(c)
    BY <1>1, <1>2, <1>3, <1>8, <1>9, <1>10, <1>11, <1>12, TurnedThere
<1>14. t \notin DOMAIN g /\ f = [u \in DOMAIN g \cup {t} |-> IF u = t THEN Empty ELSE g[u]]
    BY <1>3, <1>5, <1>7, <1>12, GainsShows
<1>. QED
    BY <1>13, <1>14, AsNewTable

(* DROP TABLE. *)
LEMMA ShownDropped ==
    ASSUME Kept, Mapped, FoundThere, FoundThere', NEW t \in Tab, DropTable(t)
    PROVE  Catalogue!DbNext
<1>1. PICK k \in TableId(t) :
          /\ Idle /\ cur # NoDb
          /\ cur' = [cur EXCEPT !.names = NamesClosedUp(k),
                                !.tables = RemoveAt(@, k),
                                !.changed = TRUE]
          /\ UNCHANGED <<files, db, hurt>>
    BY DEF DropTable
<1>2. Typed /\ db = NoDb /\ db' = NoDb /\ UNCHANGED hurt
    BY <1>1, Between DEF Kept, Openable
<1>3. PICK o : o = cur /\ Sound(o) /\ k \in DOMAIN o.names /\ o.names[k] = t
    BY <1>1, <1>2 DEF Typed, TableId
<1>4. PICK n : n = [o EXCEPT !.names = NamesClosedUp(k), !.tables = RemoveAt(@, k),
                             !.changed = TRUE]
    OBVIOUS
<1>5. Loses(n, o, k)
    BY <1>3, <1>4, ObjectChanges
<1>6. Sound(n) /\ n.name = o.name /\ n.changed = TRUE
    BY <1>5, Zenon DEF Loses
<1>7. n = cur'
    BY <1>1, <1>3, <1>4
<1>8. PICK c \in Db : c = o.name
    BY <1>3, ObjectTables
<1>9. \A d \in Db \ {c} : SameFiles(d)
    BY <1>1 DEF files, SameFiles
<1>10. PICK g, f : g = InMemory(o) /\ f = InMemory(n)
    OBVIOUS
<1>11. Turned(c, f) /\ g = Found(c)
    BY <1>1, <1>2, <1>3, <1>6, <1>7, <1>8, <1>9, <1>10, TurnedThere
<1>12. t \in DOMAIN g /\ f = [u \in DOMAIN g \ {t} |-> g[u]]
    BY <1>3, <1>5, <1>10, LosesShows
<1>. QED
    BY <1>11, <1>12, AsOldTable

(* INSERT, UPDATE, DELETE, CREATE INDEX. *)
LEMMA ShownRows ==
    ASSUME Kept, Mapped, FoundThere, FoundThere', NEW t \in Tab, NEW v \in Value,
           ChangeRows(t, v)
    PROVE  Catalogue!DbNext
<1>1. PICK k \in TableId(t) :
          /\ Idle /\ cur # NoDb
          /\ cur' = [cur EXCEPT
                        !.tables[k].val = IF @ = Junk THEN Junk ELSE v,
                        !.tables[k].dirty = TRUE]
          /\ UNCHANGED <<files, db, todo, hurt>>
    BY DEF ChangeRows
<1>2. Typed /\ db = NoDb /\ db' = NoDb /\ UNCHANGED hurt
    BY <1>1, Between DEF Kept, Openable
<1>3. PICK o : o = cur /\ Sound(o) /\ k \in DOMAIN o.names /\ o.names[k] = t
    BY <1>1, <1>2 DEF Typed, TableId
<1>4. PICK n : n = cur' /\ Alters(n, cur, k, v)
    BY <1>1, <1>3, RowsChanged
<1>5. Alters(n, o, k, v)
    BY <1>3, <1>4
<1>6. Sound(n) /\ n.name = o.name /\ DOMAIN n.tables = DOMAIN o.tables
      /\ n.tables[k] = [file |-> o.names[k],
                        val |-> IF o.tables[k].val = Junk THEN Junk ELSE v,
                        dirty |-> TRUE]
    BY <1>5, Zenon DEF Alters
<1>7. PICK c \in Db : c = o.name /\ k \in DOMAIN o.tables
    BY <1>3, ObjectTables
<1>8. /\ n = cur' /\ Sound(n) /\ n.name = o.name
      /\ n.changed \/ (\E i \in DOMAIN n.tables : n.tables[i].dirty)
    <2>1. k \in DOMAIN n.tables /\ n.tables[k].dirty = TRUE
        BY <1>6, <1>7
    <2>2. \E i \in DOMAIN n.tables : n.tables[i].dirty
        BY <2>1
    <2>. QED
        BY <1>4, <1>6, <2>2
<1>9. \A d \in Db \ {c} : SameFiles(d)
    BY <1>1 DEF files, SameFiles
<1>10. PICK g, f : g = InMemory(o) /\ f = InMemory(n)
    OBVIOUS
<1>11. Turned(c, f) /\ g = Found(c)
    BY <1>1, <1>2, <1>3, <1>7, <1>8, <1>9, <1>10, TurnedThere
<1>12. PICK w \in Value \cup {Junk} : w = n.tables[k].val
    BY <1>6
<1>13. t \in DOMAIN g /\ f = [g EXCEPT ![t] = w]
    BY <1>3, <1>5, <1>10, <1>12, AltersShows
<1>. QED
    BY <1>11, <1>13, AsChange

(* The death of the process shows only in what was being worked on.        *)
LEMMA ShownCrash ==
    ASSUME HomesApart, Kept, Mapped, FoundThere, FoundThere', Crash
    PROVE  Catalogue!DbNext
<1>1. /\ cur' = NoDb /\ db' = NoDb /\ todo' = <<>> /\ hurt' = hurt \cup Exposed
      /\ UNCHANGED <<list, head, data, held>>
    BY DEF Crash, files
<1>2. Typed /\ Quiet
    BY DEF Kept, Openable, PlanFits
<1>3. ASSUME NEW d \in Db
      PROVE  /\ Found(d)' = InFiles(d)
             /\ InFiles(d) \in Catalogue!Tables \cup {Missing, Damaged}
    <2>1. Found(d)' = InFiles(d)'
        BY <1>1 DEF FoundThere, InUse
    <2>2. SameFiles(d)
        BY <1>1 DEF SameFiles
    <2>. QED
        BY <1>2, <2>1, <2>2, FilesFound
<1>4. ASSUME NEW d \in Db \ Exposed
      PROVE  Found(d) = InFiles(d)
    <2>1. CASE ~InUse(d)
        BY <1>4, <2>1 DEF FoundThere, Exposed
    <2>2. CASE InUse(d)
        <3>1. PICK o : o = cur /\ o # NoDb /\ Sound(o) /\ o.name = d
            BY <1>2, <2>2 DEF InUse, Typed
        <3>2. /\ ~Closing /\ ~o.changed /\ \A i \in DOMAIN o.tables : ~o.tables[i].dirty
            BY <1>4, <3>1, ExposedThen
        <3>3. NowCurFits
            BY <1>2, <1>4, <3>1, <3>2, Untouched, FitsNow DEF Mapped
        <3>4. ASSUME NEW i \in DOMAIN o.tables
              PROVE  OnDisk(o.tables[i].file) = o.tables[i].val
            <4>1. PICK m : m = o.tables[i] /\ NowFits(m) /\ ~m.dirty
                BY <3>1, <3>2, <3>3, <3>4 DEF NowCurFits
            <4>. QED
                BY <4>1 DEF NowFits, OnDisk, Complete
        <3>5. Stored(o)
            BY <3>1, <3>2, <3>3, <3>4 DEF NowCurFits, Stored
        <3>6. InFiles(d) = InMemory(o)
            BY <3>1, <3>5, StoredFound
        <3>. QED
            BY <2>2, <3>1, <3>6 DEF FoundThere
    <2>. QED
        BY <2>1, <2>2
<1>5. Exposed' = {}
    BY <1>1 DEF Exposed, CurExposed
<1>. QED
    BY <1>1, <1>3, <1>4, <1>5, AsDeath

(* The first state shows no database at all. *)
LEMMA ShownInit == Init => Catalogue!DbInit
<1>. SUFFICES ASSUME Init PROVE Catalogue!DbInit
    OBVIOUS
<1>1. cur = NoDb /\ db = NoDb /\ todo = <<>> /\ hurt = {} /\ list = [d \in Db |-> Missing]
    BY DEF Init
<1>2. \A d \in Db : Found(d) = Missing
    BY <1>1 DEF Found, InUse, InFiles, IsList
<1>3. Exposed = {}
    BY <1>1 DEF Exposed, CurExposed
<1>. QED
    BY <1>1, <1>2, <1>3 DEF Catalogue!DbInit

(* Each step is one of Databases, or shows nothing. *)
LEMMA ShownNext ==
    ASSUME HomesApart, Overwrite = FALSE, StaleShow = FALSE, Unread = FALSE, Kept, Mapped, [Next]_vars
    PROVE  Catalogue!DbNext \/ UNCHANGED Catalogue!dbVars
<1>1. Kept' /\ Mapped'
    BY KeptNext, MappedNext
<1>2. FoundThere /\ FoundThere'
    BY <1>1, FoundHere, FoundNext
<1>3. CASE Step
    <2>1. CASE FileStep
        BY <1>1, <1>2, <2>1, ShownFiles
    <2>2. CASE OpenCur
        BY <1>2, <2>2, ListedOpens, ShownOpened DEF Kept
    <2>3. CASE OpenSecond
        BY <1>1, <1>2, <2>3, ListedOpens, ShownSecond DEF Kept
    <2>4. CASE Leave
        <3>1. Do("leave") \/ Do("end")
            BY <2>4 DEF Leave
        <3>. QED
            BY <1>2, <2>4, <3>1, ShownLeft, ShownEnd
    <2>. QED
        BY <1>3, <2>1, <2>2, <2>3, <2>4 DEF Step, FileStep
<1>4. CASE \E d \in Db : \/ SwitchDatabase(d) \/ CreateDatabase(d)
                         \/ DropDatabase(d) \/ ShowDatabase(d)
    BY <1>1, <1>2, <1>4, ShownPlans
<1>5. CASE CloseDatabase
    <2>1. cur.name \in Db
        BY <1>5, ObjectTables DEF CloseDatabase, Kept, Openable, Typed
    <2>. QED
        BY <1>1, <1>2, <1>5, <2>1, ShownPlans
<1>6. ASSUME NEW t \in Tab,
             CreateTable(t) \/ DropTable(t) \/ \E v \in Value : ChangeRows(t, v)
      PROVE  Catalogue!DbNext
    BY <1>2, <1>6, ShownTable, ShownDropped, ShownRows
<1>7. CASE Evict
    BY <1>2, <1>7, ShownEvicted
<1>8. CASE Crash
    BY <1>2, <1>8, ShownCrash
<1>9. CASE UNCHANGED vars
    <2>1. UNCHANGED <<list, head, data, held, cur, db, todo, hurt>>
        BY <1>9 DEF vars, files
    <2>2. \A d \in Db : SameFiles(d)
        BY <2>1 DEF SameFiles
    <2>3. SameFound
        BY <2>1 DEF SameFound, Found, InUse, InMemory, InFiles, Dropped, Do, IsList, Listed,
                    OnDisk, Complete
    <2>4. UNCHANGED <<Uses, Exposed, hurt>>
        BY <2>1 DEF Uses, Exposed, CurExposed
    <2>. QED
        BY <2>3, <2>4, AsStutter
<1>. QED
    BY <1>3, <1>4, <1>5, <1>6, <1>7, <1>8, <1>9 DEF Next

(* Under the same conditions the catalog is Databases to whoever gives it  *)
(* statements: what was closed is found again when opened, no statement on *)
(* one database shows in another, and the death of the process harms only  *)
(* what was being worked on.                                               *)
THEOREM CatalogImplemented ==
    HomesApart /\ Overwrite = FALSE /\ StaleShow = FALSE /\ Unread = FALSE => (Spec => ImplementsDatabases)
<1>. SUFFICES ASSUME HomesApart, Overwrite = FALSE, StaleShow = FALSE, Unread = FALSE
              PROVE  Spec => ImplementsDatabases
    OBVIOUS
<1>1. Init => Kept /\ Mapped /\ Catalogue!DbInit
    BY KeptInit, MappedInit, ShownInit
<1>2. Kept /\ Mapped /\ [Next]_vars => Kept' /\ Mapped'
    BY KeptNext, MappedNext
<1>3. Kept /\ Mapped /\ [Next]_vars => [Catalogue!DbNext]_(Catalogue!dbVars)
    BY ShownNext
<1>. QED
    BY <1>1, <1>2, <1>3, PTL DEF Spec, ImplementsDatabases, Catalogue!DbSpec
===============================================================================
