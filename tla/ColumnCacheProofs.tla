---------------------------- MODULE ColumnCacheProofs ----------------------------
(***************************************************************************)
(* Proof that a condition finds the columns of the rows the tables are at. *)
(* The invariant is about the whole cache, not about a search in it: its   *)
(* entries are the columns of the rows that are cached, each once, and     *)
(* none is of another row.                                                 *)
(***************************************************************************)
EXTENDS ColumnCache, FiniteSetTheorems, TLAPS

Fits(type) == {Null} \cup (IF type = "varchar" THEN String ELSE Int)

RowsOf(t) ==
    {r \in [DOMAIN ColType[t] -> {Null} \cup String \cup Int] :
        \A c \in DOMAIN ColType[t] : r[c] \in Fits(ColType[t][c])}

Cached(t) == t \in Tab /\ buf[t] # NoRow

IInv ==
    /\ DOMAIN buf = Tab /\ buf = [t \in Tab |-> buf[t]]
    /\ \A t \in Tab : buf[t] = NoRow \/ buf[t] \in RowsOf(t)
    /\ \A t \in Tab : Cached(t) =>
          \A c \in DOMAIN ColType[t] : Entry(t, c, buf[t][c]) \in cache
    /\ \A e \in cache : \E t \in Tab : \E c \in DOMAIN ColType[t] :
          Cached(t) /\ e = Entry(t, c, buf[t][c])

-----------------------------------------------------------------------------
LEMMA Types ==
    ASSUME NEW t \in Tab, NEW c \in DOMAIN ColType[t]
    PROVE  /\ c \in Col /\ ColType[t][c] \in DOMAIN Datum
           /\ ColType[t][c] \in {"int", "float", "date", "varchar"}
<1>1. c \in Col /\ ColType[t][c] \in DOMAIN Datum
    BY ColumnAssumption DEF Col, ColumnAssumption
<1>. QED
    BY <1>1, ColumnAssumption DEF ColumnAssumption, TermOf

LEMMA EntryFields ==
    ASSUME NEW t, NEW c, NEW d
    PROVE  /\ Entry(t, c, d).col = c /\ Entry(t, c, d).tab = t
           /\ Entry(t, c, d).val = ColumnToExpr(d, ColType[t][c])
BY DEF Entry

(* A row cache_record() reads is one a buffer may hold. *)
LEMMA RowsFit ==
    ASSUME NEW t \in Tab, NEW r \in Rows(t)
    PROVE  r \in RowsOf(t) /\ DOMAIN r = DOMAIN ColType[t]
<1>1. /\ r \in [DOMAIN ColType[t] -> (UNION Range(Datum)) \cup {Null}]
      /\ DOMAIN r = DOMAIN ColType[t]
      /\ \A c \in DOMAIN r : r[c] \in Datum[ColType[t][c]] \cup {Null}
    BY DEF Rows
<1>2. ASSUME NEW c \in DOMAIN ColType[t] PROVE r[c] \in Fits(ColType[t][c])
    <2>1. r[c] \in Datum[ColType[t][c]] \cup {Null}
        BY <1>1
    <2>. QED
        BY <2>1, Types, ColumnAssumption DEF ColumnAssumption, Fits
<1>3. \A c \in DOMAIN ColType[t] : r[c] \in {Null} \cup String \cup Int
    BY <1>2 DEF Fits
<1>4. r \in [DOMAIN ColType[t] -> {Null} \cup String \cup Int]
    BY <1>1, <1>3
<1>. QED
    BY <1>1, <1>2, <1>4 DEF RowsOf

(* So is what UPDATE puts into a column. *)
LEMMA ValueFits ==
    ASSUME NEW type \in {"int", "float", "date", "varchar"}, NEW v \in Evaluated,
           TypeCompatible(type, v)
    PROVE  ExprToDb(v, type) \in Fits(type)
<1>1. CASE v.type = "null"
    BY <1>1 DEF ExprToDb, Fits
<1>2. CASE v.type = "date"
    <2>1. v.val \in Range(DateOf)
        BY <1>2 DEF Evaluated
    <2>2. PICK s \in DOMAIN DateOf : DateOf[s] = v.val
        BY <2>1 DEF Range
    <2>3. v.val \in Int
        BY <2>2, ColumnAssumption DEF ColumnAssumption
    <2>4. CASE type = "varchar"
        <3>1. ExprToDb(v, type) = CHOOSE u \in DOMAIN DateOf : DateOf[u] = v.val
            BY <1>2, <2>4 DEF ExprToDb
        <3>2. (CHOOSE u \in DOMAIN DateOf : DateOf[u] = v.val) \in DOMAIN DateOf
            BY <2>2
        <3>3. ExprToDb(v, type) \in String
            BY <3>1, <3>2, ColumnAssumption DEF ColumnAssumption
        <3>. QED
            BY <2>4, <3>3 DEF Fits
    <2>5. CASE type # "varchar"
        <3>1. ExprToDb(v, type) = v.val
            BY <1>2, <2>5 DEF ExprToDb
        <3>. QED
            BY <2>3, <2>5, <3>1 DEF Fits
    <2>. QED
        BY <2>4, <2>5
<1>3. CASE v.type \in {"int", "float", "string"}
    <2>1. ExprToDb(v, type) = v.val
        BY <1>3 DEF ExprToDb
    <2>2. CASE v.type \in {"int", "float"}
        <3>1. v.val \in Int
            BY <2>2 DEF Evaluated
        <3>2. type # "varchar"
            BY <2>2 DEF TypeCompatible
        <3>. QED
            BY <2>1, <3>1, <3>2 DEF Fits
    <2>3. CASE v.type = "string"
        <3>1. v.val \in String
            BY <2>3 DEF Evaluated
        <3>2. type = "varchar"
            BY <2>3 DEF TypeCompatible
        <3>. QED
            BY <2>1, <3>1, <3>2 DEF Fits
    <2>. QED
        BY <1>3, <2>2, <2>3
<1>4. v.type \in {"null", "date", "int", "float", "string"}
    BY DEF Evaluated
<1>. QED
    BY <1>1, <1>2, <1>3, <1>4

-----------------------------------------------------------------------------
LEMMA InitHolds == CacheInit => IInv
BY DEF CacheInit, IInv, Cached

LEMMA EndHolds ==
    ASSUME IInv, EndStatement
    PROVE  IInv'
<1>1. cache' = {} /\ buf' = [t \in Tab |-> NoRow]
    BY DEF EndStatement
<1>. QED
    BY <1>1 DEF IInv, Cached

(* The entries of the table before are gone, those of others stay.         *)
LEMMA RecordHolds ==
    ASSUME IInv, NEW t \in Tab, CacheRecord(t)
    PROVE  IInv'
<1>1. PICK r \in Rows(t) :
         /\ buf' = [buf EXCEPT ![t] = r]
         /\ cache' = Cleared(t) \cup {Entry(t, c, r[c]) : c \in DOMAIN r}
    BY DEF CacheRecord
<1>2. r \in RowsOf(t) /\ DOMAIN r = DOMAIN ColType[t]
    BY RowsFit
<1>3. /\ DOMAIN buf' = Tab /\ buf' = [u \in Tab |-> buf'[u]] /\ buf'[t] = r
      /\ \A u \in Tab : u # t => buf'[u] = buf[u]
    BY <1>1 DEF IInv
<1>4. \A u \in Tab : buf'[u] = NoRow \/ buf'[u] \in RowsOf(u)
    BY <1>2, <1>3 DEF IInv
<1>5. ASSUME NEW u \in Tab, Cached(u)', NEW c \in DOMAIN ColType[u]
      PROVE  Entry(u, c, buf'[u][c]) \in cache'
    <2>1. CASE u = t
        BY <1>1, <1>2, <1>3, <1>5, <2>1
    <2>2. CASE u # t
        <3>1. buf'[u] = buf[u] /\ Cached(u)
            BY <1>3, <1>5, <2>2 DEF Cached
        <3>2. Entry(u, c, buf[u][c]) \in cache
            BY <3>1 DEF IInv
        <3>3. Entry(u, c, buf[u][c]).tab = u
            BY EntryFields
        <3>. QED
            BY <1>1, <2>2, <3>1, <3>2, <3>3 DEF Cleared
    <2>. QED
        BY <2>1, <2>2
<1>6. ASSUME NEW e \in cache'
      PROVE  \E u \in Tab : \E c \in DOMAIN ColType[u] :
                Cached(u)' /\ e = Entry(u, c, buf'[u][c])
    <2>1. CASE e \in Cleared(t)
        <3>1. e \in cache /\ e.tab # t
            BY <2>1 DEF Cleared
        <3>0. PICK u \in Tab : \E c \in DOMAIN ColType[u] : Cached(u) /\ e = Entry(u, c, buf[u][c])
            BY <3>1 DEF IInv
        <3>2. PICK c \in DOMAIN ColType[u] : Cached(u) /\ e = Entry(u, c, buf[u][c])
            BY <3>0
        <3>3. u # t
            BY <3>1, <3>2, EntryFields
        <3>4. Cached(u)' /\ buf'[u] = buf[u]
            BY <1>3, <3>2, <3>3 DEF Cached
        <3>. QED
            BY <3>2, <3>4
    <2>2. CASE e \in {Entry(t, c, r[c]) : c \in DOMAIN r}
        <3>1. PICK c \in DOMAIN r : e = Entry(t, c, r[c])
            BY <2>2
        <3>2. r # NoRow
            <4>1. DOMAIN NoRow = {}
                BY DEF NoRow
            <4>. QED
                BY <3>1, <4>1
        <3>. QED
            BY <1>2, <1>3, <3>1, <3>2 DEF Cached
    <2>. QED
        BY <1>1, <2>1, <2>2
<1>. QED
    BY <1>3, <1>4, <1>5, <1>6 DEF IInv

(* A value in place of another, in the row and in the cache: unless NULL   *)
(* gives way to a value, which changes the cache alone.                    *)
LEMMA ModifyHolds ==
    ASSUME ~NullUpdates, IInv, NEW t \in Tab, NEW c \in DOMAIN ColType[t],
           NEW v \in Evaluated, ModifyCached(t, c, v)
    PROVE  IInv'
<1> DEFINE type == ColType[t][c]
           d == ExprToDb(v, type)
<1>1. /\ buf[t] # NoRow /\ TypeCompatible(type, v)
      /\ buf[t][c] # Null \/ d = Null
      /\ buf' = IF buf[t][c] = Null THEN buf ELSE [buf EXCEPT ![t][c] = d]
      /\ cache' = Replaced(t, c, ColumnToExpr(d, type))
    BY DEF ModifyCached
<1>2. d \in Fits(type)
    BY <1>1, Types, ValueFits
<1>3. PICK r \in RowsOf(t) : r = buf[t]
    BY <1>1 DEF IInv
<1>4. r \in [DOMAIN ColType[t] -> {Null} \cup String \cup Int]
      /\ \A k \in DOMAIN ColType[t] : r[k] \in Fits(ColType[t][k])
    BY DEF RowsOf
<1>. HIDE DEF d
<1>5. PICK q : q = [r EXCEPT ![c] = d]
    OBVIOUS
<1>6. /\ DOMAIN q = DOMAIN ColType[t] /\ q[c] = d
      /\ \A k \in DOMAIN ColType[t] : k # c => q[k] = r[k]
    BY <1>4, <1>5
<1>7. q \in RowsOf(t)
    <2>1. \A k \in DOMAIN ColType[t] : q[k] \in Fits(ColType[t][k])
        BY <1>2, <1>4, <1>6
    <2>2. q \in [DOMAIN ColType[t] -> {Null} \cup String \cup Int]
        BY <1>2, <1>4, <1>5 DEF Fits
    <2>. QED
        BY <2>1, <2>2 DEF RowsOf
<1>8. buf' = [buf EXCEPT ![t] = q]
    <2>1. CASE buf[t][c] = Null
        <3>1. d = r[c]
            BY <1>1, <1>3, <2>1
        <3>2. q = r
            BY <1>4, <1>5, <3>1
        <3>. QED
            BY <1>1, <1>3, <2>1, <3>2 DEF IInv
    <2>2. CASE buf[t][c] # Null
        BY <1>1, <1>3, <1>5, <2>2
    <2>. QED
        BY <2>1, <2>2
<1>9. /\ DOMAIN buf' = Tab /\ buf' = [u \in Tab |-> buf'[u]] /\ buf'[t] = q
      /\ \A u \in Tab : u # t => buf'[u] = buf[u]
    BY <1>8 DEF IInv
<1>10. q # NoRow
    <2>1. DOMAIN NoRow = {}
        BY DEF NoRow
    <2>. QED
        BY <1>6, <2>1
<1>11. \A u \in Tab : Cached(u)' <=> Cached(u)
    BY <1>1, <1>9, <1>10 DEF Cached
<1>12. \A u \in Tab : buf'[u] = NoRow \/ buf'[u] \in RowsOf(u)
    BY <1>7, <1>9 DEF IInv
<1>13. \A u \in Tab : Cached(u) => \A k \in DOMAIN ColType[u] :
           IF u = t /\ k = c
           THEN Entry(u, k, buf'[u][k]) = [Entry(u, k, buf[u][k]) EXCEPT !.val = ColumnToExpr(d, type)]
           ELSE Entry(u, k, buf'[u][k]) = Entry(u, k, buf[u][k])
    <2>1. ASSUME NEW u \in Tab, Cached(u), NEW k \in DOMAIN ColType[u], ~(u = t /\ k = c)
          PROVE  buf'[u][k] = buf[u][k]
        BY <1>3, <1>6, <1>9, <2>1
    <2>2. Entry(t, c, buf'[t][c]) = [Entry(t, c, buf[t][c]) EXCEPT !.val = ColumnToExpr(d, type)]
        BY <1>6, <1>9 DEF Entry
    <2>. QED
        BY <2>1, <2>2
<1>14. \A e : e \in cache' <=>
          \E f \in cache : e = IF f.col = c /\ f.tab = t
                               THEN [f EXCEPT !.val = ColumnToExpr(d, type)] ELSE f
    BY <1>1 DEF Replaced
<1>15. ASSUME NEW u \in Tab, Cached(u)', NEW k \in DOMAIN ColType[u]
       PROVE  Entry(u, k, buf'[u][k]) \in cache'
    <2>1. Cached(u) /\ Entry(u, k, buf[u][k]) \in cache
        BY <1>11, <1>15 DEF IInv
    <2>2. Entry(u, k, buf[u][k]).col = k /\ Entry(u, k, buf[u][k]).tab = u
        BY EntryFields
    <2>. QED
        BY <1>13, <1>14, <2>1, <2>2
<1>16. ASSUME NEW e \in cache'
       PROVE  \E u \in Tab : \E k \in DOMAIN ColType[u] :
                 Cached(u)' /\ e = Entry(u, k, buf'[u][k])
    <2>1. PICK f \in cache : e = IF f.col = c /\ f.tab = t
                                 THEN [f EXCEPT !.val = ColumnToExpr(d, type)] ELSE f
        BY <1>14
    <2>0. PICK u \in Tab : \E k \in DOMAIN ColType[u] : Cached(u) /\ f = Entry(u, k, buf[u][k])
        BY DEF IInv
    <2>2. PICK k \in DOMAIN ColType[u] : Cached(u) /\ f = Entry(u, k, buf[u][k])
        BY <2>0
    <2>3. f.col = k /\ f.tab = u
        BY <2>2, EntryFields
    <2>. QED
        BY <1>11, <1>13, <2>1, <2>2, <2>3
<1>. QED
    BY <1>9, <1>12, <1>15, <1>16 DEF IInv

LEMMA StepHolds ==
    ASSUME ~NullUpdates, IInv, [CacheNext]_<<buf, cache>>
    PROVE  IInv'
<1>1. CASE UNCHANGED <<buf, cache>>
    BY <1>1 DEF IInv, Cached
<1>2. CASE EndStatement
    BY <1>2, EndHolds
<1>3. ASSUME NEW t \in Tab, CacheRecord(t) PROVE IInv'
    BY <1>3, RecordHolds
<1>4. ASSUME NEW t \in Tab, NEW c \in DOMAIN ColType[t], NEW v \in Evaluated,
             ModifyCached(t, c, v)
      PROVE  IInv'
    BY <1>4, ModifyHolds
<1>. QED
    BY <1>1, <1>2, <1>3, <1>4 DEF CacheNext

-----------------------------------------------------------------------------
(* What a search finds. *)

LEMMA TypesHold == IInv => TypeOK
<1>. SUFFICES ASSUME IInv PROVE TypeOK
    OBVIOUS
<1>1. ASSUME NEW t \in Tab, buf[t] # NoRow, NEW c \in DOMAIN ColType[t]
      PROVE  buf[t][c] = Null \/ buf[t][c] \in (IF ColType[t][c] = "varchar" THEN String ELSE Int)
    BY <1>1 DEF IInv, RowsOf, Fits
<1>2. ASSUME NEW e \in cache
      PROVE  /\ e.tab \in Tab /\ e.col \in DOMAIN ColType[e.tab]
             /\ e.val.type \in {"null", TermOf[ColType[e.tab][e.col]]}
    <2>0. PICK t \in Tab : \E c \in DOMAIN ColType[t] : e = Entry(t, c, buf[t][c])
        BY DEF IInv
    <2>1. PICK c \in DOMAIN ColType[t] : e = Entry(t, c, buf[t][c])
        BY <2>0
    <2>2. e.tab = t /\ e.col = c /\ e.val = ColumnToExpr(buf[t][c], ColType[t][c])
        BY <2>1, EntryFields
    <2>. QED
        BY <2>2 DEF ColumnToExpr
<1>. QED
    BY <1>1, <1>2 DEF TypeOK

(* The entries of a name are those of the tables that own it.              *)
LEMMA Named ==
    ASSUME IInv, NEW c
    PROVE  /\ \A t \in Owners(c) : \E e \in cache :
                 e.col = c /\ e.tab = t /\ e.val = Shown(t, c)
           /\ \A e \in cache : /\ e.tab \in Tab
                               /\ buf[e.tab] # NoRow
                               /\ e.col = c => e.tab \in Owners(c) /\ e.val = Shown(e.tab, c)
           /\ \A e, f \in cache : e.col = c /\ f.col = c /\ e.tab = f.tab => e = f
<1>1. ASSUME NEW t \in Owners(c)
      PROVE  \E e \in cache : e.col = c /\ e.tab = t /\ e.val = Shown(t, c)
    <2>1. t \in Tab /\ Cached(t) /\ c \in DOMAIN ColType[t]
        BY DEF Owners, Cached
    <2>2. Entry(t, c, buf[t][c]) \in cache
        BY <2>1 DEF IInv
    <2>. QED
        BY <2>2, EntryFields DEF Shown
<1>2. ASSUME NEW e \in cache
      PROVE  /\ e.tab \in Tab /\ buf[e.tab] # NoRow
             /\ e.col = c => /\ e.tab \in Owners(c) /\ e.val = Shown(e.tab, c)
                             /\ e = Entry(e.tab, c, buf[e.tab][c])
    <2>0. PICK t \in Tab : \E k \in DOMAIN ColType[t] : Cached(t) /\ e = Entry(t, k, buf[t][k])
        BY DEF IInv
    <2>1. PICK k \in DOMAIN ColType[t] : Cached(t) /\ e = Entry(t, k, buf[t][k])
        BY <2>0
    <2>2. e.tab = t /\ e.col = k /\ e.val = ColumnToExpr(buf[t][k], ColType[t][k])
        BY <2>1, EntryFields
    <2>. QED
        BY <2>1, <2>2 DEF Owners, Cached, Shown
<1>. QED
    BY <1>1, <1>2

LEMMA FoundOf ==
    ASSUME IInv, NEW t \in Tab, NEW c \in DOMAIN ColType[t]
    PROVE  Found(t, c) = {IF t \in Owners(c) THEN Shown(t, c) ELSE Throw}
<1> DEFINE named == {e \in cache : e.col = c}
           own   == {e \in named : e.tab = t}
<1>1. t # NoTab
    BY ColumnAssumption DEF ColumnAssumption
<1>2. Found(t, c) = IF named = {} THEN {Throw}
                    ELSE IF own # {} THEN {e.val : e \in own}
                    ELSE {e.val : e \in {f \in cache : f.tab = t}} \cup {Throw}
    BY <1>1 DEF Found
<1>3. CASE t \in Owners(c)
    <2>1. PICK e \in own : e.val = Shown(t, c)
        BY <1>3, Named
    <2>2. \A f \in own : f.val = Shown(t, c)
        BY Named
    <2>3. {f.val : f \in own} = {Shown(t, c)}
        BY <2>1, <2>2
    <2>. QED
        BY <1>2, <1>3, <2>1, <2>3
<1>4. CASE t \notin Owners(c)
    <2>1. buf[t] = NoRow
        BY <1>4 DEF Owners
    <2>2. {f \in cache : f.tab = t} = {}
        BY <2>1, Named
    <2>3. own = {}
        BY <2>2
    <2>. QED
        BY <1>2, <1>4, <2>2, <2>3
<1>. QED
    BY <1>3, <1>4

LEMMA FoundAlone ==
    ASSUME IInv, NEW c \in Col
    PROVE  Found(NoTab, c) = {IF Cardinality(Owners(c)) = 1
                              THEN Shown(CHOOSE t \in Owners(c) : TRUE, c) ELSE Throw}
<1> DEFINE named == {e \in cache : e.col = c}
           tabs  == [e \in named |-> e.tab]
<1>1. Found(NoTab, c) = IF named = {} \/ Cardinality(named) > 1 THEN {Throw}
                        ELSE {e.val : e \in named}
    BY DEF Found
<1>2. IsFiniteSet(Owners(c))
    <2>1. Owners(c) \subseteq Tab
        BY DEF Owners
    <2>. QED
        BY <2>1, ColumnAssumption, FS_Subset DEF ColumnAssumption
<1>3. tabs \in Bijection(named, Owners(c))
    <2>1. tabs \in [named -> Owners(c)]
        BY Named
    <2>2. \A e, f \in named : tabs[e] = tabs[f] => e = f
        BY Named
    <2>3. \A t \in Owners(c) : \E e \in named : tabs[e] = t
        BY Named
    <2>. HIDE DEF tabs, named
    <2>. QED
        BY <2>1, <2>2, <2>3 DEF Bijection, Injection, Surjection, IsInjective
<1>. HIDE DEF named, tabs
<1>4. IsFiniteSet(named) /\ Cardinality(named) = Cardinality(Owners(c))
    <2>1. tabs \in Injection(named, Owners(c)) /\ tabs \in Surjection(named, Owners(c))
        BY <1>3 DEF Bijection
    <2>2. IsFiniteSet(named) /\ Cardinality(named) <= Cardinality(Owners(c))
        BY <1>2, <2>1, FS_Injection
    <2>3. Cardinality(Owners(c)) = Cardinality(named)
        BY <2>1, <2>2, FS_Surjection
    <2>. QED
        BY <2>2, <2>3
<1>5. Cardinality(named) \in Nat /\ (Cardinality(named) = 0 <=> named = {})
    BY <1>4, FS_CardinalityType, FS_EmptySet
<1>6. CASE Cardinality(named) = 1
    <2>1. PICK t : Owners(c) = {t}
        BY <1>2, <1>4, <1>6, FS_Singleton
    <2>2. (CHOOSE u \in Owners(c) : TRUE) = t
        BY <2>1
    <2>3. PICK e \in named : e.val = Shown(t, c)
        BY <2>1, Named DEF named
    <2>4. \A f \in named : f.val = Shown(t, c)
        BY <2>1, Named DEF named
    <2>5. {f.val : f \in named} = {Shown(t, c)}
        BY <2>3, <2>4
    <2>6. named # {} /\ ~(Cardinality(named) > 1)
        BY <1>5, <1>6
    <2>7. Found(NoTab, c) = {Shown(t, c)}
        BY <1>1, <2>5, <2>6
    <2>8. Cardinality(Owners(c)) = 1
        BY <1>4, <1>6
    <2>. QED
        BY <2>2, <2>7, <2>8
<1>7. CASE Cardinality(named) # 1
    <2>1. named = {} \/ Cardinality(named) > 1
        BY <1>5, <1>7
    <2>. QED
        BY <1>1, <1>4, <1>7, <2>1
<1>. QED
    BY <1>6, <1>7

LEMMA FoundExact ==
    ASSUME ~Stray, IInv
    PROVE  LookupExact
BY FoundOf, FoundAlone DEF LookupExact

(* expression::cache_clear(), cache_column() and cache_replace(): whatever *)
(* tables, columns and rows there are, and whatever is read, updated and   *)
(* dropped in whatever order, a column with its table has the value of the *)
(* row the table is at, one without has it if it is the only one of its    *)
(* name, and anything else stops the statement.  Not if UPDATE may turn a  *)
(* NULL into a value, and not for a column a table does not have.          *)
THEOREM ColumnsFound ==
    ASSUME ~NullUpdates, ~Stray
    PROVE  CacheSpec => []CacheExact
<1>1. CacheInit => IInv
    BY InitHolds
<1>2. IInv /\ [CacheNext]_<<buf, cache>> => IInv'
    BY StepHolds
<1>3. IInv => CacheExact
    BY TypesHold, FoundExact DEF CacheExact
<1>. QED
    BY <1>1, <1>2, <1>3, PTL DEF CacheSpec
=============================================================================
