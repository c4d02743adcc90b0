--------------------------------- MODULE Query ---------------------------------
(***************************************************************************)
(* SELECT, UPDATE and DELETE over their tables (src/src/database/dbms.cpp): *)
(* iterate() and the nested loops under it, each over all rows of a table  *)
(* or over the entries of an index from a key on.                          *)
(*                                                                         *)
(* Tables and indices keep the promise of ConstrainedRows and OrderedSet:  *)
(* a table is a function from its row ids, an index its rows by value and  *)
(* row id, NULL first.  The recursion of iterate_many_tables_impl() is the *)
(* level of the loop that runs, 1 the innermost.  Columns are integers, so *)
(* no condition throws; WHERE is a list of conditions joined by AND.       *)
(***************************************************************************)
EXTENDS Integers, Sequences, FiniteSets, FiniteSetsExt

CONSTANTS
    N,              \* bound: tables of a FROM list
    Col,            \* columns of each
    Value,          \* integers in rows and statements
    Null,
    MaxRid,         \* bound: row ids
    Contents,       \* bound: what the tables hold at first
    Indexings,      \* bound: which columns have an index
    Statements,     \* bound: the statements
    Residual,       \* bound: may WHERE say more than the condition an index
                    \* serves, in a statement on one table?
    Computed        \* bound: may that condition compare with an expression?

Rid   == 1 .. MaxRid
Datum == Value \cup {Null}
Row   == [Col -> Int \cup {Null}]

(* An operand is a column, a literal or (neither) an expression. *)
Operand  == [tab : 0 .. N, col : Col, val : Datum, literal : BOOLEAN]
IsColumn(o) == o.tab # 0
Condition == [op : {"eq", "less", "isnull"}, left : Operand, right : Operand]
Statement ==
    [kind  : {"select", "update", "delete"},
     n     : 1 .. N,                        \* tables in FROM
     where : Seq(Condition),
     fold  : {"none", "sum", "min", "max"}, \* COUNT is "none", AVG is "sum"
     tab   : 1 .. N,                        \* ... of this column, or
     col   : Col,                           \* SET col = col + add
     add   : Int]

ASSUME QueryAssumption ==
    /\ N \in Nat \ {0}
    /\ Value \subseteq Int
    /\ Null \notin Int
    /\ MaxRid \in Nat
    /\ \A c \in Contents :
          /\ c = [t \in 1 .. N |-> c[t]]
          /\ \A t \in 1 .. N : \E d \in SUBSET Rid : c[t] \in [d -> Row]
    /\ Indexings \subseteq [1 .. N -> SUBSET Col]
    /\ Statements \subseteq Statement
    /\ \A s \in Statements :
          /\ s.kind # "select" => s.n = 1 /\ s.fold = "none"
          /\ s.tab <= s.n
          /\ \A i \in DOMAIN s.where :
                s.where[i].left.tab <= s.n /\ s.where[i].right.tab <= s.n
    /\ Residual \in BOOLEAN
    /\ Computed \in BOOLEAN

(* What tables hold at first fits the words of records, as val_i does.     *)
IsWord(v) == -2147483647 - 1 <= v /\ v <= 2147483647

ASSUME WordAssumption ==
    \A c \in Contents : \A t \in 1 .. N : \A r \in DOMAIN c[t], k \in Col :
        c[t][r][k] # Null => IsWord(c[t][r][k])

VARIABLES
    stmt,       \* the statement
    indexed,    \* per table, its columns with an index
    before,     \* history: the tables when the statement began
    content,    \* the tables
    plan,       \* iteration order, length of the path, index conditions
    low,        \* the loop that runs; above stmt.n when none does
    rest,       \* per loop, the rows it has not come to
    at,         \* per table, the row its cache holds
    out,        \* the combinations of rows the callback had
    counter,    \* counter, succ_count + fail_count
    refused,    \* rows whose UPDATE the constraints refused
    acc,        \* val_i of an aggregate
    lastNull    \* whether agg_type is TERM_NULL, or nothing yet

vars == <<stmt, indexed, before, content, plan, low, rest, at, out, counter,
          refused, acc, lastNull>>

Tab == 1 .. stmt.n
Tuples == [Tab -> Rid]

-----------------------------------------------------------------------------
(* expression::eval() of a condition on the cached rows of m.              *)

ValueOf(cont, m, o) == IF IsColumn(o) THEN cont[o.tab][m[o.tab]][o.col] ELSE o.val

Holds(cont, m, c) ==
    LET a == ValueOf(cont, m, c.left)
        b == ValueOf(cont, m, c.right)
    IN  \/ c.op = "isnull" /\ a = Null
        \/ c.op = "eq"     /\ a # Null /\ b # Null /\ a = b
        \/ c.op = "less"   /\ a # Null /\ b # Null /\ a < b

Accepts(cont, m) ==
    \A i \in DOMAIN stmt.where : Holds(cont, m, stmt.where[i])

(* The combinations of rows the statement is about. *)
Matching ==
    {m \in Tuples : /\ \A t \in Tab : m[t] \in DOMAIN before[t]
                    /\ Accepts(before, m)}

-----------------------------------------------------------------------------
(* iterate_many_tables(): the conditions column = column make a graph with *)
(* an edge from a table whose column has an index to the other table, and  *)
(* a longest path in it gives the innermost loops.                         *)

Reads(o, ix, t) == o.tab = t /\ o.col \in ix[t]

JoinConditions(s, ix, t, u) ==
    {i \in DOMAIN s.where :
        /\ s.where[i].op = "eq"
        /\ \/ Reads(s.where[i].left, ix, t) /\ s.where[i].right.tab = u
           \/ Reads(s.where[i].right, ix, t) /\ s.where[i].left.tab = u}

OnPath(s, ix, p, d) ==
    \A l \in 1 .. d : JoinConditions(s, ix, p[l], p[l + 1]) # {}

(* Every table, and none twice. *)
Orders(n) ==
    {p \in [1 .. n -> 1 .. n] :
        /\ \A t \in 1 .. n : \E l \in 1 .. n : p[l] = t
        /\ \A i, j \in 1 .. n : p[i] = p[j] => i = j}

(* find_longest_path(): tables and neighbours are tried in their order, so *)
(* it is the first of the longest; the other tables follow in their order. *)
NotAfter(p, q, d) ==
    \/ \A l \in 1 .. d + 1 : p[l] = q[l]
    \/ \E l \in 1 .. d + 1 : p[l] < q[l] /\ \A k \in 1 .. l - 1 : p[k] = q[k]

IsIterationOrder(s, ix, p, d) ==
    /\ OnPath(s, ix, p, d)
    /\ \A q \in Orders(s.n) :
          /\ d + 1 < s.n => ~OnPath(s, ix, q, d + 1)
          /\ OnPath(s, ix, q, d) => NotAfter(p, q, d)
    /\ \A i, j \in d + 2 .. s.n : i < j => p[i] < p[j]

(* J[t][u]: the last condition that fits replaces the others.  Mutant: the *)
(* condition is not looked up by the table outside.                        *)
JoinConditionAny(s, ix, p, l, i) ==
    i \in UNION {JoinConditions(s, ix, p[l], u) : u \in 1 .. s.n}

JoinCondition(s, ix, p, l, i) ==
    /\ i \in JoinConditions(s, ix, p[l], p[l + 1])
    /\ \A j \in JoinConditions(s, ix, p[l], p[l + 1]) : j <= i

(* iterate_one_table_with_index(): the first condition column = no column  *)
(* whose column has an index; UPDATE does not use one.                     *)
KeyConditions(s, ix) ==
    {i \in DOMAIN s.where :
        LET c == s.where[i] IN
        /\ s.kind # "update"
        /\ c.op = "eq"
        /\ \/ Reads(c.left, ix, 1) /\ ~IsColumn(c.right)
           \/ Reads(c.right, ix, 1) /\ ~IsColumn(c.left)}

KeyCondition(s, ix, i) ==
    \/ i \in KeyConditions(s, ix) /\ \A j \in KeyConditions(s, ix) : i <= j
    \/ i = 0 /\ KeyConditions(s, ix) = {}

(* via[l] is the condition loop l uses an index for, or 0. *)
IsVia(s, ix, p, d, via) ==
    \A l \in 1 .. s.n :
        IF s.n = 1 THEN KeyCondition(s, ix, via[1])
        ELSE IF l <= d THEN JoinCondition(s, ix, p, l, via[l])
        ELSE via[l] = 0

-----------------------------------------------------------------------------
(* The rows a loop goes through, in the order of the tree it walks.        *)

Table(l) == plan.order[l]
ByIndex(l) == plan.via[l] # 0

(* Of the condition of loop l, the indexed column and what it must equal. *)
Serves(l) == stmt.where[plan.via[l]]
LeftIsOwn(l) == Serves(l).left.tab = Table(l)
Own(l)   == IF LeftIsOwn(l) THEN Serves(l).left ELSE Serves(l).right
Other(l) == IF LeftIsOwn(l) THEN Serves(l).right ELSE Serves(l).left

Less(a, b) == b # Null /\ (a # Null => a < b)

Entry(l, r) == content[Table(l)][r][Own(l).col]

(* Mutant of Precedes: entries come in the order of their rows. *)
PrecedesByRow(l, r, s) == r < s

Precedes(l, r, s) ==
    IF ByIndex(l)
    THEN Less(Entry(l, r), Entry(l, s)) \/ (Entry(l, r) = Entry(l, s) /\ r < s)
    ELSE r < s

(* The key: get_cached_column() of the table outside, or the literal; an   *)
(* expression leaves the key a null pointer, which is NULL to the index.   *)
Key(l, m) ==
    IF IsColumn(Other(l)) \/ Other(l).literal
    THEN ValueOf(content, m, Other(l)) ELSE Null

(* From the lower bound of the key.  Mutant: from its upper bound. *)
EntriesAbove(l, m) ==
    {r \in DOMAIN content[Table(l)] :
        ByIndex(l) => Less(Key(l, m), Entry(l, r))}

Entries(l, m) ==
    {r \in DOMAIN content[Table(l)] :
        ByIndex(l) => ~Less(Entry(l, r), Key(l, m))}

-----------------------------------------------------------------------------
(* Mutant of AccStart: val_i starts at 0 for every aggregate. *)
AccStartZero(op) == 0

AccStart(op) ==
    CASE op = "min" -> 2147483647
      [] op = "max" -> -2147483647 - 1
      [] OTHER      -> 0

Init ==
    /\ stmt \in Statements
    /\ indexed \in Indexings
    /\ before \in Contents
    /\ \A t \in stmt.n + 1 .. N : DOMAIN before[t] = {} /\ indexed[t] = {}
    /\ content = before
    /\ \E p \in Orders(stmt.n), d \in 0 .. stmt.n - 1 :
          /\ IsIterationOrder(stmt, indexed, p, d)
          /\ \E via \in [Tab -> 0 .. Len(stmt.where)] :
                /\ IsVia(stmt, indexed, p, d, via)
                /\ plan = [order |-> p, depth |-> d, via |-> via]
    /\ stmt.n = 1 /\ ByIndex(1) =>
          /\ Residual \/ Len(stmt.where) = 1
          /\ Computed \/ Other(1).literal
    /\ low = stmt.n
    /\ at = [t \in Tab |-> 0]
    /\ rest = [l \in Tab |-> IF l = low THEN Entries(l, at) ELSE {}]
    /\ out = {}
    /\ counter = 0
    /\ refused = {}
    /\ acc = AccStart(stmt.fold)
    /\ lastNull = TRUE

(* The next row of loop low goes to the cache of its table. *)
NextRow(r) ==
    /\ low <= stmt.n
    /\ r \in rest[low]
    /\ \A s \in rest[low] \ {r} : Precedes(low, r, s)

Cached(r) == [at EXCEPT ![Table(low)] = r]

(* The loop over an index goes on while its condition holds. *)
GoesOn(r) == ByIndex(low) => Holds(content, Cached(r), Serves(low))

(* The call for the next table inside. *)
Descend(r) ==
    /\ NextRow(r)
    /\ low > 1
    /\ GoesOn(r)
    /\ at' = Cached(r)
    /\ rest' = [rest EXCEPT ![low] = @ \ {r}, ![low - 1] = Entries(low - 1, at')]
    /\ low' = low - 1
    /\ UNCHANGED <<stmt, indexed, before, content, plan, out, counter, refused,
                   acc, lastNull>>

Break(r) ==
    /\ NextRow(r)
    /\ ~GoesOn(r)
    /\ at' = Cached(r)
    /\ rest' = [rest EXCEPT ![low] = {}]
    /\ UNCHANGED <<stmt, indexed, before, content, plan, low, out, counter,
                   refused, acc, lastNull>>

Return ==
    /\ low <= stmt.n
    /\ rest[low] = {}
    /\ low' = low + 1
    /\ UNCHANGED <<stmt, indexed, before, content, plan, rest, at, out, counter,
                   refused, acc, lastNull>>

-----------------------------------------------------------------------------
(* The innermost loop: all of WHERE, unless it is the only loop and uses   *)
(* an index, and the callback of the statement.                            *)

Passes(m) == (stmt.n = 1 /\ ByIndex(1)) \/ Accepts(content, m)

(* select_rows_aggregate(): an aggregate folds val_i, set or not. *)
Folded(op, v) ==
    CASE op = "sum" -> acc + v
      [] op = "min" -> IF v < acc THEN v ELSE acc
      [] op = "max" -> IF v > acc THEN v ELSE acc

Selected(m) ==
    /\ IF stmt.fold = "none" THEN UNCHANGED <<acc, lastNull>>
       ELSE LET v == content[stmt.tab][m[stmt.tab]][stmt.col] IN
            /\ \E w \in IF v = Null THEN Value ELSE {v} :
                  acc' = Folded(stmt.fold, w)
            /\ lastNull' = (v = Null)
    /\ UNCHANGED <<content, refused>>

(* update_rows(): modify_record(), which the constraints may refuse. *)
Patched(row) ==
    [row EXCEPT ![stmt.col] = IF @ = Null THEN Null ELSE @ + stmt.add]

(* Mutant of Updated: the row is written before the checks. *)
UpdatedAnyway(r) ==
    /\ content' = [content EXCEPT ![1][r] = Patched(@)]
    /\ \E ok \in BOOLEAN : refused' = IF ok THEN refused ELSE refused \cup {r}
    /\ UNCHANGED <<acc, lastNull>>

Updated(r) ==
    /\ \E ok \in BOOLEAN :
          /\ content' = IF ok THEN [content EXCEPT ![1][r] = Patched(@)] ELSE content
          /\ refused' = IF ok THEN refused ELSE refused \cup {r}
    /\ UNCHANGED <<acc, lastNull>>

(* delete_rows() lists the row: out is its delete_list. *)
Listed == UNCHANGED <<content, refused, acc, lastNull>>

Innermost(r) ==
    /\ NextRow(r)
    /\ low = 1
    /\ GoesOn(r)
    /\ at' = Cached(r)
    /\ rest' = [rest EXCEPT ![1] = @ \ {r}]
    /\ IF Passes(at')
       THEN /\ out' = out \cup {at'}
            /\ counter' = counter + 1
            /\ CASE stmt.kind = "select" -> Selected(at')
                 [] stmt.kind = "update" -> Updated(r)
                 [] stmt.kind = "delete" -> Listed
       ELSE UNCHANGED <<out, counter, content, refused, acc, lastNull>>
    /\ UNCHANGED <<stmt, indexed, before, plan, low>>

(* delete_rows() after the iteration. *)
RemoveListed ==
    /\ low > stmt.n
    /\ stmt.kind = "delete"
    /\ \E m \in out :
          /\ m[1] \in DOMAIN content[1]
          /\ content' = [content EXCEPT ![1] =
                [r \in DOMAIN @ \ {m[1]} |-> @[r]]]
    /\ UNCHANGED <<stmt, indexed, before, plan, low, rest, at, out, counter,
                   refused, acc, lastNull>>

Next ==
    \/ \E r \in Rid : Descend(r) \/ Break(r) \/ Innermost(r)
    \/ Return
    \/ RemoveListed

(* A statement runs to its end. *)
Spec == Init /\ [][Next]_vars /\ WF_vars(Next)
-----------------------------------------------------------------------------
Ended == low > stmt.n
Finished == Ended /\ (stmt.kind = "delete" => \A m \in out : m[1] \notin DOMAIN content[1])

(* The loops have not come to m: it agrees with the rows some loop and the *)
(* loops outside it are at, and that loop still has its row to come to.    *)
Ahead(m) ==
    \E l \in Tab :
        /\ m[Table(l)] \in rest[l]
        /\ \A k \in l + 1 .. stmt.n : m[Table(k)] = at[Table(k)]

(* However the tables are ordered, whatever indices the loops use and      *)
(* wherever they break off: a combination of rows that WHERE accepts was   *)
(* either given to the callback or is still ahead, and never both.         *)
NothingLost == \A m \in Matching : m \in out <=> ~Ahead(m)

(* A loop over an index takes its key from a row the loop outside is at.   *)
KeysAreCurrent ==
    \A l \in Tab :
        ByIndex(l) /\ stmt.n > 1 =>
            /\ l < stmt.n
            /\ Own(l).tab = Table(l) /\ Own(l).col \in indexed[Table(l)]
            /\ Other(l).tab = Table(l + 1)
            /\ low <= l => at[Table(l + 1)] \in DOMAIN content[Table(l + 1)]

(* The whole of what iterate() promises, its end included. *)
Once == INSTANCE RowsOnce WITH
    wanted <- Matching, given <- out, calls <- counter, ended <- Ended

ImplementsRowsOnce == Once!Iteration

(* UPDATE changes every row its WHERE accepted before the statement, once, *)
(* unless the constraints refused it, although it writes the table it      *)
(* walks; DELETE removes exactly those rows; no other row changes.         *)
Effect ==
    Finished =>
        content = [t \in DOMAIN before |->
            IF t # 1 \/ stmt.kind = "select" THEN before[t]
            ELSE IF stmt.kind = "delete"
            THEN [r \in {s \in DOMAIN before[1] : [u \in Tab |-> s] \notin Matching}
                    |-> before[1][r]]
            ELSE [r \in DOMAIN before[1] |->
                    IF [u \in Tab |-> r] \in Matching /\ r \notin refused
                    THEN Patched(before[1][r]) ELSE before[1][r]]]

(* An aggregate over a column without NULLs is that of the rows WHERE      *)
(* accepts.                                                                *)
Aggregated(m) == before[stmt.tab][m[stmt.tab]][stmt.col]

AggregateExact ==
    (Ended /\ stmt.fold # "none" /\ (\A m \in Matching : Aggregated(m) # Null)) =>
        LET vs == {Aggregated(m) : m \in Matching} IN
        /\ lastNull <=> Matching = {}
        /\ Matching # {} =>
              CASE stmt.fold = "sum" -> acc = MapThenSumSet(Aggregated, Matching)
                [] stmt.fold = "min" -> acc \in vs /\ \A v \in vs : acc <= v
                [] stmt.fold = "max" -> acc \in vs /\ \A v \in vs : acc >= v

(* The variables keep their types: the plan is an order of the tables of    *)
(* FROM, and the loops are over rows.                                      *)
TypeOK ==
    /\ stmt \in Statement
    /\ plan.order \in [Tab -> Tab]
    /\ \A t \in Tab : \E l \in Tab : plan.order[l] = t
    /\ plan.via \in [Tab -> 0 .. Len(stmt.where)]
    /\ low \in 1 .. stmt.n + 1
    /\ rest \in [Tab -> SUBSET Rid]
    /\ at \in [Tab -> {0} \cup Rid]
    /\ out \subseteq Tuples
    /\ counter \in Nat
    /\ refused \subseteq Rid

(* The loops run in an order of the tables, each over rows of its own, and *)
(* under a key read from a row that is still the one outside.              *)
LoopsSound == TypeOK /\ KeysAreCurrent
=============================================================================
