-------------------------------- MODULE MCQuery --------------------------------
(* Tables, statements and indices for the model checking of Query. *)
EXTENDS Query

Columns == 1 .. 2
Values  == 1 .. 2

Of(a, b) == [c \in Columns |-> IF c = 1 THEN a ELSE b]

(* Duplicates on either side of the smallest key, NULLs before and after   *)
(* them, gaps between row ids.                                             *)
NoRows  == [r \in {} |-> Of(1, 1)]
Doubles == [r \in {1, 2, 3} |-> CASE r = 1 -> Of(2, 1) [] r = 2 -> Of(1, 2) [] r = 3 -> Of(2, 2)]
Nulls   == [r \in {2, 3} |-> IF r = 2 THEN Of(1, Null) ELSE Of(Null, 1)]
Twice   == [r \in {1, 3} |-> Of(1, 2)]

SomeContents == [1 .. N -> {NoRows, Doubles, Nulls, Twice}]
AllIndexings == [1 .. N -> SUBSET Columns]

Column(t, c) == [tab |-> t, col |-> c, val |-> Null, literal |-> FALSE]
Literal(v)   == [tab |-> 0, col |-> 1, val |-> v, literal |-> TRUE]
Expression(v) == [tab |-> 0, col |-> 1, val |-> v, literal |-> FALSE]

Cond(o, a, b) == [op |-> o, left |-> a, right |-> b]
Join(t, c, u, d) == Cond("eq", Column(t, c), Column(u, d))

Make(k, n, w, f, t, c) ==
    [kind |-> k, n |-> n, where |-> w, fold |-> f, tab |-> t, col |-> c, add |-> 1]

(* One table: every condition alone, and pairs of them. *)
Simple ==
    {Cond("eq", Column(1, c), Literal(v)) : c \in Columns, v \in {2, Null}}
    \cup {Cond("eq", Literal(1), Column(1, 2)), Cond("eq", Column(1, 1), Expression(2)),
          Cond("less", Column(1, 2), Literal(2)), Cond("less", Literal(1), Column(1, 1)),
          Cond("isnull", Column(1, 2), Literal(Null)), Join(1, 1, 1, 2)}

OneTable ==
    {Make(k, 1, w, f, 1, c) :
        k \in {"select", "update", "delete"}, f \in {"none", "sum", "min", "max"},
        c \in Columns,
        w \in {<<>>} \cup {<<x>> : x \in Simple} \cup {<<x, y>> : x, y \in Simple}}

(* An aggregate belongs to a SELECT, a column to change to an UPDATE. *)
OneTableStatements ==
    {s \in OneTable : /\ s.kind # "select" => s.fold = "none"
                      /\ s.kind = "delete" => s.col = 1
                      /\ s.kind = "select" /\ s.fold = "none" => s.col = 1}

(* Two tables: no condition, one, two of which both or none may use an     *)
(* index, a condition on one table besides.                                *)
TwoTables ==
    {Make("select", 2, w, f, 2, 2) :
        f \in {"none", "sum"},
        w \in {<<>>, <<Join(1, 1, 2, 1)>>, <<Join(2, 2, 1, 1)>>,
               <<Join(1, 1, 2, 1), Join(1, 2, 2, 2)>>,
               <<Join(1, 1, 2, 2), Join(2, 1, 1, 1)>>,
               <<Join(1, 1, 2, 1), Cond("less", Column(2, 2), Literal(2))>>,
               <<Cond("less", Column(1, 1), Column(2, 1)), Join(2, 1, 2, 2)>>}}

(* Three tables: a chain, a star, a cycle, a pair and a table besides. *)
ThreeTables ==
    {Make("select", 3, w, "none", 1, 1) :
        w \in {<<Join(1, 1, 2, 1), Join(2, 2, 3, 1)>>,
               <<Join(1, 1, 2, 1), Join(3, 2, 1, 2)>>,
               <<Join(1, 1, 2, 1), Join(2, 1, 3, 1), Join(3, 2, 1, 2)>>,
               <<Join(3, 1, 1, 1), Cond("isnull", Column(2, 2), Literal(Null))>>}}

SomeStatements == OneTableStatements \cup TwoTables \cup ThreeTables
=============================================================================
