--------------------------------- MODULE MCExpr ---------------------------------
(* Two tables, p (a, b, d) and i (a, f), and conditions on them: every form *)
(* of a comparison, with operands of equal, unequal and no type, and pairs *)
(* of some of them under AND and OR.                                       *)
EXTENDS Expr

CONSTANTS ann, Ann, bob, blank, day     \* strings

Tables ==
    [p |-> [a |-> "int", b |-> "varchar", d |-> "date"],
     i |-> [a |-> "int", f |-> "float"]]

Strings    == {ann, Ann, bob, blank, day}
LowerCase  == [s \in Strings |-> IF s = Ann THEN ann ELSE s]
InWords    == [s \in Strings |-> IF s = blank THEN <<ann, bob>> ELSE <<s>>]
Dates      == [s \in {day} |-> 5]
Matches    == {<<ann, ann>>, <<bob, bob>>, <<bob, Ann>>}    \* Ann is a pattern, too
Data       == [int |-> {0, 1}, float |-> {0, 1}, date |-> {5}, varchar |-> {ann, bob}]

Lit(type, v)  == [op |-> "none", type |-> type, val |-> v]
Column(t, c)  == [op |-> "none", type |-> "column", tab |-> t, col |-> c]
List(l)       == [op |-> "none", type |-> "list", list |-> l]
Un(op, e)     == [op |-> op, left |-> e]
Bin(op, x, y) == [op |-> op, left |-> x, right |-> y]

pa == Column("p", "a")
pb == Column("p", "b")
pd == Column("p", "d")
ia == Column("i", "a")
if == Column("i", "f")
a  == Column(NoTab, "a")
b  == Column(NoTab, "b")
none == Lit("null", 0)

Comparisons ==
    {Bin(op, x, y) : op \in {"eq", "lt", "geq"}, x \in {pa, a},
        y \in {Lit("int", 1), ia, Bin("add", pa, Lit("int", 1)), none}}
    \cup {Bin(op, pa, y) : op \in {"neq", "leq", "gt"}, y \in {Un("negate", ia), Lit("float", 1)}}
    \cup {Bin(op, x, y) : op \in {"eq", "neq", "like", "lt"}, x \in {pb, b},
        y \in {Lit("string", Ann), Lit("date", day), none}}
    \cup {Bin(op, pd, y) : op \in {"neq", "leq"}, y \in {Lit("date", day), Lit("string", ann)}}
    \cup {Bin("gt", if, y) : y \in {Lit("float", 0), Lit("float", 1234560), Bin("mul", if, if), Lit("int", 1)}}

Listed ==
    {Bin("in", x, List(<<Lit("int", 2), Lit("int", 1)>>)) : x \in {pa, a, none, pb}}
    \cup {Bin("in", pa, List(l)) : l \in {<<Lit("int", 1), Lit("string", ann)>>,
                                          <<Lit("string", ann), Lit("int", 1)>>}}
    \cup {Bin("in", pb, List(<<Lit("date", day), Lit("string", bob)>>)),
          Bin("in", pd, List(<<Lit("date", day)>>)),
          Bin("in", if, List(<<Lit("float", 1)>>))}

(* Divisions, of floats by what gives whole numbers or by 0.               *)
Divisions ==
    {Bin(op, Bin("div", x, y), Lit("int", 0)) : op \in {"eq", "gt"},
        x \in {pa, Lit("int", 3)}, y \in {ia, Lit("int", 0), Lit("int", -2), none}}
    \cup {Bin(op, Bin("div", x, if), y) : op \in {"eq", "neq", "lt"},
            x \in {if, Lit("float", 2)}, y \in {if, Lit("float", 1)}}
    \cup {Bin("or", Bin("eq", pa, pa), Bin("eq", Bin("div", ia, pa), ia)),
          Un("isnull", Bin("div", none, ia)), Un("isnull", Bin("div", pa, ia))}

Nulls ==
    {Un(op, x) : op \in {"isnull", "notnull"},
        x \in {pa, b, pd, if, Bin("add", pa, ia)}}

Some ==
    {Bin("eq", pa, Lit("int", 1)), Bin("lt", ia, pa), Bin("neq", pb, Lit("string", Ann)),
     Bin("in", pa, List(<<Lit("int", 2), Lit("int", 1)>>)),
     Un("isnull", ia), Un("notnull", pb), Lit("bool", 1), Lit("bool", 0)}

Plain ==
    Comparisons \cup Listed \cup Divisions \cup Nulls \cup Some
    \cup {Un("not", x) : x \in Some}
    \cup {Bin(op, x, y) : op \in {"and", "or"}, x \in Some, y \in Some}
    \cup {Bin("or", Un("isnull", pa), Bin("and", x, Bin("eq", ia, pa))) : x \in Some}

(* A list with a string that differs from a row's in case only. *)
CaseLists == {Bin("in", pb, List(<<Lit("string", Ann)>>))}

(* Strings of two words in a CHECK. *)
Blanks == {Bin("neq", pb, Lit("string", blank))}

(* A float of seven digits in a CHECK, and one it takes for a smaller one. *)
Longs    == {Bin("lt", if, Lit("float", 1234567))}
LongData == [Data EXCEPT !["float"] = {1, 1234568}]

(* What UPDATE assigns, a division among it. *)
Terms ==
    {Lit("int", 1), Lit("string", bob), Lit("date", day), none, Bin("div", pa, Lit("int", 2))}
=============================================================================
