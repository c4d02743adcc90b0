---------------------------------- MODULE Expr ----------------------------------
(***************************************************************************)
(* Conditions (src/src/expression): how WHERE and CHECK are evaluated on   *)
(* the cache of columns (ColumnCache), and the text in the table header a  *)
(* CHECK is kept in.                                                       *)
(*                                                                         *)
(* A node is a record: a literal, a column, a list of literals, or an      *)
(* operator over left and right.  A throw is a value that stops the        *)
(* evaluation, and so is what a process ends with or nobody can tell.      *)
(* Integers are not bounded.  Floats are whole numbers, one zero among     *)
(* them, and what a division by it gives; of other quotients nobody can    *)
(* tell.  A string is a name; Words says what its text is made of.         *)
(***************************************************************************)
EXTENDS ColumnCache, SequencesExt, FiniteSetsExt

CONSTANTS
    Folded,     \* per string, what it is in lower case
    Words,      \* per string, the words blanks divide it into
    Like,       \* the pairs of a string and a pattern it matches
    Conditions, \* bound: the conditions
    Assigned,   \* bound: the expressions UPDATE assigns
    Infinity,   \* bound: a number above every float of the model
    NaN,        \* the float that is no number
    MaxText,    \* MAX_CHECK_CONSTRAINT_LEN, in words
    Unstorable  \* bound: may a CHECK hold what its text loses?

Compare    == {"eq", "neq", "leq", "geq", "lt", "gt"}
Arithmetic == {"add", "minus", "mul", "div"}
Unary      == {"negate", "isnull", "notnull", "not"}

ASSUME ExprAssumption ==
    /\ Folded \in [String -> String]
    /\ Words \in [String -> Seq(String)]
    /\ \A s, u \in DOMAIN DateOf : DateOf[s] = DateOf[u] => s = u
    /\ MaxText \in Nat
    /\ Infinity \in Nat
    /\ NaN \notin Int
    /\ Unstorable \in BOOLEAN

VARIABLES
    cond,   \* a condition as it was parsed
    text,   \* header.check_constaints[0]: what CREATE TABLE keeps of it
    check   \* check_conds[0] of the open table

vars == <<cond, text, check, buf, cache>>

NoText   == <<>>
NotOpen  == [op |-> "none", type |-> "unread"]

Init ==
    /\ cond \in Conditions
    /\ text = NoText
    /\ check = NotOpen
    /\ CacheInit

Dies     == [type |-> "dies", val |-> 0]
Anything == [type |-> "anything", val |-> 0]
Stops(v) == v \in {Throw, Dies, Anything}

-----------------------------------------------------------------------------
(* expression::eval() *)

Bool(b)   == [type |-> "bool", val |-> IF b THEN 1 ELSE 0]
NullValue == [type |-> "null", val |-> 0]

EvalTerminal(e) ==
    CASE e.type = "column" -> CHOOSE v \in Found(e.tab, e.col) : TRUE
      [] e.type = "date" ->
            IF e.val = Null THEN Dies       \* std::string(nullptr)
            ELSE IF e.val \in DOMAIN DateOf THEN [type |-> "date", val |-> DateOf[e.val]]
            ELSE [type |-> "string", val |-> e.val]
      [] e.type \in {"unread", "anything"} -> Anything
      [] e.type = "list" -> [type |-> "list", val |-> 0, list |-> e.list]
      [] OTHER -> [type |-> e.type, val |-> e.val]

(* NaN is neither equal to anything nor more or less.                      *)
Compared(op, a, b) ==
    CASE NaN \in {a, b} -> op = "neq"
      [] op = "eq"  -> a = b
      [] op = "neq" -> a # b
      [] op = "leq" -> a <= b
      [] op = "geq" -> a >= b
      [] op = "lt"  -> a < b
      [] op = "gt"  -> a > b

(* Division of int truncates. *)
Quotient(a, b) ==
    LET q == (IF a < 0 THEN -a ELSE a) \div (IF b < 0 THEN -b ELSE b)
    IN  IF (a < 0) = (b < 0) THEN q ELSE -q

Calculated(op, a, b) ==
    CASE op = "add"    -> a + b
      [] op = "minus"  -> a - b
      [] op = "mul"    -> a * b
      [] op = "div"    -> Quotient(a, b)
      [] op = "negate" -> -a

(* An int divided by 0 ends the process; a float does not.                 *)
Arithmetics(op, a, b) ==
    LET zero == op = "div" /\ b.val = 0
        result(v) == [type |-> a.type, val |-> v]
    IN  CASE {a.val, b.val} \cap {Infinity, -Infinity, NaN} # {} -> Anything
          [] zero /\ a.type = "int" -> Dies
          [] zero -> result(IF a.val = 0 THEN NaN
                            ELSE IF a.val < 0 THEN -Infinity ELSE Infinity)
          [] op = "div" /\ a.type = "float" /\ Quotient(a.val, b.val) * b.val # a.val ->
                Anything
          [] OTHER -> result(Calculated(op, a.val, b.val))

EvalNumbers(op, a, b) ==
    CASE op \in Compare -> Bool(Compared(op, a.val, b.val))
      [] op \in Arithmetic \cup {"negate"} -> Arithmetics(op, a, b)
      [] OTHER -> Throw

EvalDates(op, a, b) ==
    IF op \in Compare THEN Bool(Compared(op, a.val, b.val)) ELSE Throw

EvalBools(op, a, b) ==
    CASE op = "and" -> Bool(a.val = 1 /\ b.val = 1)
      [] op = "or"  -> Bool(a.val = 1 \/ b.val = 1)
      [] op \in {"eq", "neq"} -> Bool(Compared(op, a.val, b.val))
      [] OTHER -> Throw

EvalStrings(op, a, b) ==
    CASE op \in {"eq", "neq"} -> Bool(Compared(op, Folded[a.val], Folded[b.val]))
      [] op = "like" -> Bool(<<a.val, b.val>> \in Like)
      [] OTHER -> Throw

(* eval_null_operands().  Mutant: IS NOT NULL is forgotten. *)
EvalNullIsNull(op) == IF op = "isnull" THEN Bool(TRUE) ELSE NullValue

EvalNull(op) ==
    CASE op = "isnull"  -> Bool(TRUE)
      [] op = "notnull" -> Bool(FALSE)
      [] OTHER -> NullValue

Applied(op, a, b) ==
    CASE a.type = "null" -> EvalNull(op)
      [] a.type \in {"int", "float", "date", "bool", "string"} /\ op \in {"isnull", "notnull"} ->
            Bool(op = "notnull")
      [] a.type \in {"int", "float"} -> EvalNumbers(op, a, b)
      [] a.type = "date"   -> EvalDates(op, a, b)
      [] a.type = "bool"   -> EvalBools(op, a, b)
      [] a.type = "string" -> EvalStrings(op, a, b)
      [] OTHER -> Throw

(* eval_in_expression(): a literal of another type throws, unless a        *)
(* literal before it is equal.  Mutant: a date is no string.               *)
MayCompareExactly(type, lit) == lit.type = type

MayCompare(type, lit) ==
    \/ type \in {"int", "float", "date"} /\ lit.type = type
    \/ type = "string" /\ lit.type \in {"string", "date"}

Equals(a, lit) ==
    IF a.type = "date" THEN lit.val \in DOMAIN DateOf /\ a.val = DateOf[lit.val]
    ELSE a.val = lit.val

EvalIn(a, list) ==
    LET decides == {i \in DOMAIN list :
                      MayCompare(a.type, list[i]) /\ list[i].val # Null => Equals(a, list[i])}
        lit == list[Min(decides)]
    IN  CASE a.type = "null" \/ decides = {} -> Bool(FALSE)
          [] ~MayCompare(a.type, lit) -> Throw
          [] lit.val = Null    -> Dies
          [] OTHER             -> Bool(TRUE)

(* Both sides are evaluated, the left one first. *)
EvalBinary(op, a, b) ==
    CASE Stops(a) -> a
      [] Stops(b) -> b
      [] b.type = "null" -> NullValue
      [] op = "in" -> EvalIn(a, b.list)
      [] a.type \notin {"null", b.type} -> Throw
      [] OTHER -> Applied(op, a, b)

RECURSIVE Eval(_)
Eval(e) ==
    CASE e.op = "none" -> EvalTerminal(e)
      [] e.op \in Unary ->
            LET a == Eval(e.left) IN IF Stops(a) THEN a ELSE Applied(e.op, a, a)
      [] OTHER -> EvalBinary(e.op, Eval(e.left), Eval(e.right))

-----------------------------------------------------------------------------
(* dump_exprnode(): operators before operands, words with blanks between   *)
(* them.  The code writes numbers for operators and types.                 *)

(* Mutant: the name of the table is forgotten. *)
DumpColumnOnly(e) == << <<"count", 1>>, <<"word", e.col>> >>

DumpColumn(e) ==
    IF e.tab = NoTab THEN << <<"count", 1>>, <<"word", e.col>> >>
    ELSE << <<"count", 2>>, <<"word", e.tab>>, <<"word", e.col>> >>

(* A stream writes a float with six digits, the last one rounded.          *)
SixDigits(n) ==
    LET size == IF n < 0 THEN -n ELSE n
        unit == Min({u \in {1, 10, 100, 1000} : size \div u < 1000000})
        twice == 2 * (size % unit)
        kept  == size \div unit
        up    == twice > unit \/ (twice = unit /\ kept % 2 = 1)
        digits == (IF up THEN kept + 1 ELSE kept) * unit
    IN  IF n < 0 THEN -digits ELSE digits

RECURSIVE Dump(_)
Dump(e) ==
    << <<"op", e.op>> >> \o
    CASE e.op \in Unary -> Dump(e.left)
      [] e.op # "none"  -> Dump(e.left) \o Dump(e.right)
      [] OTHER -> << <<"type", e.type>> >> \o
            CASE e.type \in {"int", "bool"} -> << <<e.type, e.val>> >>
              [] e.type = "float"  -> << <<"float", SixDigits(e.val)>> >>
              [] e.type = "string" -> [i \in DOMAIN Words[e.val] |-> <<"word", Words[e.val][i]>>]
              [] e.type = "column" -> DumpColumn(e)
              [] e.type = "list" ->
                    << <<"count", Len(e.list)>> >>
                        \o FlattenSeq([i \in DOMAIN e.list |-> Dump(e.list[i])])
              [] OTHER -> <<>>      \* NULL, and a date: its value is left out

(* FALSE is written as the character 0, where strcpy() ends the text. *)
CutAt(s) == {i \in DOMAIN s : s[i] = <<"bool", 0>>}
Stored(e) == LET s == Dump(e) IN IF CutAt(s) = {} THEN s ELSE SubSeq(s, 1, Min(CutAt(s)) - 1)

(* load_exprnode(): what was read, and what is left of the text.  After a  *)
(* word that is none of the kind asked for, nothing is known.              *)
Lost == [tree |-> [op |-> "none", type |-> "anything"], rest |-> <<>>]

Starts(s, kind) == s # <<>> /\ Head(s)[1] = kind

LoadColumn(s) ==
    IF Head(s)[2] = 2
    THEN [tree |-> [op |-> "none", type |-> "column", tab |-> s[2][2], col |-> s[3][2]],
          rest |-> SubSeq(s, 4, Len(s))]
    ELSE [tree |-> [op |-> "none", type |-> "column", tab |-> NoTab, col |-> s[2][2]],
          rest |-> SubSeq(s, 3, Len(s))]

LoadTerminal(type, s) ==
    LET leaf(val, rest) == [tree |-> [op |-> "none", type |-> type, val |-> val], rest |-> rest]
    IN  CASE type \in {"int", "float"} ->
                IF Starts(s, type) THEN leaf(Head(s)[2], Tail(s)) ELSE Lost
          [] type = "bool" ->
                IF Starts(s, type) THEN leaf(Head(s)[2], Tail(s)) ELSE leaf(0, s)
          [] type = "string" ->     \* any word, or nothing at the end
                IF s = <<>> THEN leaf(CHOOSE e \in String : Words[e] = <<>>, s)
                ELSE leaf(Head(s)[2], Tail(s))
          [] type = "column" -> LoadColumn(s)
          [] type = "date"   -> leaf(Null, s)
          [] OTHER           -> leaf(0, s)

(* The list is built from its head on, so it is reversed. *)
RECURSIVE Load(_)
Load(s) ==
    LET RECURSIVE LoadList(_, _, _)
        LoadList(n, r, list) ==
            IF n = 0
            THEN [tree |-> [op |-> "none", type |-> "list", list |-> list], rest |-> r]
            ELSE LET next == Load(r) IN LoadList(n - 1, next.rest, <<next.tree>> \o list)
    IN  IF ~Starts(s, "op") THEN Lost
        ELSE LET op == Head(s)[2]
                 r  == Tail(s)
             IN  IF op \in Unary
                 THEN LET a == Load(r)
                      IN  [tree |-> [op |-> op, left |-> a.tree], rest |-> a.rest]
                 ELSE IF op # "none"
                 THEN LET a == Load(r)
                          b == Load(a.rest)
                      IN  [tree |-> [op |-> op, left |-> a.tree, right |-> b.tree],
                           rest |-> b.rest]
                 ELSE IF ~Starts(r, "type") THEN Lost
                 ELSE IF Head(r)[2] = "list" THEN LoadList(r[2][2], SubSeq(r, 3, Len(r)), <<>>)
                 ELSE LoadTerminal(Head(r)[2], Tail(r))

RECURSIVE Leaves(_)
Leaves(e) ==
    CASE e.op \in Unary -> Leaves(e.left)
      [] e.op # "none"  -> Leaves(e.left) \cup Leaves(e.right)
      [] e.type = "list" -> Range(e.list)
      [] OTHER -> {e}

Storable(e) ==
    \A l \in Leaves(e) :
        /\ l.type # "date"
        /\ l.type = "string" => Words[l.val] = <<l.val>>
        /\ l.type = "bool" => l.val = 1
        /\ l.type = "float" => SixDigits(l.val) = l.val

-----------------------------------------------------------------------------
(* Statements.  Each ends with an empty cache (__cache_clear_guard).       *)

(* fill_table_header() *)
CreateTable ==
    /\ cache = {} /\ text = NoText
    /\ Len(Dump(cond)) < MaxText
    /\ Unstorable \/ Storable(cond)
    /\ text' = Stored(cond)
    /\ UNCHANGED <<cond, check, buf, cache>>

(* load_check_constraints(), free_check_constraints() *)
OpenTable ==
    /\ cache = {} /\ text # NoText /\ check = NotOpen
    /\ check' = Load(text).tree
    /\ UNCHANGED <<cond, text, buf, cache>>

CloseTable ==
    /\ cache = {} /\ check # NotOpen
    /\ check' = NotOpen
    /\ UNCHANGED <<cond, text, buf, cache>>

(* update_rows(): nothing is modified if eval() throws.                    *)
Update(t, c, e) ==
    /\ ~Stops(Eval(e))
    /\ ModifyCached(t, c, Eval(e))

Next ==
    \/ CreateTable \/ OpenTable \/ CloseTable
    \/ /\ \/ EndStatement
          \/ \E t \in Tab :
                \/ CacheRecord(t)
                \/ \E c \in DOMAIN ColType[t], e \in Assigned : Update(t, c, e)
       /\ UNCHANGED <<cond, text, check>>

Spec == Init /\ [][Next]_vars

-----------------------------------------------------------------------------
(* What conditions mean: types by the form of the condition, and logic     *)
(* with three values.                                                      *)

Owner(e) == IF e.tab = NoTab THEN CHOOSE t \in Owners(e.col) : TRUE ELSE e.tab

Resolvable(e) ==
    \A l \in Leaves(e) : l.type = "column" =>
        IF l.tab = NoTab THEN Cardinality(Owners(l.col)) = 1 ELSE l.tab \in Owners(l.col)

Common(s, t) == IF s = "null" THEN t ELSE IF t \in {s, "null"} THEN s ELSE "bad"

LiteralType(e) ==
    IF e.type = "date" /\ e.val \notin DOMAIN DateOf THEN "string" ELSE e.type

(* A list compares anything but booleans, and a date as a string, too. *)
FitsInList(type, lit) ==
    \/ type # "bool" /\ lit = type
    \/ type = "string" /\ lit = "date"

(* NOT is in the grammar and no type supports it. *)
RECURSIVE TypeOf(_)
TypeOf(e) ==
    LET s == TypeOf(e.left)
        t == TypeOf(e.right)
        both == Common(s, t)
    IN  CASE e.op = "none" ->
                IF e.type = "column" THEN TermOf[ColType[Owner(e)][e.col]] ELSE LiteralType(e)
          [] e.op = "not" -> "bad"
          [] e.op = "negate" -> IF s \in {"int", "float", "null"} THEN s ELSE "bad"
          [] e.op \in {"isnull", "notnull"} -> IF s = "bad" THEN "bad" ELSE "bool"
          [] e.op \in Arithmetic ->
                IF both \in {"int", "float", "null"} THEN both ELSE "bad"
          [] e.op \in {"and", "or"} -> IF both = "bool" THEN "bool" ELSE "bad"
          [] e.op \in {"eq", "neq"} -> IF both = "bad" THEN "bad" ELSE "bool"
          [] e.op = "like" -> IF both \in {"string", "null"} THEN "bool" ELSE "bad"
          [] e.op = "in" ->
                IF s = "null" \/ \A l \in Range(e.right.list) : FitsInList(s, l.type)
                THEN "bool" ELSE "bad"
          [] OTHER -> IF both \in {"int", "float", "date", "null"} THEN "bool" ELSE "bad"

WellFormed(e) == Resolvable(e) /\ TypeOf(e) = "bool"

RECURSIVE Value(_)
Value(e) ==
    CASE e.op = "none" /\ e.type = "column" -> Shown(Owner(e), e.col)
      [] e.op = "none" /\ LiteralType(e) = "date" -> [type |-> "date", val |-> DateOf[e.val]]
      [] e.op = "none" -> [type |-> LiteralType(e), val |-> e.val]
      [] e.op = "negate" /\ Value(e.left) # NullValue ->
            [Value(e.left) EXCEPT !.val = -@]
      [] e.op \in Arithmetic /\ NullValue \notin {Value(e.left), Value(e.right)} ->
            Arithmetics(e.op, Value(e.left), Value(e.right))
      [] OTHER -> NullValue

Known(b) == IF b THEN "true" ELSE "false"

Same(a, b) ==
    IF a.type = "string" THEN Folded[a.val] = Folded[b.val] ELSE Compared("eq", a.val, b.val)

RECURSIVE Truth(_)
Truth(e) ==
    LET a == Value(e.left)
        b == Value(e.right)
        p == Truth(e.left)
        q == Truth(e.right)
    IN  CASE e.op = "none" -> Known(e.val = 1)
          [] e.op = "isnull"  -> Known(a = NullValue)
          [] e.op = "notnull" -> Known(a # NullValue)
          [] e.op = "and" -> IF "false" \in {p, q} THEN "false"
                             ELSE IF "unknown" \in {p, q} THEN "unknown" ELSE "true"
          [] e.op = "or"  -> IF "true" \in {p, q} THEN "true"
                             ELSE IF "unknown" \in {p, q} THEN "unknown" ELSE "false"
          [] e.op = "in"  ->
                IF a = NullValue THEN "unknown"
                ELSE Known(\E l \in Range(e.right.list) :
                                Same(a, IF a.type = "date" THEN Value(l) ELSE l))
          [] a = NullValue \/ b = NullValue -> "unknown"
          [] e.op = "eq"   -> Known(Same(a, b))
          [] e.op = "neq"  -> Known(~Same(a, b))
          [] e.op = "like" -> Known(<<a.val, b.val>> \in Like)
          [] OTHER -> Known(Compared(e.op, a.val, b.val))

RECURSIVE Parts(_)
Parts(e) == IF e.op \in {"and", "or"} THEN Parts(e.left) \cup Parts(e.right) ELSE {e}

(* typecast::expr_to_bool() of what a condition evaluates to: the empty    *)
(* string is the one of no words.                                          *)
ExprToBool(v) ==
    \/ v.type \in {"bool", "int", "float"} /\ v.val # 0
    \/ v.type = "string" /\ Words[v.val] # <<>>

(* The operators in a condition, with their operands. *)
RECURSIVE Operations(_)
Operations(e) ==
    CASE e.op \in Unary -> {e} \cup Operations(e.left)
      [] e.op # "none"  -> {e} \cup Operations(e.left) \cup Operations(e.right)
      [] OTHER -> {}

DividesByZero(e) ==
    \E o \in Operations(e) :
        /\ o.op = "div"
        /\ Value(o.left).type = "int"
        /\ Value(o.right) = [type |-> "int", val |-> 0]

(* A condition whose operands fit by their types stops a statement on a    *)
(* row exactly if somewhere in it an int is divided by a 0, whatever the   *)
(* rest of it says of the row; and then it ends the process.               *)
WellTypedRuns ==
    WellFormed(cond) =>
        IF DividesByZero(cond) THEN Eval(cond) = Dies
        ELSE Eval(cond).type \in {"bool", "null"}

(* README.md:59 lists division among the operators on integers and floats, *)
(* without an exception: a condition that divides has a value, too.        *)
DivisionRuns == WellFormed(cond) => Eval(cond) # Dies

(* README.md:35: the literal of a date is the same as a string and is made *)
(* one where that is necessary.                                            *)
DatesAreStrings ==
    /\ cond.op \in {"eq", "neq", "like"}
    /\ Resolvable(cond)
    /\ TypeOf(cond.left) = "string"
    /\ cond.right.op = "none" /\ TypeOf(cond.right) = "date"
    => Eval(cond) # Throw

(* Where no division stops it, WHERE takes no row of which the condition   *)
(* is not true; it refuses one of which it is true only if the condition   *)
(* evaluates to NULL, and then a part of it is unknown.                    *)
WhereAgrees ==
    LET v == Eval(cond) IN
    WellFormed(cond) /\ v # Dies =>
        /\ ExprToBool(v) => Truth(cond) = "true"
        /\ Truth(cond) = "true" => ExprToBool(v) \/ v = NullValue
        /\ v = NullValue => \E p \in Parts(cond) : Truth(p) = "unknown"

(* A CHECK means what the CREATE TABLE said, however often the table is    *)
(* opened: its list read backwards matters only if it mixes types.         *)
Mixed(e) ==
    \E l, m \in Leaves(e) : l.type \notin {m.type, "column"} /\ m.type # "column"

CheckKept ==
    check # NotOpen =>
        \/ Eval(check) = Eval(cond)
        \/ Mixed(cond) /\ Throw \in {Eval(check), Eval(cond)}
=============================================================================
