------------------------------- MODULE ColumnCache -------------------------------
(***************************************************************************)
(* The cache of columns (src/src/expression): names and values of the row  *)
(* each table of a statement is at, where conditions find the columns they *)
(* read.  It is one multimap for all tables.                               *)
(***************************************************************************)
EXTENDS Integers, FiniteSets, Functions

CONSTANTS
    ColType,    \* per table, per column: "int", "float", "date" or "varchar"
    String,
    DateOf,     \* per string that is a date, its number
    Datum,      \* per type of a column, what rows hold
    Null,
    NoTab,
    Stray,      \* bound: may a column be read of a table that has none
                \* of the name?
    NullUpdates \* bound: may UPDATE turn NULL into a value?

Tab == DOMAIN ColType
Col == UNION {DOMAIN ColType[t] : t \in Tab}

TermOf == [int |-> "int", float |-> "float", date |-> "date", varchar |-> "string"]

(* A column of dates holds numbers that are some date's. *)
ASSUME ColumnAssumption ==
    /\ IsFiniteSet(Tab) /\ NoTab \notin Tab
    /\ \A t \in Tab, c \in Col : c \in DOMAIN ColType[t] => ColType[t][c] \in DOMAIN Datum
    /\ DOMAIN Datum \subseteq DOMAIN TermOf
    /\ \A type \in DOMAIN Datum : Datum[type] \subseteq IF type = "varchar" THEN String ELSE Int
    /\ DateOf \in [DOMAIN DateOf -> Int] /\ DOMAIN DateOf \subseteq String
    /\ {Stray, NullUpdates} \subseteq BOOLEAN

VARIABLES
    buf,    \* per table, tmp_cache; NoRow before a row of it is cached
    cache   \* __expr_column_cache

NoRow == <<>>

(* typecast::column_to_expr() *)
ColumnToExpr(d, type) ==
    IF d = Null THEN [type |-> "null", val |-> 0]
    ELSE [type |-> TermOf[type], val |-> d]

Rows(t) ==
    {r \in [DOMAIN ColType[t] -> (UNION Range(Datum)) \cup {Null}] :
        \A c \in DOMAIN r : r[c] \in Datum[ColType[t][c]] \cup {Null}}

CacheInit ==
    /\ buf = [t \in Tab |-> NoRow]
    /\ cache = {}

Entry(t, c, d) == [col |-> c, tab |-> t, val |-> ColumnToExpr(d, ColType[t][c])]

(* cache_clear(table) *)
Cleared(t) == {e \in cache : e.tab # t}

(* cache_replace().  Mutant: whichever table the column is of. *)
ReplacedAnywhere(t, c, v) ==
    {IF e.col = c THEN [e EXCEPT !.val = v] ELSE e : e \in cache}

Replaced(t, c, v) ==
    {IF e.col = c /\ e.tab = t THEN [e EXCEPT !.val = v] ELSE e : e \in cache}

Throw == [type |-> "throw", val |-> 0]

(* eval_terminal_column_ref(): the search starts at the first entry of the *)
(* name and does not end with the last: entries of other names follow in   *)
(* an order that depends on the hash.                                      *)
Found(tab, col) ==
    LET named == {e \in cache : e.col = col}
        own   == {e \in named : e.tab = tab}
    IN  IF named = {} \/ (Cardinality(named) > 1 /\ tab = NoTab) THEN {Throw}
        ELSE IF tab = NoTab THEN {e.val : e \in named}
        ELSE IF own # {} THEN {e.val : e \in own}
        ELSE {e.val : e \in {f \in cache : f.tab = tab}} \cup {Throw}

-----------------------------------------------------------------------------
(* table_manager::cache_record(), for a row of the table or one to insert. *)
CacheRecord(t) ==
    \E r \in Rows(t) :
        /\ buf' = [buf EXCEPT ![t] = r]
        /\ cache' = Cleared(t) \cup {Entry(t, c, r[c]) : c \in DOMAIN r}

(* typecast::type_compatible(), expr_to_db() *)
TypeCompatible(type, v) ==
    CASE v.type = "null"   -> TRUE
      [] v.type = "int"    -> type \in {"int", "float"}
      [] v.type = "float"  -> type = "float"
      [] v.type = "string" -> type = "varchar"
      [] v.type = "date"   -> type \in {"date", "varchar"}
      [] OTHER -> FALSE

ExprToDb(v, type) ==
    CASE v.type = "null" -> Null
      [] v.type = "date" /\ type = "varchar" -> CHOOSE s \in DOMAIN DateOf : DateOf[s] = v.val
      [] OTHER -> v.val

(* update_rows() on the row that is cached, up to the constraints of       *)
(* modify_record(), which leave the new value v in the cache if they       *)
(* refuse.                                                                 *)
ModifyCached(t, c, v) ==
    LET d == ExprToDb(v, ColType[t][c])
    IN  /\ buf[t] # NoRow
        /\ TypeCompatible(ColType[t][c], v)
        /\ NullUpdates \/ buf[t][c] # Null \/ d = Null
        /\ buf' = IF buf[t][c] = Null THEN buf ELSE [buf EXCEPT ![t][c] = d]
        /\ cache' = Replaced(t, c, ColumnToExpr(d, ColType[t][c]))

(* __cache_clear_guard *)
EndStatement ==
    /\ cache # {}
    /\ cache' = {}
    /\ buf' = [t \in Tab |-> NoRow]

(* What an expression without a throw evaluates to. *)
Evaluated ==
    [type : {"null"}, val : {0}] \cup [type : {"int", "float"}, val : Int]
        \cup [type : {"string"}, val : String] \cup [type : {"date"}, val : Range(DateOf)]

CacheNext ==
    \/ EndStatement
    \/ \E t \in Tab :
          \/ CacheRecord(t)
          \/ \E c \in DOMAIN ColType[t], v \in Evaluated : ModifyCached(t, c, v)

CacheSpec == CacheInit /\ [][CacheNext]_<<buf, cache>>

-----------------------------------------------------------------------------
(* What the cache should find. *)

Shown(t, c) == ColumnToExpr(buf[t][c], ColType[t][c])
Owners(c)   == {t \in Tab : buf[t] # NoRow /\ c \in DOMAIN ColType[t]}

TypeOK ==
    /\ \A t \in Tab : buf[t] # NoRow => \A c \in DOMAIN ColType[t] :
          buf[t][c] = Null \/ buf[t][c] \in (IF ColType[t][c] = "varchar" THEN String ELSE Int)
    /\ \A e \in cache :
          /\ e.tab \in Tab /\ e.col \in DOMAIN ColType[e.tab]
          /\ e.val.type \in {"null", TermOf[ColType[e.tab][e.col]]}

(* A column with its table is the one of the row that table is at, and one *)
(* without is it if no other table has a column of the name; anything else *)
(* stops the statement.                                                    *)
LookupExact ==
    /\ \A t \in Tab, c \in Col :
          Stray \/ c \in DOMAIN ColType[t] =>
              Found(t, c) = {IF t \in Owners(c) THEN Shown(t, c) ELSE Throw}
    /\ \A c \in Col :
          Found(NoTab, c) = {IF Cardinality(Owners(c)) = 1
                             THEN Shown(CHOOSE t \in Owners(c) : TRUE, c) ELSE Throw}

CacheExact == TypeOK /\ LookupExact
=============================================================================
