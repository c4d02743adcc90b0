--------------------------------- MODULE Table ---------------------------------
(***************************************************************************)
(* The table manager (src/src/table/table.cpp, table_header.cpp) over its  *)
(* index managers (src/src/index/index.cpp): rows in a tree by row id and, *)
(* per indexed column, a tree of (null mark, value, row id) entries.       *)
(*                                                                         *)
(* A B-tree is the ordered set it implements (OrderedSet), here with the   *)
(* number of copies of each entry.  All columns are integers.  A row is    *)
(* its bytes and its null mark: the bytes under a NULL are whatever was    *)
(* there before, zero at first, and several checks read them.  The dbms    *)
(* inserts the rows of an INSERT one by one, and calls modify_record() and *)
(* remove_record() for rows it has just read.                              *)
(***************************************************************************)
EXTENDS Integers, FiniteSets

CONSTANTS
    Tab,            \* tables of the database
    Col,            \* their columns, but for the row id
    Stored,         \* integers statements store
    MaxRid,         \* bound: row ids
    Limit,          \* bound: per table, rows inserted
    Decl,           \* per table, what CREATE TABLE declares: see DeclType
    Null,
    Omitted,        \* a column an INSERT does not name
    NullUpdates,    \* bound: may UPDATE set a value to NULL or NULL to one?
    LateIndex,      \* bound: may CREATE INDEX run on a table with rows?
    Renewals        \* bound: are the scratch buffers ever renewed?

Rid == 1 .. MaxRid
Value == {0} \cup Stored
Datum == Value \cup {Null}

DeclType ==
    [notnull : SUBSET Col, primary : SUBSET Col, unique : SUBSET Col,
     default : [Col -> Stored \cup {Omitted}],
     fails   : SUBSET [Col -> Datum],     \* rows no CHECK accepts
     foreign : SUBSET [col : Col, tab : Tab, ref : Col]]

ASSUME TableAssumption ==
    /\ Col \subseteq Nat
    /\ Stored \subseteq Int
    /\ MaxRid \in Nat
    /\ Limit \in [Tab -> 0 .. MaxRid]
    /\ Null \notin Int
    /\ Omitted \notin Int \cup {Null}
    /\ Decl \in [Tab -> DeclType]
    /\ NullUpdates \in BOOLEAN
    /\ LateIndex \in BOOLEAN
    /\ Renewals \in BOOLEAN

VARIABLES
    rows,       \* per table, the data tree: a function from its row ids
    index,      \* per table and column, the copies of each entry in its tree
    indexed,    \* flag_indexed: the columns that have one
    autoInc,    \* auto_inc, the row id of the next row
    tmpWord,    \* the first word of tmp_record
    missed,     \* history: an index had no entry to erase
    reply       \* the last request and its outcome

vars == <<rows, index, indexed, autoInc, tmpWord, missed, reply>>

Row   == [bytes : [Col -> Value], nulls : SUBSET Col]
Entry == Datum \X Rid
Tree  == UNION {[d -> Row] : d \in SUBSET Rid}

(* The order of index_manager: NULL first, equal values by row id. *)
Before(e, f) ==
    \/ e[1] = Null /\ f[1] # Null
    \/ e[1] # Null /\ f[1] # Null /\ e[1] < f[1]
    \/ e[1] = f[1] /\ e[2] < f[2]

Smallest(s) == CHOOSE x \in s : \A y \in s : x <= y
Least(es) == CHOOSE e \in es : \A f \in es : e = f \/ Before(e, f)

-----------------------------------------------------------------------------
(* fill_table_header(): unique columns and the first primary column get an *)
(* index, primary columns may not be NULL.                                 *)

FirstPrimary(t) == Smallest(Decl[t].primary)
NotNullCols(t)  == Decl[t].notnull \cup Decl[t].primary
IndexedAtCreate(t) ==
    Decl[t].unique
        \cup {c \in Decl[t].primary : \A d \in Decl[t].primary : c <= d}

Init ==
    /\ rows = [t \in Tab |-> [r \in {} |-> {}]]
    /\ index = [t \in Tab |-> [c \in Col |-> [e \in Entry |-> 0]]]
    /\ indexed = [t \in Tab |-> IndexedAtCreate(t)]
    /\ autoInc = [t \in Tab |-> 1]
    /\ tmpWord \in [Tab -> Value]             \* new char[]
    /\ missed = FALSE
    /\ reply = Null

-----------------------------------------------------------------------------
(* Reading and writing index trees *)

Shown(row, c) == IF c \in row.nulls THEN Null ELSE row.bytes[c]

EntryOf(row, c, rid) == <<Shown(row, c), rid>>

Inserted(ix, e) == [ix EXCEPT ![e] = @ + 1]

Has(ix, e) == e \in Entry /\ ix[e] > 0

Erased(ix, e) == IF Has(ix, e) THEN [ix EXCEPT ![e] = @ - 1] ELSE ix

(* get_iterator_lower_bound(): the entries from value b on. *)
From(t, c, b) ==
    {e \in Entry : index[t][c][e] > 0 /\ e[1] # Null /\ e[1] >= b}

(* The row open_record_from_index_lower_bound() opens for an entry: the    *)
(* first one whose id is not below the entry's; 0 if there is none, and    *)
(* then the caller reads through an unset pointer.                         *)
DestRid(t, e) ==
    LET later == {r \in DOMAIN rows[t] : r >= e[2]}
    IN  IF later = {} THEN 0 ELSE Smallest(later)

-----------------------------------------------------------------------------
(* check_constraints() on a row buffer: the set of answers it may give, two *)
(* only after a read through an unset pointer.                             *)

(* Mutant of OwnSkipped: the row is compared with its own entry. *)
OwnNotSkipped(t, c, es, rid) == es

(* The entries check_unique() compares with, once it has skipped the first *)
(* one if that leads to the row itself.                                    *)
OwnSkipped(t, c, es, rid) ==
    LET first == Least(es)
    IN  IF es # {} /\ DestRid(t, first) = rid /\ index[t][c][first] = 1
        THEN es \ {first} ELSE es

UniqueAnswers(t, buf, rid, c) ==
    LET es == OwnSkipped(t, c, From(t, c, buf.bytes[c]), rid)
        dest == DestRid(t, Least(es))
    IN  IF es = {} THEN {TRUE}
        ELSE IF dest = 0 THEN BOOLEAN
        ELSE {rows[t][dest].bytes[c] # buf.bytes[c]}

(* check_primary() walks the index of the first primary column until a row *)
(* differs there, and compares the whole key.                              *)
(* Mutant of SameKey: the first primary column decides alone. *)
SameFirstColumn(t, dest, buf) ==
    rows[t][dest].bytes[FirstPrimary(t)] = buf.bytes[FirstPrimary(t)]

SameKey(t, dest, buf) ==
    \A c \in Decl[t].primary : rows[t][dest].bytes[c] = buf.bytes[c]

PrimaryFree(t, buf, rid) ==
    LET k == FirstPrimary(t)
        es == From(t, k, buf.bytes[k])
        other(e) == DestRid(t, e) \in DOMAIN rows[t] \ {rid}
        stops(e) == other(e) /\ rows[t][DestRid(t, e)].bytes[k] # buf.bytes[k]
    IN  ~ \E e \in es :
            /\ other(e)
            /\ SameKey(t, DestRid(t, e), buf)
            /\ \A f \in es : Before(f, e) => ~stops(f)

(* check_foreign(): value_exists() in the referenced table. *)
ForeignAnswers(fk, buf) ==
    LET key == buf.bytes[fk.col]
        es == From(fk.tab, fk.ref, key)
        dest == DestRid(fk.tab, Least(es))
    IN  IF fk.ref \notin indexed[fk.tab] \/ es = {} THEN {FALSE}
        ELSE IF dest = 0 THEN BOOLEAN
        ELSE {rows[fk.tab][dest].bytes[fk.ref] = key}

(* shown is the row as the expression cache has it, for CHECK. *)
NotNullHolds(t, buf) == buf.nulls \cap NotNullCols(t) = {}

Answers(t, buf, rid, shown) ==
    LET each ==
          {{NotNullHolds(t, buf)},
           {Decl[t].primary = {} \/ PrimaryFree(t, buf, rid)},
           {shown \notin Decl[t].fails}}
          \cup {UniqueAnswers(t, buf, rid, c) : c \in Decl[t].unique}
          \cup {ForeignAnswers(fk, buf) : fk \in Decl[t].foreign}
    IN  {ok \in BOOLEAN : IF ok THEN \A a \in each : TRUE \in a
                          ELSE \E a \in each : FALSE \in a}

Answer(o, t, rid, row, ok) ==
    reply' = [op |-> o, tab |-> t, rid |-> rid, row |-> row, ok |-> ok]

-----------------------------------------------------------------------------
(* INSERT of one row: init_temp_record() with the defaults, set_temp_record() *)
(* for the columns given, insert_record().                                 *)

(* What an INSERT may give; a column without a default that is not named   *)
(* is as good as given NULL.                                               *)
Given(t) ==
    {g \in [Col -> Stored \cup {Null, Omitted}] :
        \A c \in Col : g[c] = Omitted => Decl[t].default[c] # Omitted}

BaseBytes(t, c) ==
    IF Decl[t].default[c] = Omitted THEN 0 ELSE Decl[t].default[c]

(* Mutant of TempRecord: a NULL is copied like a value. *)
TempRecordCopied(t, given) ==
    [bytes |-> [c \in Col |-> IF given[c] = Omitted THEN BaseBytes(t, c)
                              ELSE given[c]],
     nulls |-> {c \in Col : given[c] = Null}]

TempRecord(t, given) ==
    [bytes |-> [c \in Col |-> IF given[c] \in Stored THEN given[c]
                              ELSE BaseBytes(t, c)],
     nulls |-> {c \in Col : given[c] = Null}]

ShownRow(row) == [c \in Col |-> Shown(row, c)]

(* The entries of the new row.  Mutant: NULL is entered as its bytes. *)
IndexedRowBytes(t, row, rid) ==
    [c \in Col |-> IF c \in indexed[t]
                   THEN Inserted(index[t][c], <<row.bytes[c], rid>>)
                   ELSE index[t][c]]

IndexedRow(t, row, rid) ==
    [c \in Col |-> IF c \in indexed[t]
                   THEN Inserted(index[t][c], EntryOf(row, c, rid))
                   ELSE index[t][c]]

InsertRecord(t, given) ==
    LET row == TempRecord(t, given)
        rid == autoInc[t]
    IN  /\ rid <= Limit[t]
        /\ tmpWord' = [tmpWord EXCEPT ![t] = rid]
        /\ \E ok \in Answers(t, row, rid, ShownRow(row)) :
              /\ Answer("insert", t, 0, ShownRow(row), ok)
              /\ IF ok
                 THEN /\ rows' = [rows EXCEPT
                            ![t] = [r \in DOMAIN @ \cup {rid} |->
                                       IF r = rid THEN row ELSE @[r]]]
                      /\ index' = [index EXCEPT ![t] = IndexedRow(t, row, rid)]
                      /\ autoInc' = [autoInc EXCEPT ![t] = rid + 1]
                 ELSE UNCHANGED <<rows, index, autoInc>>
        /\ UNCHANGED <<indexed, missed>>

(* INSERT of a row whose values do not fit the columns: only               *)
(* init_temp_record() has run.                                             *)
InsertAborted(t) ==
    /\ Renewals
    /\ tmpWord' = [tmpWord EXCEPT ![t] = 0]
    /\ UNCHANGED <<rows, index, indexed, autoInc, missed, reply>>

(* remove_record() *)
UnindexedRow(t, row, rid) ==
    [c \in Col |-> IF c \in indexed[t]
                   THEN Erased(index[t][c], EntryOf(row, c, rid))
                   ELSE index[t][c]]

RemoveRecord(t, rid) ==
    /\ rid \in DOMAIN rows[t]
    /\ index' = [index EXCEPT ![t] = UnindexedRow(t, rows[t][rid], rid)]
    /\ missed' = (missed \/ \E c \in indexed[t] :
                    ~Has(index[t][c], EntryOf(rows[t][rid], c, rid)))
    /\ rows' = [rows EXCEPT ![t] = [r \in DOMAIN @ \ {rid} |-> @[r]]]
    /\ UNCHANGED <<indexed, autoInc, tmpWord, reply>>

-----------------------------------------------------------------------------
(* modify_record(): column c of a row that was just read becomes v.        *)

(* The row buffer the checks see, and the row written in the tree: a value *)
(* goes to the bytes, NULL to the null mark, and neither to the other.     *)
Patched(row, c, v) ==
    IF v = Null THEN [row EXCEPT !.nulls = @ \cup {c}]
    ELSE [row EXCEPT !.bytes[c] = v]

(* tmp_record keeps the old bytes for the index, unless v is NULL. *)
WordKept(t, row, c, v) == IF v = Null THEN tmpWord[t] ELSE row.bytes[c]

(* The entry erased.  Mutant: the entry of the new value. *)
OldEntryNew(t, row, c, v, rid) == <<v, rid>>

OldEntry(t, row, c, v, rid) ==
    <<IF c \in row.nulls THEN Null ELSE WordKept(t, row, c, v), rid>>

ModifyRecord(t, rid, c, v) ==
    LET row == rows[t][rid]
        buf == Patched(row, c, v)
        shown == [ShownRow(row) EXCEPT ![c] = v]
        old == OldEntry(t, row, c, v, rid)
    IN  /\ rid \in DOMAIN rows[t]
        /\ NullUpdates \/ (c \in row.nulls <=> v = Null)
        /\ tmpWord' = [tmpWord EXCEPT ![t] = WordKept(t, row, c, v)]
        /\ \E ok \in Answers(t, buf, rid, shown) :
              /\ Answer("modify", t, rid, shown, ok)
              /\ IF ok
                 THEN rows' = [rows EXCEPT ![t][rid] = buf]
                 ELSE UNCHANGED rows
              /\ IF ok /\ c \in indexed[t]
                 THEN /\ index' = [index EXCEPT
                            ![t][c] = Inserted(Erased(@, old), <<v, rid>>)]
                      /\ missed' = (missed \/ ~Has(index[t][c], old))
                 ELSE UNCHANGED <<index, missed>>
        /\ UNCHANGED <<indexed, autoInc>>

-----------------------------------------------------------------------------
(* create_index(): an empty tree. *)
CreateIndex(t, c) ==
    /\ c \notin indexed[t]
    /\ LateIndex \/ DOMAIN rows[t] = {}
    /\ indexed' = [indexed EXCEPT ![t] = @ \cup {c}]
    /\ UNCHANGED <<rows, index, autoInc, tmpWord, missed, reply>>

(* close() and open(): the header and the trees come back, the buffers are *)
(* new.                                                                    *)
Reopen(t) ==
    /\ Renewals
    /\ \E junk \in Value : tmpWord' = [tmpWord EXCEPT ![t] = junk]
    /\ UNCHANGED <<rows, index, indexed, autoInc, missed, reply>>

Next ==
    \E t \in Tab :
        \/ \E given \in Given(t) : InsertRecord(t, given)
        \/ InsertAborted(t)
        \/ \E rid \in Rid : RemoveRecord(t, rid)
        \/ \E rid \in Rid, c \in Col, v \in Stored \cup {Null} :
              ModifyRecord(t, rid, c, v)
        \/ \E c \in Col : CreateIndex(t, c)
        \/ Reopen(t)

Spec == Init /\ [][Next]_vars
-----------------------------------------------------------------------------
TypeOK ==
    /\ rows \in [Tab -> Tree]
    /\ index \in [Tab -> [Col -> [Entry -> Nat]]]
    /\ indexed \in [Tab -> SUBSET Col]
    /\ autoInc \in [Tab -> 1 .. MaxRid + 1]
    /\ tmpWord \in [Tab -> Value \cup Rid]
    /\ missed \in BOOLEAN

(* Every index agrees with the rows: each row is in it once, under the     *)
(* value it shows, and nothing else is.                                    *)
IndexExact ==
    \A t \in Tab : \A c \in indexed[t] : \A e \in Entry :
        index[t][c][e] =
            IF e[2] \in DOMAIN rows[t] /\ Shown(rows[t][e[2]], c) = e[1]
            THEN 1 ELSE 0

(* The assert of index.cpp:63: whatever an index is told to erase is there. *)
ErasesFind == ~missed

(* The tables as statements see them keep the promise of ConstrainedRows:  *)
(* a row is added or changed exactly when the constraints allow it, and no *)
(* index, scratch word, bytes under a NULL or reopening shows through.     *)
Rows == INSTANCE ConstrainedRows WITH
    content <- [t \in Tab |-> [r \in DOMAIN rows[t] |-> ShownRow(rows[t][r])]]

ImplementsRows == Rows!RowsSpec
=============================================================================
