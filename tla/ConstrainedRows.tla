---------------------------- MODULE ConstrainedRows ----------------------------
(***************************************************************************)
(* What tables promise to the statements that use them (README.md of the   *)
(* repository, the section on constraints): rows with an identity each,    *)
(* that a statement adds or changes if and only if the result satisfies    *)
(* the constraints of the table, and the outcome of the last request.      *)
(* There are no indices here, no bytes behind a NULL and no scratch        *)
(* buffer.                                                                 *)
(***************************************************************************)
EXTENDS Naturals

CONSTANTS
    Tab,        \* tables
    Col,        \* columns of each
    Rid,        \* row ids
    Datum,      \* what a column may hold
    Null,       \* ... that is no value
    Decl        \* per table, what CREATE TABLE declared

VARIABLES
    content,    \* per table, a function from the row ids in use
    reply       \* the last request and whether it was accepted

Equal(a, b) == a # Null /\ a = b

(* The row is no other row's double in the primary key, the tuple of all   *)
(* primary columns, nor in any one unique column; its not-null columns are *)
(* set, the CHECK conditions accept it, and every foreign key names a      *)
(* value that is there.                                                    *)
Valid(t, row, others) ==
    LET d == Decl[t] IN
    /\ \A c \in d.notnull \cup d.primary : row[c] # Null
    /\ d.primary # {} =>
          \A r \in others : \E c \in d.primary : ~Equal(content[t][r][c], row[c])
    /\ \A c \in d.unique, r \in others : ~Equal(content[t][r][c], row[c])
    /\ row \notin d.fails
    /\ \A fk \in d.foreign :
          \E r \in DOMAIN content[fk.tab] :
              Equal(content[fk.tab][r][fk.ref], row[fk.col])

Answer(o, t, rid, row, ok) ==
    reply' = [op |-> o, tab |-> t, rid |-> rid, row |-> row, ok |-> ok]

Insert(t, row) ==
    \E ok \in BOOLEAN :
        /\ Answer("insert", t, 0, row, ok)
        /\ ok = Valid(t, row, DOMAIN content[t])
        /\ IF ok
           THEN \E rid \in Rid \ DOMAIN content[t] :
                   content' = [content EXCEPT
                       ![t] = [r \in DOMAIN @ \cup {rid} |->
                                  IF r = rid THEN row ELSE @[r]]]
           ELSE UNCHANGED content

Modify(t, rid, c, v) ==
    LET row == [content[t][rid] EXCEPT ![c] = v] IN
    \E ok \in BOOLEAN :
        /\ Answer("modify", t, rid, row, ok)
        /\ ok = Valid(t, row, DOMAIN content[t] \ {rid})
        /\ content' = IF ok THEN [content EXCEPT ![t][rid] = row] ELSE content

Remove(t, rid) ==
    /\ UNCHANGED reply
    /\ content' = [content EXCEPT ![t] = [r \in DOMAIN @ \ {rid} |-> @[r]]]

RowsInit == content = [t \in Tab |-> [r \in {} |-> {}]] /\ reply = Null

RowsNext ==
    \E t \in Tab :
        \/ \E row \in [Col -> Datum] : Insert(t, row)
        \/ \E rid \in DOMAIN content[t] :
              \/ Remove(t, rid)
              \/ \E c \in Col, v \in Datum : Modify(t, rid, c, v)

RowsSpec == RowsInit /\ [][RowsNext]_<<content, reply>>
=============================================================================
