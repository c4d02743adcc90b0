------------------------------- MODULE Databases -------------------------------
(***************************************************************************)
(* What the catalog promises to whoever gives it statements: databases of  *)
(* tables, one of them in use.  There are no files; a statement takes      *)
(* effect at once.  The process may die, and then only databases that were *)
(* being worked on - touched - may change.                                 *)
(***************************************************************************)
CONSTANTS
    Db,         \* names of databases
    Tab,        \* names of tables
    Value,      \* contents of a table
    Empty,      \* the content of a new table
    Junk,       \* the content of a table that cannot be read
    Missing,    \* a database that does not exist
    Damaged,    \* a database whose list of tables cannot be read
    NoDb

VARIABLES
    content,    \* per database, a function from its tables
    using,      \* the database in use
    touched,    \* databases the death of the process may harm
    harmed      \* databases it has harmed, or may have

dbVars == <<content, using, touched, harmed>>

Tables == UNION {[s -> Value \cup {Junk}] : s \in SUBSET Tab}

DbInit ==
    /\ content = [d \in Db |-> Missing]
    /\ using = NoDb
    /\ touched = {}
    /\ harmed = {}

InUse(f) ==
    /\ using # NoDb
    /\ content' = [content EXCEPT ![using] = f]
    /\ touched' = touched \cup {using}
    /\ UNCHANGED <<using, harmed>>

(* CREATE, DROP and USE of a database; a program that ends uses none. *)
CreateDb(d) ==
    /\ content[d] = Missing
    /\ content' = [content EXCEPT ![d] = [t \in {} |-> Empty]]
    /\ touched' = touched \cup {d}
    /\ UNCHANGED <<using, harmed>>

DropDb(d) ==
    /\ content[d] \in Tables
    /\ using # d
    /\ content' = [content EXCEPT ![d] = Missing]
    /\ touched' = touched \cup {d}
    /\ UNCHANGED <<using, harmed>>

UseDb(d) ==
    /\ using = NoDb
    /\ content[d] \in Tables
    /\ using' = d
    /\ UNCHANGED <<content, touched, harmed>>

LeaveDb ==
    /\ using' = NoDb
    /\ touched' = touched \ {using}
    /\ UNCHANGED <<content, harmed>>

(* Statements on the tables of the database in use. *)
NewTable(t) ==
    /\ t \notin DOMAIN content[using]
    /\ InUse([u \in DOMAIN content[using] \cup {t} |->
                IF u = t THEN Empty ELSE content[using][u]])

OldTable(t) ==
    /\ t \in DOMAIN content[using]
    /\ InUse([u \in DOMAIN content[using] \ {t} |-> content[using][u]])

ChangeTable(t, v) ==
    /\ t \in DOMAIN content[using]
    /\ InUse([content[using] EXCEPT ![t] = v])

(* A statement begins and ends work on the files of a database. *)
Touch(d)  == touched' = touched \cup {d} /\ UNCHANGED <<content, using, harmed>>
Settle(d) == touched' = touched \ {d} /\ UNCHANGED <<content, using, harmed>>

Die ==
    /\ \A d \in Db : \/ content'[d] = content[d]
                     \/ d \in touched
    /\ \A d \in Db : content'[d] \in Tables \cup {Missing, Damaged}
    /\ using' = NoDb
    /\ touched' = {}
    /\ harmed' = harmed \cup touched

DbNext ==
    \/ \E d \in Db :
          CreateDb(d) \/ DropDb(d) \/ UseDb(d) \/ Touch(d) \/ Settle(d)
    \/ LeaveDb
    \/ using # NoDb /\ \E t \in Tab :
          NewTable(t) \/ OldTable(t) \/ \E v \in Value \cup {Junk} : ChangeTable(t, v)
    \/ Die

DbSpec == DbInit /\ [][DbNext]_dbVars
=============================================================================
