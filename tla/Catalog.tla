-------------------------------- MODULE Catalog --------------------------------
(***************************************************************************)
(* The catalog: databases, the tables they list, and the files both are    *)
(* kept in (src/src/database/database.cpp, the statements of dbms.cpp on   *)
(* databases and tables, open/create/drop/close of table_manager).         *)
(*                                                                         *)
(* A statement changes memory and then writes and removes files one after  *)
(* the other; todo is what it has still to do and the process may die      *)
(* before any of it.  What a .thead and a .tdata file say together is the  *)
(* content of the table; it is Junk while one of them is newer than the    *)
(* other.  A statement that changes rows sets a content; pages reach the   *)
(* data file when the cache evicts them or the table is closed.            *)
(***************************************************************************)
EXTENDS SequencesExt, FiniteSets, Naturals

CONSTANTS
    Db,         \* names of databases
    Home,       \* bound: per database, the names its tables may have
    Value,      \* contents of a table
    Empty,      \* the content of a new table
    Junk,       \* what an uninitialised header or torn pages show
    Missing,    \* no .database file
    Damaged,    \* a .database file cut off by the death of the process
    NoDb,       \* no database object
    MaxTables,  \* MAX_TABLE_NUM, at which create_table() does not stop
    Overwrite,  \* bound: may CREATE DATABASE name one that exists?
    StaleShow,  \* bound: may SHOW DATABASE name the one in use after DROP TABLE?
    Unread,     \* bound: may a statement open a list that is missing or damaged?
    MaxHurt     \* bound: databases harmed before the process no longer dies

Tab == UNION {Home[d] : d \in Db}

ASSUME CatalogAssumption ==
    /\ Empty \in Value
    /\ Junk \notin Value
    /\ NoDb \notin Db
    /\ MaxTables \in Nat
    /\ MaxHurt \in Nat
    /\ Overwrite \in BOOLEAN
    /\ StaleShow \in BOOLEAN
    /\ Unread \in BOOLEAN
    /\ Missing \notin Seq(Tab)
    /\ Damaged \notin Seq(Tab)
    /\ Missing # Damaged

VARIABLES
    list,       \* the .database files
    head,       \* the .thead files: "none", "cut" (opened and not written), "ok"
    data,       \* the .tdata files: do they exist?
    held,       \* what the .thead and .tdata files of a table say together
    cur,        \* dbms::cur_db
    db,         \* the database object a statement has besides
    todo,       \* what the statement has still to do
    hurt        \* history: databases the death of the process may have harmed

files == <<list, head, data, held>>
vars  == <<files, cur, db, todo, hurt>>

(* An open table_manager, and a database object: info.table_name and       *)
(* tables are parallel arrays.                                             *)
Manager  == [file : Tab, val : Value \cup {Junk}, dirty : BOOLEAN]
Object   == [name : Db, names : Seq(Tab), tables : Seq(Manager), changed : BOOLEAN]

ASSUME NoDbAssumption == NoDb \notin Object

NewObject(d) == [name |-> d, names |-> <<>>, tables |-> <<>>, changed |-> FALSE]

Init ==
    /\ list = [d \in Db |-> Missing]
    /\ head = [t \in Tab |-> "none"]
    /\ data = [t \in Tab |-> FALSE]
    /\ held = [t \in Tab |-> Junk]
    /\ cur = NoDb
    /\ db = NoDb
    /\ todo = <<>>
    /\ hurt = {}

Listed(d)   == {list[d][i] : i \in DOMAIN list[d]}
IsList(d)   == list[d] \notin {Missing, Damaged}
Complete(t) == head[t] = "ok" /\ data[t]
OnDisk(t)   == IF Complete(t) THEN held[t] ELSE Junk

-----------------------------------------------------------------------------
(* The steps a statement is made of. *)

(* table_manager::close(): ofstream cuts the .thead file and then writes   *)
(* it, and then the pages go to the .tdata file.                           *)
(* Mutant: the pages stay in the cache. *)
CloseTableHeadOnly(m) == << <<"cut", m.file>>, <<"head", m>> >>

CloseTable(m) == << <<"cut", m.file>>, <<"head", m>>, <<"data", m>> >>

(* table_manager::drop() *)
(* Mutant: the data file stays. *)
DropHeadOnly(m) == CloseTable(m) \o << <<"remove head", m.file>> >>

DropTableFiles(m) ==
    CloseTable(m) \o << <<"remove head", m.file>>, <<"remove data", m.file>> >>

(* database::close(): every table, then the .database file. *)
CloseObject(o) ==
    FlattenSeq([i \in DOMAIN o.tables |-> CloseTable(o.tables[i])])
        \o << <<"cut list", o.name>>, <<"list", o.name, o.names>> >>

(* database::drop(): the tables are gone when close() writes the list. *)
DropObject(o) ==
    FlattenSeq([i \in DOMAIN o.tables |-> DropTableFiles(o.tables[i])])
        \o << <<"cut list", o.name>>, <<"list", o.name, <<>> >>, <<"remove list", o.name>> >>

(* Mutant: switch_database() deletes the database without closing it. *)
LeaveCur == IF cur = NoDb THEN <<>> ELSE << <<"leave">> >>

CloseCur == IF cur = NoDb THEN <<>> ELSE CloseObject(cur) \o << <<"leave">> >>

Idle == todo = <<>>
Do(step) == todo # <<>> /\ Head(todo)[1] = step
Arg == Head(todo)[2]
Done == ~Idle /\ todo' = Tail(todo)

CutHead ==
    /\ Do("cut") /\ Done
    /\ head' = [head EXCEPT ![Arg] = "cut"]
    /\ UNCHANGED <<list, data, held, cur, db, hurt>>

(* The header names the roots of the trees in memory: until the pages      *)
(* follow, the two files do not belong together.                           *)
WriteHead ==
    /\ Do("head") /\ Done
    /\ head' = [head EXCEPT ![Arg.file] = "ok"]
    /\ held' = IF Arg.dirty THEN [held EXCEPT ![Arg.file] = Junk] ELSE held
    /\ UNCHANGED <<list, data, cur, db, hurt>>

WriteData ==
    /\ Do("data") /\ Done
    /\ held' = IF Arg.dirty THEN [held EXCEPT ![Arg.file] = Arg.val] ELSE held
    /\ UNCHANGED <<list, head, data, cur, db, hurt>>

RemoveFile ==
    /\ \/ /\ Do("remove head")
          /\ head' = [head EXCEPT ![Arg] = "none"]
          /\ UNCHANGED <<list, data>>
       \/ /\ Do("remove data")
          /\ data' = [data EXCEPT ![Arg] = FALSE]
          /\ UNCHANGED <<list, head>>
       \/ /\ Do("remove list")
          /\ list' = [list EXCEPT ![Arg] = Missing]
          /\ UNCHANGED <<head, data>>
    /\ Done
    /\ UNCHANGED <<held, cur, db, hurt>>

WriteList ==
    /\ \/ Do("cut list") /\ list' = [list EXCEPT ![Arg] = Damaged]
       \/ Do("list") /\ list' = [list EXCEPT ![Arg] = Head(todo)[3]]
    /\ Done
    /\ UNCHANGED <<head, data, held, cur, db, hurt>>

(* table_manager::open(): a header that is missing or cut leaves the       *)
(* object as new made it; a data file that is missing is created.          *)
Manage(t) == [file |-> t, val |-> OnDisk(t), dirty |-> FALSE]

(* database::open() does not test the stream: of a list that is missing or *)
(* damaged nothing is read, and info is what the memory held before, which *)
(* may name any database and any tables.  (Names of other files than those *)
(* of a database are left out; a table_num that is none of 0 .. MaxTables  *)
(* lists nothing or ends the process.)                                     *)
Read(d) ==
    IF IsList(d) THEN {[name |-> d, names |-> list[d]]}
    ELSE [name : Db, names : SeqOf(Tab, MaxTables)]

Opened(info) ==
    [NewObject(info.name) EXCEPT
        !.names = info.names,
        !.tables = [i \in DOMAIN info.names |-> Manage(info.names[i])]]

OpenFiles(names) ==
    /\ data' = [t \in Tab |-> data[t] \/ t \in Range(names)]
    /\ held' = [t \in Tab |-> IF t \in Range(names) THEN OnDisk(t) ELSE held[t]]
    /\ UNCHANGED <<list, head>>

OpenCur ==
    /\ Do("open") /\ Done
    /\ \E info \in Read(Arg) : OpenFiles(info.names) /\ cur' = Opened(info)
    /\ UNCHANGED <<db, hurt>>

(* The second database object of SHOW and DROP DATABASE. *)
OpenSecond ==
    /\ Do("show") \/ Do("drop")
    /\ \E info \in Read(Arg) : OpenFiles(info.names) /\ db' = Opened(info)
    /\ todo' = (IF Do("show") THEN CloseObject(db') ELSE DropObject(db'))
                    \o << <<"end">> >>
    /\ UNCHANGED <<cur, hurt>>

Leave ==
    /\ Done
    /\ \/ Do("leave") /\ cur' = NoDb /\ UNCHANGED db
       \/ Do("end") /\ db' = NoDb /\ UNCHANGED cur
    /\ UNCHANGED <<files, hurt>>

-----------------------------------------------------------------------------
(* The statements *)

InUse(d) == cur # NoDb /\ cur.name = d

(* get_table_id() finds the first of the places that bear the name. *)
TableId(t) == {i \in DOMAIN cur.names : cur.names[i] = t}
First(id, t) == \A i \in TableId(t) : id <= i

(* switch_database(), which tests no file, as drop and show do not.        *)
SwitchDatabase(d) ==
    /\ Idle
    /\ Unread \/ IsList(d) \/ InUse(d)
    /\ todo' = CloseCur \o << <<"open", d>> >>
    /\ UNCHANGED <<files, cur, db, hurt>>

CloseDatabase ==
    /\ Idle /\ cur # NoDb
    /\ todo' = CloseCur
    /\ UNCHANGED <<files, cur, db, hurt>>

CreateDatabase(d) ==
    /\ Idle
    /\ Overwrite \/ list[d] = Missing
    /\ db' = NewObject(d)
    /\ todo' = CloseObject(db') \o << <<"end">> >>
    /\ UNCHANGED <<files, cur, hurt>>

DropDatabase(d) ==
    /\ Idle
    /\ Unread \/ IsList(d)
    /\ todo' = (IF InUse(d) THEN CloseCur ELSE <<>>)
                    \o << <<"drop", d>> >>
    /\ UNCHANGED <<files, cur, db, hurt>>

ShowDatabase(d) ==
    /\ Idle
    /\ Unread \/ IsList(d)
    /\ StaleShow \/ (InUse(d) /\ IsList(d) => \A t \in Listed(d) : TableId(t) # {})
    /\ todo' = << <<"show", d>> >>
    /\ UNCHANGED <<files, cur, db, hurt>>

(* create_table(): table_manager::create() opens the data file, which may  *)
(* be there, and grows new trees in it.                                    *)
CreateTable(t) ==
    /\ Idle /\ cur # NoDb
    /\ t \in Home[cur.name]
    /\ TableId(t) = {}
    /\ Len(cur.names) < MaxTables
    /\ data' = [data EXCEPT ![t] = TRUE]
    /\ held' = IF data[t] THEN held ELSE [held EXCEPT ![t] = Junk]
    /\ cur' = [cur EXCEPT
                !.names = Append(@, t),
                !.tables = Append(@, [file |-> t, val |-> Empty, dirty |-> TRUE]),
                !.changed = TRUE]
    /\ UNCHANGED <<list, head, db, todo, hurt>>

(* drop_table(): both arrays close up.                                     *)
(* Mutant: table_num goes down and the names stay where they are. *)
NamesCutOff(id) == Front(cur.names)

NamesClosedUp(id) == RemoveAt(cur.names, id)

DropTable(t) ==
    /\ Idle /\ cur # NoDb
    /\ \E id \in TableId(t) :
          /\ First(id, t)
          /\ todo' = DropTableFiles(cur.tables[id])
          /\ cur' = [cur EXCEPT !.names = NamesClosedUp(id),
                                !.tables = RemoveAt(@, id),
                                !.changed = TRUE]
    /\ UNCHANGED <<files, db, hurt>>

(* INSERT, UPDATE, DELETE, CREATE INDEX: the table that get_table() finds. *)
ChangeRows(t, v) ==
    /\ Idle /\ cur # NoDb
    /\ \E id \in TableId(t) :
          /\ First(id, t)
          /\ cur' = [cur EXCEPT
                       !.tables[id].val = IF @ = Junk THEN Junk ELSE v,
                       !.tables[id].dirty = TRUE]
    /\ UNCHANGED <<files, db, todo, hurt>>

-----------------------------------------------------------------------------
(* What the death of the process may harm: the database in use once it was *)
(* changed or while it is closed, and the one a statement opened besides.  *)
CurExposed ==
    cur # NoDb /\ (\/ cur.changed
                   \/ \E i \in DOMAIN cur.tables : cur.tables[i].dirty
                   \/ \E i \in DOMAIN todo : todo[i] = <<"leave">>)

Exposed ==
    (IF CurExposed THEN {cur.name} ELSE {}) \cup (IF db # NoDb THEN {db.name} ELSE {})

(* free_last_cache(), as a statement reads rows: some pages of a changed    *)
(* table reach its file and others do not.                                 *)
Evict ==
    /\ Idle /\ cur # NoDb
    /\ \E i \in DOMAIN cur.tables :
          /\ cur.tables[i].dirty
          /\ held' = [held EXCEPT ![cur.tables[i].file] = Junk]
    /\ UNCHANGED <<list, head, data, cur, db, todo, hurt>>

(* An exception nobody catches, a signal, a power cut. *)
Crash ==
    /\ cur' = NoDb
    /\ db' = NoDb
    /\ todo' = <<>>
    /\ Cardinality(hurt) < MaxHurt
    /\ hurt' = hurt \cup Exposed
    /\ UNCHANGED files

Step ==
    \/ CutHead \/ WriteHead \/ WriteData \/ WriteList \/ RemoveFile
    \/ OpenCur \/ OpenSecond \/ Leave

Next ==
    \/ Step
    \/ \E d \in Db :
          \/ SwitchDatabase(d) \/ CreateDatabase(d)
          \/ DropDatabase(d) \/ ShowDatabase(d)
    \/ CloseDatabase
    \/ \E t \in Tab :
          CreateTable(t) \/ DropTable(t) \/ \E v \in Value : ChangeRows(t, v)
    \/ Evict
    \/ Crash

Spec == Init /\ [][Next]_vars
-----------------------------------------------------------------------------
Objects == {o \in {cur, db} : o # NoDb}

TypeOK ==
    /\ list \in [Db -> Seq(Tab) \cup {Missing, Damaged}]
    /\ head \in [Tab -> {"none", "cut", "ok"}]
    /\ data \in [Tab -> BOOLEAN]
    /\ held \in [Tab -> Value \cup {Junk}]
    /\ \A o \in Objects : o \in Object
    /\ hurt \subseteq Db

(* info.table_name[i] names the table tables[i] manages, which drop_table() *)
(* closes up both arrays for; no name is there twice, unless the object was *)
(* made of a list nobody could read.                                       *)
SlotsAgree ==
    \A o \in Objects :
        /\ Len(o.names) = Len(o.tables)
        /\ \A i \in DOMAIN o.names : o.names[i] = o.tables[i].file
        /\ Unread \/ IsInjective(o.names)

(* Whatever is created, dropped or lost, and with Unread whatever is       *)
(* opened, be its list missing or damaged by a death of the process: the   *)
(* two arrays of an open database agree, so that no statement works on     *)
(* another table's files than the ones it names.                           *)
ObjectsSound == TypeOK /\ SlotsAgree

(* Whatever statements ran and wherever the process died: a database that  *)
(* is not being worked on and never was when the process died lists only   *)
(* tables whose files are there, whole and of one age.                     *)
ListedComplete ==
    \A d \in Db \ (hurt \cup Exposed) :
        /\ list[d] # Damaged
        /\ IsList(d) => \A t \in Listed(d) : Complete(t) /\ held[t] # Junk

(* A table that was dropped leaves no file behind, nor does one whose      *)
(* database was dropped.                                                   *)
NoOrphans ==
    Idle => \A d \in Db \ hurt : \A t \in Home[d] :
        head[t] # "none" \/ data[t] =>
            \/ IsList(d) /\ t \in Listed(d)
            \/ InUse(d) /\ TableId(t) # {}

-----------------------------------------------------------------------------
(* What a statement would find: in memory for the database in use, in the  *)
(* files for the others.                                                   *)
InMemory(o) ==
    [t \in {o.names[i] : i \in DOMAIN o.names} |->
        o.tables[CHOOSE i \in DOMAIN o.names : o.names[i] = t].val]

InFiles(d) ==
    IF IsList(d) THEN [t \in Listed(d) |-> OnDisk(t)] ELSE list[d]

Dropped(d) ==       \* DROP DATABASE opened it, and it is not an empty one just created
    \/ \E i \in DOMAIN todo : todo[i] = <<"remove list", d>>
    \/ Do("end") /\ list[d] = Missing

Found(d) ==
    IF InUse(d) THEN InMemory(cur)
    ELSE IF Dropped(d) THEN Missing
    ELSE IF db # NoDb /\ db.name = d THEN InMemory(db)
    ELSE InFiles(d)

Catalogue == INSTANCE Databases WITH
    content <- [d \in Db |-> Found(d)],
    using   <- IF cur = NoDb THEN NoDb ELSE cur.name,
    touched <- Exposed,
    harmed  <- hurt

(* To statements the catalog is Databases: what was closed is found again  *)
(* when opened, no statement on one database shows in another, and the     *)
(* death of the process harms only what was being worked on.               *)
ImplementsDatabases == Catalogue!DbSpec
=============================================================================
