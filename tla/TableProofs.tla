------------------------------ MODULE TableProofs ------------------------------
(***************************************************************************)
(* Theorems about Table: as long as no UPDATE turns a value into NULL or   *)
(* NULL into a value, and indices are created on empty tables, every index *)
(* agrees with the rows, for any tables, columns, declarations and values. *)
(* Where moreover no check can take a NULL for the bytes under it, tables  *)
(* and indices are the rows with constraints that ConstrainedRows is.      *)
(***************************************************************************)
EXTENDS Table, Induction

(* A row id is given out once: the ids in use are below the next one. *)
Fresh == \A t \in Tab : \A r \in DOMAIN rows[t] : r < autoInc[t]

(* A column without an index has no entries waiting for one. *)
Unindexed ==
    \A t \in Tab : \A c \in Col \ indexed[t] : \A e \in Entry : index[t][c][e] = 0

Inv == TypeOK /\ Fresh /\ Unindexed /\ IndexExact /\ ErasesFind

(* One index against one tree of rows. *)
Counts(ix, rs, c) ==
    \A e \in Entry :
        ix[e] = IF e[2] \in DOMAIN rs /\ Shown(rs[e[2]], c) = e[1] THEN 1 ELSE 0

With(rs, rid, row) ==
    [r \in DOMAIN rs \cup {rid} |-> IF r = rid THEN row ELSE rs[r]]
Without(rs, rid) == [r \in DOMAIN rs \ {rid} |-> rs[r]]

-----------------------------------------------------------------------------
(* What a column shows is a datum. *)
LEMMA ShownDatum ==
    ASSUME NEW row \in Row, NEW c \in Col
    PROVE  Shown(row, c) \in Datum
BY DEF Shown, Row, Datum

(* An entry is added to an index once more than it was there. *)
LEMMA InsertedType ==
    ASSUME NEW ix \in [Entry -> Nat], NEW e \in Entry
    PROVE  /\ Inserted(ix, e) \in [Entry -> Nat]
           /\ \A f \in Entry : Inserted(ix, e)[f] = IF f = e THEN ix[f] + 1 ELSE ix[f]
BY DEF Inserted

(* An entry that is there is erased once; one that is not changes nothing. *)
LEMMA ErasedType ==
    ASSUME NEW ix \in [Entry -> Nat], NEW e
    PROVE  /\ Erased(ix, e) \in [Entry -> Nat]
           /\ e \in Entry /\ ix[e] > 0 =>
                \A f \in Entry : Erased(ix, e)[f] = IF f = e THEN ix[f] - 1 ELSE ix[f]
BY DEF Erased, Has

(* Adding and removing rows of a tree gives trees. *)
LEMMA TreeWith ==
    ASSUME NEW rs \in Tree, NEW rid \in Rid, NEW row \in Row
    PROVE  /\ With(rs, rid, row) \in Tree
           /\ Without(rs, rid) \in Tree
           /\ rid \in DOMAIN rs => [rs EXCEPT ![rid] = row] \in Tree
           /\ DOMAIN rs \subseteq Rid
           /\ \A r \in DOMAIN rs : rs[r] \in Row
<1>1. PICK d \in SUBSET Rid : rs \in [d -> Row]
  BY DEF Tree
<1>2. With(rs, rid, row) \in [d \cup {rid} -> Row]
  BY <1>1 DEF With
<1>3. Without(rs, rid) \in [d \ {rid} -> Row]
  BY <1>1 DEF Without
<1>4. rid \in DOMAIN rs => [rs EXCEPT ![rid] = row] \in [d -> Row]
  BY <1>1
<1>5. d \cup {rid} \in SUBSET Rid /\ d \ {rid} \in SUBSET Rid
  OBVIOUS
<1> QED
  BY <1>1, <1>2, <1>3, <1>4, <1>5 DEF Tree

(* insert_record() adds the one entry the new row needs. *)
LEMMA CountsInsert ==
    ASSUME NEW ix \in [Entry -> Nat], NEW rs \in Tree, NEW c \in Col,
           NEW row \in Row, NEW rid \in Rid \ DOMAIN rs,
           Counts(ix, rs, c)
    PROVE  Counts(Inserted(ix, EntryOf(row, c, rid)), With(rs, rid, row), c)
<1> DEFINE e0 == EntryOf(row, c, rid)
<1>1. e0 \in Entry /\ e0[1] = Shown(row, c) /\ e0[2] = rid
  BY ShownDatum DEF EntryOf, Entry
<1>2. SUFFICES ASSUME NEW e \in Entry
      PROVE  Inserted(ix, e0)[e] =
               IF e[2] \in DOMAIN With(rs, rid, row)
                  /\ Shown(With(rs, rid, row)[e[2]], c) = e[1] THEN 1 ELSE 0
  BY DEF Counts
<1>3. Inserted(ix, e0)[e] = IF e = e0 THEN ix[e] + 1 ELSE ix[e]
  BY <1>1, InsertedType
<1>4. ix[e] = IF e[2] \in DOMAIN rs /\ Shown(rs[e[2]], c) = e[1] THEN 1 ELSE 0
  BY DEF Counts
<1>5. CASE e[2] = rid
  <2>1. ix[e] = 0
    BY <1>4, <1>5
  <2>2. e = e0 <=> Shown(row, c) = e[1]
    BY <1>1, <1>5 DEF Entry
  <2>3. e[2] \in DOMAIN With(rs, rid, row) /\ With(rs, rid, row)[e[2]] = row
    BY <1>5 DEF With
  <2> QED BY <1>3, <2>1, <2>2, <2>3
<1>6. CASE e[2] # rid
  <2>1. e # e0
    BY <1>1, <1>6
  <2>2. e[2] \in DOMAIN With(rs, rid, row) <=> e[2] \in DOMAIN rs
    BY <1>6 DEF With
  <2>3. e[2] \in DOMAIN rs => With(rs, rid, row)[e[2]] = rs[e[2]]
    BY <1>6 DEF With
  <2> QED BY <1>3, <1>4, <2>1, <2>2, <2>3
<1> QED BY <1>5, <1>6

(* remove_record() finds the entry of the row and takes it away. *)
LEMMA CountsRemove ==
    ASSUME NEW ix \in [Entry -> Nat], NEW rs \in Tree, NEW c \in Col,
           NEW rid \in DOMAIN rs,
           Counts(ix, rs, c)
    PROVE  /\ Has(ix, EntryOf(rs[rid], c, rid))
           /\ Counts(Erased(ix, EntryOf(rs[rid], c, rid)), Without(rs, rid), c)
<1> DEFINE e0 == EntryOf(rs[rid], c, rid)
<1>1. rs[rid] \in Row /\ rid \in Rid
  <2>1. PICK d \in SUBSET Rid : rs \in [d -> Row]
    BY DEF Tree
  <2> QED BY <2>1
<1>2. e0 \in Entry /\ e0[1] = Shown(rs[rid], c) /\ e0[2] = rid
  BY <1>1, ShownDatum DEF EntryOf, Entry
<1>3. ix[e0] = 1
  BY <1>2 DEF Counts
<1>4. Has(ix, e0)
  BY <1>2, <1>3 DEF Has
<1>5. ASSUME NEW e \in Entry
      PROVE  Erased(ix, e0)[e] =
               IF e[2] \in DOMAIN Without(rs, rid)
                  /\ Shown(Without(rs, rid)[e[2]], c) = e[1] THEN 1 ELSE 0
  <2>1. Erased(ix, e0)[e] = IF e = e0 THEN ix[e] - 1 ELSE ix[e]
    BY <1>2, <1>3, ErasedType
  <2>2. ix[e] = IF e[2] \in DOMAIN rs /\ Shown(rs[e[2]], c) = e[1] THEN 1 ELSE 0
    BY DEF Counts
  <2>3. CASE e[2] = rid
    <3>1. e = e0 <=> Shown(rs[rid], c) = e[1]
      BY <1>2, <2>3 DEF Entry
    <3>2. e[2] \notin DOMAIN Without(rs, rid)
      BY <2>3 DEF Without
    <3> QED BY <2>1, <2>2, <2>3, <3>1, <3>2
  <2>4. CASE e[2] # rid
    <3>1. e # e0
      BY <1>2, <2>4
    <3>2. e[2] \in DOMAIN Without(rs, rid) <=> e[2] \in DOMAIN rs
      BY <2>4 DEF Without
    <3>3. e[2] \in DOMAIN rs => Without(rs, rid)[e[2]] = rs[e[2]]
      BY <2>4 DEF Without
    <3> QED BY <2>1, <2>2, <3>1, <3>2, <3>3
  <2> QED BY <2>3, <2>4
<1> QED BY <1>4, <1>5 DEF Counts

(* A column that shows the same after a row was rewritten needs no change  *)
(* of its index.                                                           *)
LEMMA CountsOther ==
    ASSUME NEW ix, NEW rs \in Tree, NEW c \in Col, NEW rid \in DOMAIN rs,
           NEW row, Shown(row, c) = Shown(rs[rid], c),
           Counts(ix, rs, c)
    PROVE  Counts(ix, [rs EXCEPT ![rid] = row], c)
<1>1. PICK d \in SUBSET Rid : rs \in [d -> Row]
  BY DEF Tree
<1>2. /\ DOMAIN [rs EXCEPT ![rid] = row] = DOMAIN rs
      /\ \A r \in DOMAIN rs :
            [rs EXCEPT ![rid] = row][r] = IF r = rid THEN row ELSE rs[r]
  BY <1>1
<1> QED BY <1>2 DEF Counts

(* modify_record() moves the entry of the row from the old to the new value. *)
LEMMA CountsModify ==
    ASSUME NEW ix \in [Entry -> Nat], NEW rs \in Tree, NEW c \in Col,
           NEW rid \in DOMAIN rs, NEW row \in Row,
           Counts(ix, rs, c)
    PROVE  Counts(Inserted(Erased(ix, EntryOf(rs[rid], c, rid)), EntryOf(row, c, rid)),
                  [rs EXCEPT ![rid] = row], c)
<1> DEFINE ix1 == Erased(ix, EntryOf(rs[rid], c, rid))
           rs1 == Without(rs, rid)
<1>1. PICK d \in SUBSET Rid : rs \in [d -> Row]
  BY DEF Tree
<1>2. rid \in Rid
  BY <1>1
<1>3. ix1 \in [Entry -> Nat] /\ Counts(ix1, rs1, c)
  BY CountsRemove, ErasedType
<1>4. rs1 \in Tree /\ rid \in Rid \ DOMAIN rs1
  BY <1>1, <1>2, TreeWith DEF Without
<1>5. Counts(Inserted(ix1, EntryOf(row, c, rid)), With(rs1, rid, row), c)
  <2> HIDE DEF ix1, rs1
  <2> QED BY <1>3, <1>4, CountsInsert
<1>6. With(rs1, rid, row) = [rs EXCEPT ![rid] = row]
  <2>1. DOMAIN rs1 \cup {rid} = d
    BY <1>1 DEF Without
  <2>2. \A r \in d : (IF r = rid THEN row ELSE rs1[r]) = (IF r = rid THEN row ELSE rs[r])
    BY <1>1 DEF Without
  <2> QED BY <1>1, <2>1, <2>2 DEF With
<1> QED BY <1>5, <1>6

-----------------------------------------------------------------------------
(* init_temp_record() and set_temp_record() build a row. *)
LEMMA TempRecordType ==
    ASSUME NEW t \in Tab, NEW given \in Given(t)
    PROVE  TempRecord(t, given) \in Row
<1>1. Decl[t].default \in [Col -> Stored \cup {Omitted}]
  BY TableAssumption DEF DeclType
<1>2. \A c \in Col : BaseBytes(t, c) \in Value
  BY <1>1 DEF BaseBytes, Value
<1> QED BY <1>2 DEF TempRecord, Row, Value

(* modify_record() writes a row, and with no UPDATE to or from NULL the    *)
(* row shows the new value in the column and what it showed in the others. *)
LEMMA PatchedRow ==
    ASSUME NEW row \in Row, NEW c \in Col, NEW v \in Stored \cup {Null}
    PROVE  /\ Patched(row, c, v) \in Row
           /\ (c \in row.nulls <=> v = Null) => Shown(Patched(row, c, v), c) = v
           /\ \A d \in Col \ {c} : Shown(Patched(row, c, v), d) = Shown(row, d)
BY DEF Patched, Row, Shown, Value

(* The initial state satisfies the invariant. *)
LEMMA InvInit == Init => Inv
<1> SUFFICES ASSUME Init PROVE Inv
  OBVIOUS
<1>1. \A t \in Tab : rows[t] \in Tree /\ DOMAIN rows[t] = {}
  <2>1. [r \in {} |-> {}] \in [{} -> Row] /\ {} \in SUBSET Rid
    OBVIOUS
  <2> QED BY <2>1 DEF Init, Tree
<1>2. \A t \in Tab : IndexedAtCreate(t) \in SUBSET Col
  <2> SUFFICES ASSUME NEW t \in Tab PROVE IndexedAtCreate(t) \subseteq Col
    OBVIOUS
  <2>1. Decl[t].unique \subseteq Col /\ Decl[t].primary \subseteq Col
    BY TableAssumption DEF DeclType
  <2> QED BY <2>1 DEF IndexedAtCreate
<1>3. TypeOK
  <2>1. MaxRid \in Nat
    BY TableAssumption
  <2>2. rows \in [Tab -> Tree] /\ indexed \in [Tab -> SUBSET Col]
    BY <1>1, <1>2 DEF Init
  <2>3. index \in [Tab -> [Col -> [Entry -> Nat]]]
    BY DEF Init
  <2>4. autoInc \in [Tab -> 1 .. MaxRid + 1]
    BY <2>1 DEF Init
  <2>5. tmpWord \in [Tab -> Value \cup Rid] /\ missed \in BOOLEAN
    BY DEF Init
  <2> QED BY <2>2, <2>3, <2>4, <2>5 DEF TypeOK
<1>4. Fresh /\ Unindexed /\ ErasesFind
  BY <1>1 DEF Init, Fresh, Unindexed, ErasesFind
<1>5. IndexExact
  <2> SUFFICES ASSUME NEW t \in Tab, NEW c \in Col, NEW e \in Entry
               PROVE  index[t][c][e] = 0
    BY <1>1, <1>2 DEF Init, IndexExact
  <2> QED BY DEF Init
<1> QED BY <1>3, <1>4, <1>5 DEF Inv

(* The parts of the invariant that InsertRecord and the others disturb, as *)
(* facts about each table.                                                 *)
LEMMA InvParts ==
    ASSUME Inv, NEW t \in Tab
    PROVE  /\ rows[t] \in Tree /\ DOMAIN rows[t] \subseteq Rid
           /\ \A r \in DOMAIN rows[t] : rows[t][r] \in Row /\ r < autoInc[t]
           /\ index[t] \in [Col -> [Entry -> Nat]]
           /\ indexed[t] \subseteq Col
           /\ autoInc[t] \in 1 .. MaxRid + 1
           /\ \A c \in indexed[t] : Counts(index[t][c], rows[t], c)
           /\ \A c \in Col \ indexed[t] : \A e \in Entry : index[t][c][e] = 0
<1>1. rows[t] \in Tree
  BY DEF Inv, TypeOK
<1>2. PICK d \in SUBSET Rid : rows[t] \in [d -> Row]
  BY <1>1 DEF Tree
<1>3. \A c \in indexed[t] : Counts(index[t][c], rows[t], c)
  BY DEF Inv, IndexExact, Counts
<1> QED BY <1>1, <1>2, <1>3 DEF Inv, TypeOK, Fresh, Unindexed

(* A step that changes the rows and the indices of one table keeps the     *)
(* invariant when the new ones agree.                                      *)
LEMMA InvOneTable ==
    ASSUME Inv, NEW t \in Tab,
           NEW rs \in Tree, NEW ixs \in [Col -> [Entry -> Nat]],
           rows' = [rows EXCEPT ![t] = rs],
           index' = [index EXCEPT ![t] = ixs],
           autoInc' \in [Tab -> 1 .. MaxRid + 1],
           \A u \in Tab \ {t} : autoInc'[u] = autoInc[u],
           \A r \in DOMAIN rs : r < autoInc'[t],
           \A c \in indexed[t] : Counts(ixs[c], rs, c),
           \A c \in Col \ indexed[t] : ixs[c] = index[t][c],
           indexed' = indexed,
           tmpWord' \in [Tab -> Value \cup Rid],
           missed' = missed
    PROVE  Inv'
<1>1. rows'[t] = rs /\ \A u \in Tab \ {t} : rows'[u] = rows[u]
  BY DEF Inv, TypeOK
<1>2. index'[t] = ixs /\ \A u \in Tab \ {t} : index'[u] = index[u]
  BY DEF Inv, TypeOK
<1>3. TypeOK'
  BY DEF Inv, TypeOK
<1>4. Fresh'
  BY <1>1 DEF Inv, Fresh
<1>5. Unindexed'
  BY <1>2 DEF Inv, Unindexed
<1>6. IndexExact'
  <2> SUFFICES ASSUME NEW u \in Tab, NEW c \in indexed[u]
               PROVE  Counts(index'[u][c], rows'[u], c)
    BY DEF IndexExact, Counts
  <2>1. CASE u = t
    BY <1>1, <1>2, <2>1
  <2>2. CASE u # t
    BY <1>1, <1>2, <2>2, InvParts
  <2> QED BY <2>1, <2>2
<1>7. ErasesFind'
  BY DEF Inv, ErasesFind
<1> QED BY <1>3, <1>4, <1>5, <1>6, <1>7 DEF Inv

(* A step that leaves the trees of rows and of indices alone. *)
LEMMA InvSameTrees ==
    ASSUME Inv, UNCHANGED <<rows, index, indexed, autoInc, missed>>,
           tmpWord' \in [Tab -> Value \cup Rid]
    PROVE  Inv'
BY DEF Inv, TypeOK, Fresh, Unindexed, IndexExact, ErasesFind

-----------------------------------------------------------------------------
(* One lemma per action that changes the trees.  insert_record() gives the *)
(* row an id that was never used and enters it in every index.             *)
LEMMA InvInsertRecord ==
    ASSUME Inv, NEW t \in Tab, NEW given \in Given(t), InsertRecord(t, given)
    PROVE  Inv'
<1> DEFINE row == TempRecord(t, given)
           rid == autoInc[t]
           rs  == With(rows[t], rid, row)
           ixs == IndexedRow(t, row, rid)
<1>1. row \in Row
  BY TempRecordType
<1>2. rid \in Rid /\ rid \in Nat /\ MaxRid \in Nat
  BY InvParts, TableAssumption DEF InsertRecord, Rid
<1>3. tmpWord' = [tmpWord EXCEPT ![t] = rid] /\ indexed' = indexed /\ missed' = missed
  BY DEF InsertRecord
<1>4. tmpWord' \in [Tab -> Value \cup Rid]
  BY <1>2, <1>3 DEF Inv, TypeOK
<1>5. CASE UNCHANGED <<rows, index, autoInc>>
  BY <1>3, <1>4, <1>5, InvSameTrees
<1>6. CASE /\ rows' = [rows EXCEPT ![t] = rs]
           /\ index' = [index EXCEPT ![t] = ixs]
           /\ autoInc' = [autoInc EXCEPT ![t] = rid + 1]
  <2>1. rows[t] \in Tree /\ rid \in Rid \ DOMAIN rows[t]
    BY InvParts, <1>2 DEF Rid
  <2>2. rs \in Tree
    <3> HIDE DEF row, rid
    <3> QED BY <1>1, <2>1, TreeWith
  <2>3. autoInc' \in [Tab -> 1 .. MaxRid + 1] /\ autoInc'[t] = rid + 1
        /\ \A u \in Tab \ {t} : autoInc'[u] = autoInc[u]
    <3>1. rid + 1 \in 1 .. MaxRid + 1
      BY <1>2 DEF Rid
    <3> HIDE DEF rid
    <3> QED BY <1>6, <3>1 DEF Inv, TypeOK
  <2>4. \A r \in DOMAIN rs : r < autoInc'[t]
    <3>1. \A r \in DOMAIN rows[t] : r \in Nat /\ r < rid
      BY InvParts, <1>2 DEF Rid
    <3>2. DOMAIN rs = DOMAIN rows[t] \cup {rid}
      BY DEF With
    <3> HIDE DEF rs, rid
    <3> QED BY <1>2, <2>3, <3>1, <3>2
  <2>5. ASSUME NEW c \in Col
        PROVE  /\ ixs[c] \in [Entry -> Nat]
               /\ c \notin indexed[t] => ixs[c] = index[t][c]
               /\ c \in indexed[t] => Counts(ixs[c], rs, c)
    <3>1. /\ index[t][c] \in [Entry -> Nat]
          /\ c \in indexed[t] => Counts(index[t][c], rows[t], c)
      BY InvParts
    <3>2. EntryOf(row, c, rid) \in Entry
      BY <1>1, <1>2, ShownDatum DEF EntryOf, Entry
    <3>3. Inserted(index[t][c], EntryOf(row, c, rid)) \in [Entry -> Nat]
      BY <3>1, <3>2, InsertedType
    <3>4. c \in indexed[t] =>
            Counts(Inserted(index[t][c], EntryOf(row, c, rid)), rs, c)
      <4> HIDE DEF row, rid
      <4> QED BY <1>1, <2>1, <3>1, CountsInsert
    <3> QED BY <3>1, <3>3, <3>4 DEF IndexedRow
  <2>6. ixs \in [Col -> [Entry -> Nat]]
    BY <2>5 DEF IndexedRow
  <2>7. indexed[t] \subseteq Col
    BY InvParts
  <2>8. rows' = [rows EXCEPT ![t] = rs] /\ index' = [index EXCEPT ![t] = ixs]
    BY <1>6
  <2>9. indexed' = indexed /\ missed' = missed
    BY <1>3
  <2> HIDE DEF rs, ixs
  <2> QED BY <1>4, <2>2, <2>3, <2>4, <2>5, <2>6, <2>7, <2>8, <2>9, InvOneTable
<1> QED
  BY <1>5, <1>6 DEF InsertRecord, With

(* remove_record() erases the entry of every index before the row itself.  *)
LEMMA InvRemoveRecord ==
    ASSUME Inv, NEW t \in Tab, NEW rid \in Rid, RemoveRecord(t, rid)
    PROVE  Inv'
<1> DEFINE row == rows[t][rid]
           rs  == Without(rows[t], rid)
           ixs == UnindexedRow(t, row, rid)
<1>1. /\ rid \in DOMAIN rows[t]
      /\ rows' = [rows EXCEPT ![t] = rs]
      /\ index' = [index EXCEPT ![t] = ixs]
      /\ UNCHANGED <<indexed, autoInc, tmpWord>>
  BY DEF RemoveRecord, Without
<1>2. rows[t] \in Tree /\ row \in Row
  BY <1>1, InvParts
<1>3. rs \in Tree
  <2> HIDE DEF row
  <2> QED BY <1>2, TreeWith
<1>4. ASSUME NEW c \in Col
      PROVE  /\ ixs[c] \in [Entry -> Nat]
             /\ c \notin indexed[t] => ixs[c] = index[t][c]
             /\ c \in indexed[t] => /\ Counts(ixs[c], rs, c)
                                    /\ Has(index[t][c], EntryOf(row, c, rid))
  <2>1. /\ index[t][c] \in [Entry -> Nat]
        /\ c \in indexed[t] => Counts(index[t][c], rows[t], c)
    BY InvParts
  <2>2. Erased(index[t][c], EntryOf(row, c, rid)) \in [Entry -> Nat]
    BY <2>1, ErasedType
  <2>3. c \in indexed[t] =>
          /\ Has(index[t][c], EntryOf(row, c, rid))
          /\ Counts(Erased(index[t][c], EntryOf(row, c, rid)), rs, c)
    BY <1>1, <1>2, <2>1, CountsRemove
  <2> QED BY <2>1, <2>2, <2>3 DEF UnindexedRow
<1>5. ixs \in [Col -> [Entry -> Nat]]
  BY <1>4 DEF UnindexedRow
<1>6. indexed[t] \subseteq Col
  BY InvParts
<1>7. missed' = missed
  BY <1>4, <1>6 DEF RemoveRecord, Inv, TypeOK
<1>8. \A r \in DOMAIN rs : r < autoInc'[t]
  BY <1>1, InvParts DEF Without
<1>9. autoInc' \in [Tab -> 1 .. MaxRid + 1] /\ tmpWord' \in [Tab -> Value \cup Rid]
  BY <1>1 DEF Inv, TypeOK
<1> HIDE DEF rs, ixs
<1> QED BY <1>1, <1>3, <1>4, <1>5, <1>6, <1>7, <1>8, <1>9, InvOneTable

(* modify_record() moves the entry of the one column it writes: tmp_record *)
(* still has the value the entry is under, as long as NULL is not involved. *)
LEMMA InvModifyRecord ==
    ASSUME NullUpdates = FALSE, Inv, NEW t \in Tab, NEW rid \in Rid, NEW c \in Col,
           NEW v \in Stored \cup {Null}, ModifyRecord(t, rid, c, v)
    PROVE  Inv'
<1> DEFINE row == rows[t][rid]
           buf == Patched(row, c, v)
           rs  == [rows[t] EXCEPT ![rid] = buf]
           moved == Inserted(Erased(index[t][c], EntryOf(row, c, rid)),
                             EntryOf(buf, c, rid))
           ixs == IF c \in indexed[t] THEN [index[t] EXCEPT ![c] = moved]
                  ELSE index[t]
<1>1. /\ rid \in DOMAIN rows[t]
      /\ c \in row.nulls <=> v = Null
      /\ tmpWord' = [tmpWord EXCEPT ![t] = WordKept(t, row, c, v)]
      /\ UNCHANGED <<indexed, autoInc>>
  BY DEF ModifyRecord
<1>2. rows[t] \in Tree /\ row \in Row
  BY <1>1, InvParts
<1>3. buf \in Row /\ Shown(buf, c) = v
      /\ \A d \in Col \ {c} : Shown(buf, d) = Shown(row, d)
  <2> HIDE DEF row
  <2> QED BY <1>1, <1>2, PatchedRow
<1>4. /\ OldEntry(t, row, c, v, rid) = EntryOf(row, c, rid)
      /\ <<v, rid>> = EntryOf(buf, c, rid)
  BY <1>1, <1>3 DEF OldEntry, EntryOf, WordKept, Shown
<1>5. tmpWord' \in [Tab -> Value \cup Rid]
  <2>1. tmpWord[t] \in Value \cup Rid /\ row.bytes[c] \in Value
    BY <1>2 DEF Inv, TypeOK, Row
  <2> HIDE DEF row
  <2> QED BY <1>1, <2>1 DEF Inv, TypeOK, WordKept
<1>6. CASE UNCHANGED <<rows, index, missed>>
  BY <1>1, <1>5, <1>6, InvSameTrees
<1>7. CASE /\ rows' = [rows EXCEPT ![t] = rs]
           /\ index' = [index EXCEPT ![t] = ixs]
           /\ missed' = (missed \/ (c \in indexed[t]
                                    /\ ~Has(index[t][c], EntryOf(row, c, rid))))
  <2>1. rs \in Tree /\ DOMAIN rs = DOMAIN rows[t]
    <3> HIDE DEF buf
    <3> QED BY <1>1, <1>2, <1>3, TreeWith
  <2>2. /\ index[t] \in [Col -> [Entry -> Nat]]
        /\ \A d \in indexed[t] : Counts(index[t][d], rows[t], d)
        /\ indexed[t] \subseteq Col
    BY InvParts
  <2>3. EntryOf(buf, c, rid) \in Entry
    BY <1>3, ShownDatum DEF EntryOf, Entry
  <2>4. moved \in [Entry -> Nat]
    <3> HIDE DEF row, buf
    <3> QED BY <2>2, <2>3, ErasedType, InsertedType
  <2>5. ixs \in [Col -> [Entry -> Nat]]
    <3> HIDE DEF moved
    <3> QED BY <2>2, <2>4
  <2>6. ASSUME NEW d \in indexed[t] PROVE Counts(ixs[d], rs, d)
    <3>1. CASE d = c
      <4>1. Counts(moved, rs, c)
        <5> HIDE DEF buf
        <5> QED BY <1>1, <1>2, <1>3, <2>2, <3>1, CountsModify
      <4> HIDE DEF moved, rs
      <4> QED BY <2>2, <3>1, <4>1
    <3>2. CASE d # c
      <4>1. Counts(index[t][d], rs, d)
        <5> HIDE DEF buf
        <5> QED BY <1>1, <1>2, <1>3, <2>2, <3>2, CountsOther
      <4> HIDE DEF moved, rs
      <4> QED BY <2>2, <3>2, <4>1
    <3> QED BY <3>1, <3>2
  <2>7. \A d \in Col \ indexed[t] : ixs[d] = index[t][d]
    <3> HIDE DEF moved
    <3> QED BY <2>2
  <2>8. missed' = missed
    <3>1. c \in indexed[t] => Has(index[t][c], EntryOf(row, c, rid))
      BY <1>1, <1>2, <2>2, CountsRemove
    <3> QED BY <1>7, <3>1 DEF Inv, TypeOK
  <2>9. /\ \A r \in DOMAIN rs : r < autoInc'[t]
        /\ autoInc' \in [Tab -> 1 .. MaxRid + 1]
        /\ \A u \in Tab \ {t} : autoInc'[u] = autoInc[u]
    <3> HIDE DEF rs
    <3> QED BY <1>1, <2>1, InvParts DEF Inv, TypeOK
  <2> HIDE DEF rs, ixs
  <2> QED BY <1>1, <1>5, <1>7, <2>1, <2>5, <2>6, <2>7, <2>8, <2>9, InvOneTable
<1>8. PICK ok \in Answers(t, buf, rid, [ShownRow(row) EXCEPT ![c] = v]) :
        /\ IF ok THEN rows' = [rows EXCEPT ![t][rid] = buf] ELSE UNCHANGED rows
        /\ IF ok /\ c \in indexed[t]
           THEN /\ index' = [index EXCEPT
                      ![t][c] = Inserted(Erased(@, OldEntry(t, row, c, v, rid)),
                                         <<v, rid>>)]
                /\ missed' = (missed \/ ~Has(index[t][c], OldEntry(t, row, c, v, rid)))
           ELSE UNCHANGED <<index, missed>>
  BY DEF ModifyRecord
<1>9. index = [index EXCEPT ![t] = index[t]] /\ missed \in BOOLEAN
  BY DEF Inv, TypeOK
<1> HIDE DEF buf, row
<1>10. CASE ~ok
  BY <1>6, <1>8, <1>10
<1>11. CASE ok /\ c \notin indexed[t]
  BY <1>7, <1>8, <1>9, <1>11
<1>12. CASE ok /\ c \in indexed[t]
  BY <1>4, <1>7, <1>8, <1>9, <1>12
<1> QED BY <1>10, <1>11, <1>12

(* create_index() on a table without rows starts with the right entries:   *)
(* none.                                                                   *)
LEMMA InvCreateIndex ==
    ASSUME LateIndex = FALSE, Inv, NEW t \in Tab, NEW c \in Col, CreateIndex(t, c)
    PROVE  Inv'
<1>1. /\ DOMAIN rows[t] = {}
      /\ indexed' = [indexed EXCEPT ![t] = @ \cup {c}]
      /\ c \in Col \ indexed[t]
      /\ UNCHANGED <<rows, index, autoInc, tmpWord, missed>>
  BY DEF CreateIndex
<1>2. /\ indexed'[t] = indexed[t] \cup {c}
      /\ \A u \in Tab \ {t} : indexed'[u] = indexed[u]
  BY <1>1 DEF Inv, TypeOK
<1>3. TypeOK' /\ Fresh' /\ ErasesFind'
  BY <1>1 DEF Inv, TypeOK, Fresh, ErasesFind
<1>4. Unindexed'
  BY <1>1, <1>2 DEF Inv, Unindexed
<1>5. IndexExact'
  <2> SUFFICES ASSUME NEW u \in Tab, NEW d \in indexed'[u]
               PROVE  Counts(index[u][d], rows[u], d)
    BY <1>1 DEF IndexExact, Counts
  <2>1. CASE u = t /\ d = c
    BY <1>1, <2>1 DEF Inv, Unindexed, Counts
  <2>2. CASE ~(u = t /\ d = c)
    BY <1>2, <2>2, InvParts
  <2> QED BY <2>1, <2>2
<1> QED BY <1>3, <1>4, <1>5 DEF Inv

(* Every step keeps the invariant. *)
LEMMA InvNext ==
    ASSUME NullUpdates = FALSE, LateIndex = FALSE, Inv, [Next]_vars
    PROVE  Inv'
<1>1. ASSUME NEW t \in Tab, NEW given \in Given(t), InsertRecord(t, given)
      PROVE  Inv'
  BY <1>1, InvInsertRecord
<1>2. ASSUME NEW t \in Tab, InsertAborted(t)
      PROVE  Inv'
  <2>1. tmpWord' \in [Tab -> Value \cup Rid]
    BY <1>2 DEF InsertAborted, Inv, TypeOK, Value
  <2> QED BY <1>2, <2>1, InvSameTrees DEF InsertAborted
<1>3. ASSUME NEW t \in Tab, NEW rid \in Rid, RemoveRecord(t, rid)
      PROVE  Inv'
  BY <1>3, InvRemoveRecord
<1>4. ASSUME NEW t \in Tab, NEW rid \in Rid, NEW c \in Col,
             NEW v \in Stored \cup {Null}, ModifyRecord(t, rid, c, v)
      PROVE  Inv'
  BY <1>4, InvModifyRecord
<1>5. ASSUME NEW t \in Tab, NEW c \in Col, CreateIndex(t, c)
      PROVE  Inv'
  BY <1>5, InvCreateIndex
<1>6. ASSUME NEW t \in Tab, Reopen(t)
      PROVE  Inv'
  <2>1. tmpWord' \in [Tab -> Value \cup Rid]
    BY <1>6 DEF Reopen, Inv, TypeOK
  <2> QED BY <1>6, <2>1, InvSameTrees DEF Reopen
<1>7. CASE UNCHANGED vars
  BY <1>7, InvSameTrees DEF vars, Inv, TypeOK
<1> QED BY <1>1, <1>2, <1>3, <1>4, <1>5, <1>6, <1>7 DEF Next

-----------------------------------------------------------------------------
(* The state of the tables stays well-formed. *)
THEOREM TypeCorrect ==
    ASSUME NullUpdates = FALSE, LateIndex = FALSE
    PROVE  Spec => []TypeOK
<1>1. Init => Inv
  BY InvInit
<1>2. Inv /\ [Next]_vars => Inv'
  BY InvNext
<1>3. Inv => TypeOK
  BY DEF Inv
<1> QED BY <1>1, <1>2, <1>3, PTL DEF Spec

(* Every index agrees with the rows of its table: insert_record(),         *)
(* remove_record() and modify_record() keep the two trees in step.         *)
THEOREM IndicesExact ==
    ASSUME NullUpdates = FALSE, LateIndex = FALSE
    PROVE  Spec => []IndexExact
<1>1. Init => Inv
  BY InvInit
<1>2. Inv /\ [Next]_vars => Inv'
  BY InvNext
<1>3. Inv => IndexExact
  BY DEF Inv
<1> QED BY <1>1, <1>2, <1>3, PTL DEF Spec

(* The assert of index_manager::erase() never fails: whatever is erased    *)
(* from an index is in it.                                                 *)
THEOREM ErasesFindEntries ==
    ASSUME NullUpdates = FALSE, LateIndex = FALSE
    PROVE  Spec => []ErasesFind
<1>1. Init => Inv
  BY InvInit
<1>2. Inv /\ [Next]_vars => Inv'
  BY InvNext
<1>3. Inv => ErasesFind
  BY DEF Inv
<1> QED BY <1>1, <1>2, <1>3, PTL DEF Spec
-----------------------------------------------------------------------------
(* What the refinement rests on besides Inv.  A value that is no NULL was  *)
(* stored; the bytes under a NULL are what init_temp_record() left there.  *)
Held(t, row) ==
    \A c \in Col : IF c \in row.nulls THEN row.bytes[c] = BaseBytes(t, c)
                   ELSE row.bytes[c] \in Stored

RowsHeld ==
    \A t \in Tab : \A r \in DOMAIN rows[t] :
        Held(t, rows[t][r]) /\ NotNullHolds(t, rows[t][r])

(* A column that has an index from the beginning keeps it. *)
KeysIndexed == \A t \in Tab : IndexedAtCreate(t) \subseteq indexed[t]

RowInv == Inv /\ RowsHeld /\ KeysIndexed

(* The checks that look at bytes alone cannot take a NULL for a value: the *)
(* column is never NULL, or what is under its NULLs is no value.           *)
Apart(t, c) == c \in NotNullCols(t) \/ BaseBytes(t, c) \notin Stored

(* What the theorem asks of CREATE TABLE: this of unique and foreign key   *)
(* columns, and that a foreign key refers to a key, which has an index.    *)
KeysApart ==
    \A t \in Tab :
        /\ \A c \in Decl[t].unique : Apart(t, c)
        /\ \A fk \in Decl[t].foreign :
              Apart(t, fk.col) /\ fk.ref \in IndexedAtCreate(fk.tab)

(* A set of entries from some value on has a least one. *)
LEMMA LeastEntry ==
    ASSUME NEW b \in Int, NEW es \in SUBSET Entry, es # {},
           \A e \in es : e[1] \in Int /\ e[1] >= b
    PROVE  /\ Least(es) \in es
           /\ \A f \in es : Least(es) = f \/ Before(Least(es), f)
<1>1. \A e \in es : e[2] \in Nat /\ e = <<e[1], e[2]>>
  BY DEF Entry, Rid
<1> DEFINE V == {e[1] - b : e \in es}
<1>2. V \in SUBSET Nat /\ V # {}
  OBVIOUS
<1>3. PICK m \in V : \A k \in V : m <= k
  <2> HIDE DEF V
  <2> QED
    BY <1>2, LeastNat
<1> DEFINE R == {e[2] : e \in {d \in es : d[1] - b = m}}
<1>4. R \in SUBSET Nat /\ R # {}
  BY <1>1
<1>5. PICK n \in R : \A k \in R : n <= k
  <2> HIDE DEF R
  <2> QED
    BY <1>4, LeastNat
<1>6. PICK e0 \in es : e0[1] - b = m /\ e0[2] = n
  OBVIOUS
<1>7. ASSUME NEW f \in es PROVE e0 = f \/ Before(e0, f)
  <2>1. m <= f[1] - b /\ f[1] \in Int /\ e0[1] \in Int /\ m \in Int
    BY <1>3
  <2>2. CASE m = f[1] - b
    <3>1. f[2] \in R
      BY <2>2
    <3>2. e0[2] <= f[2] /\ f[2] \in Nat /\ e0[2] \in Nat
      BY <1>1, <1>5, <1>6, <3>1
    <3>3. e0[1] = f[1]
      BY <1>6, <2>1, <2>2
    <3> QED
      BY <1>1, <3>2, <3>3 DEF Before
  <2>3. CASE m # f[1] - b
    <3>1. e0[1] < f[1]
      BY <1>6, <2>1, <2>3
    <3>2. e0[1] # Null /\ f[1] # Null
      BY <2>1, TableAssumption
    <3> QED
      BY <3>1, <3>2 DEF Before
  <2> QED
    BY <2>2, <2>3
<1> HIDE DEF V, R
<1> QED
  BY <1>7 DEF Least

(* The entries from a value on are the rows that show one not below it. *)
LEMMA FromRows ==
    ASSUME Inv, NEW t \in Tab, NEW c \in indexed[t], NEW b \in Int
    PROVE  /\ From(t, c, b) =
                {e \in Entry : /\ e[2] \in DOMAIN rows[t]
                              /\ Shown(rows[t][e[2]], c) = e[1]
                              /\ e[1] # Null /\ e[1] >= b}
           /\ \A e \in From(t, c, b) :
                /\ e[1] \in Int /\ e[2] \in DOMAIN rows[t]
                /\ rows[t][e[2]].bytes[c] = e[1] /\ c \notin rows[t][e[2]].nulls
                /\ index[t][c][e] = 1
                /\ e = <<e[1], e[2]>>
<1>1. \A e \in Entry :
         index[t][c][e] = IF e[2] \in DOMAIN rows[t]
                             /\ Shown(rows[t][e[2]], c) = e[1] THEN 1 ELSE 0
  BY InvParts DEF Counts
<1>2. \A e \in Entry : e[1] # Null => e[1] \in Int
  <2>1. Stored \subseteq Int
    BY TableAssumption
  <2>2. \A x \in Datum : x # Null => x \in Int
    BY <2>1 DEF Datum, Value
  <2> QED
    BY <2>2 DEF Entry
<1>3. From(t, c, b) =
        {e \in Entry : /\ e[2] \in DOMAIN rows[t]
                      /\ Shown(rows[t][e[2]], c) = e[1]
                      /\ e[1] # Null /\ e[1] >= b}
  BY <1>1 DEF From
<1>4. \A e \in Entry : e = <<e[1], e[2]>>
  BY DEF Entry
<1> QED
  BY <1>1, <1>2, <1>3, <1>4 DEF Shown

(* open_record_from_index_lower_bound() opens the row of the entry. *)
LEMMA DestIsRow ==
    ASSUME Inv, NEW t \in Tab, NEW e, e[2] \in DOMAIN rows[t]
    PROVE  DestRid(t, e) = e[2]
<1> DEFINE later == {r \in DOMAIN rows[t] : r >= e[2]}
<1>1. \A r \in DOMAIN rows[t] : r \in Nat
  BY InvParts DEF Rid
<1>2. e[2] \in later /\ \A y \in later : e[2] <= y
  BY <1>1
<1>3. \A x \in later : (\A y \in later : x <= y) => x = e[2]
  BY <1>1, <1>2
<1>4. Smallest(later) = e[2]
  <2> HIDE DEF later
  <2> QED
    BY <1>2, <1>3 DEF Smallest
<1> QED
  BY <1>2, <1>4 DEF DestRid

(* The row an id names has an entry in every index that is not NULL there. *)
LEMMA RowEntry ==
    ASSUME Inv, NEW t \in Tab, NEW c \in indexed[t], NEW b \in Int,
           NEW r \in DOMAIN rows[t], Shown(rows[t][r], c) # Null,
           Shown(rows[t][r], c) >= b
    PROVE  <<Shown(rows[t][r], c), r>> \in From(t, c, b)
<1>1. rows[t][r] \in Row /\ r \in Rid /\ c \in Col
  BY InvParts
<1>2. <<Shown(rows[t][r], c), r>> \in Entry
  BY <1>1, ShownDatum DEF Entry
<1> QED
  BY <1>2, FromRows

(* What the entry a check looks at says: the first of some entries from b  *)
(* on has value b when one of them does.                                   *)
LEMMA LeastHasKey ==
    ASSUME Inv, NEW t \in Tab, NEW c \in indexed[t], NEW b \in Int,
           NEW es \in SUBSET From(t, c, b), es # {}
    PROVE  /\ DestRid(t, Least(es)) = Least(es)[2]
           /\ Least(es) \in es
           /\ rows[t][DestRid(t, Least(es))].bytes[c] = b
                <=> \E e \in es : e[1] = b
<1>1. es \in SUBSET Entry /\ \A e \in es : e[1] \in Int /\ e[1] >= b
  BY FromRows
<1>2. Least(es) \in es /\ \A f \in es : Least(es) = f \/ Before(Least(es), f)
  BY <1>1, LeastEntry
<1> DEFINE first == Least(es)
<1>3. /\ first[2] \in DOMAIN rows[t] /\ rows[t][first[2]].bytes[c] = first[1]
      /\ first[1] \in Int /\ first[1] >= b
  BY <1>2, FromRows
<1>4. DestRid(t, first) = first[2]
  BY <1>3, DestIsRow
<1>5. ASSUME NEW e \in es, e[1] = b PROVE first[1] = b
  <2>1. first = e \/ Before(first, e)
    BY <1>2, <1>5
  <2>2. first = e \/ first[1] < e[1] \/ first[1] = e[1]
    <3>1. Null \notin Int
      BY TableAssumption
    <3> HIDE DEF first
    <3> QED
      BY <1>3, <2>1, <3>1 DEF Before
  <2> HIDE DEF first
  <2> QED
    BY <1>3, <1>5, <2>2
<1> QED
  BY <1>2, <1>3, <1>4, <1>5

(* check_unique() answers whether another row has the bytes, in a column   *)
(* that has an index and rows that show a value there.                     *)
Doubles(t, rid, c, b) ==
    \E r \in DOMAIN rows[t] \ {rid} : Shown(rows[t][r], c) = b

(* It does, whatever entries the index holds besides. *)
LEMMA UniqueByBytes ==
    ASSUME Inv, NEW t \in Tab, NEW c \in indexed[t], NEW rid, NEW buf \in Row
    PROVE  UniqueAnswers(t, buf, rid, c) = {~Doubles(t, rid, c, buf.bytes[c])}
<1> DEFINE b  == buf.bytes[c]
           all == From(t, c, b)
           es == OwnSkipped(t, c, all, rid)
           first == Least(all)
<1>1. c \in Col /\ b \in Int
  <2>1. c \in Col
    BY InvParts
  <2>2. b \in Value /\ Value \subseteq Int
    BY <2>1, TableAssumption DEF Row, Value
  <2> QED
    BY <2>1, <2>2
<1>2. /\ \A e \in all : /\ e[1] \in Int /\ e[2] \in DOMAIN rows[t] /\ index[t][c][e] = 1
                        /\ Shown(rows[t][e[2]], c) = e[1]
      /\ all \in SUBSET From(t, c, b)
  BY <1>1, FromRows
<1>3. es \in SUBSET From(t, c, b)
  BY DEF OwnSkipped
<1>4. es = IF all # {} /\ first[2] = rid THEN all \ {first} ELSE all
  <2>1. all # {} => /\ DestRid(t, first) = first[2] /\ first \in all
                    /\ index[t][c][first] = 1
    <3> HIDE DEF b
    <3> QED
      BY <1>1, <1>2, LeastHasKey
  <2> QED
    BY <2>1 DEF OwnSkipped
<1>5. Doubles(t, rid, c, b) <=> \E e \in es : e[1] = b
  <2>1. ASSUME NEW e \in es, e[1] = b PROVE Doubles(t, rid, c, b)
    <3>1. e \in all /\ e[2] \in DOMAIN rows[t] /\ Shown(rows[t][e[2]], c) = b
      BY <1>2, <1>3, <2>1
    <3>2. CASE e[2] # rid
      BY <3>1, <3>2 DEF Doubles
    <3>3. CASE e[2] = rid
      <4>1. first \in all /\ (rows[t][DestRid(t, first)].bytes[c] = b)
               /\ DestRid(t, first) = first[2]
        <5> HIDE DEF b
        <5> QED
          BY <1>1, <1>2, <2>1, <3>1, LeastHasKey
      <4>2. first[1] = b /\ first = <<first[1], first[2]>> /\ e = <<e[1], e[2]>>
        BY <1>1, <1>2, <3>1, <4>1, FromRows
      <4>3. first[2] # rid
        BY <1>4, <2>1, <3>3, <4>2
      <4>4. first[2] \in DOMAIN rows[t] /\ Shown(rows[t][first[2]], c) = b
        BY <1>2, <4>1, <4>2
      <4> QED
        BY <4>3, <4>4 DEF Doubles
    <3> QED
      BY <3>2, <3>3
  <2>2. ASSUME Doubles(t, rid, c, b) PROVE \E e \in es : e[1] = b
    <3>1. PICK r \in DOMAIN rows[t] \ {rid} : Shown(rows[t][r], c) = b
      BY <2>2 DEF Doubles
    <3>2. <<b, r>> \in all
      <4>1. Null \notin Int
        BY TableAssumption
      <4> HIDE DEF b
      <4> QED
        BY <1>1, <3>1, <4>1, RowEntry
    <3>3. <<b, r>> \in es
      BY <1>4, <3>1, <3>2
    <3> QED
      BY <3>3
  <2> QED
    BY <2>1, <2>2
<1>6. CASE es = {}
  <2>1. UniqueAnswers(t, buf, rid, c) = {TRUE}
    BY <1>6 DEF UniqueAnswers
  <2> QED
    BY <1>5, <1>6, <2>1
<1>7. CASE es # {}
  <2>1. /\ DestRid(t, Least(es)) = Least(es)[2] /\ Least(es) \in es
        /\ rows[t][DestRid(t, Least(es))].bytes[c] = b <=> \E e \in es : e[1] = b
    <3> HIDE DEF b, es
    <3> QED
      BY <1>1, <1>3, <1>7, LeastHasKey
  <2>2. DestRid(t, Least(es)) # 0
    <3>1. Least(es)[2] \in DOMAIN rows[t] /\ DOMAIN rows[t] \subseteq Rid
      BY <1>2, <1>3, <2>1, InvParts
    <3>2. 0 \notin Rid
      BY TableAssumption DEF Rid
    <3> HIDE DEF es
    <3> QED
      BY <2>1, <3>1, <3>2
  <2>3. UniqueAnswers(t, buf, rid, c) = {rows[t][DestRid(t, Least(es))].bytes[c] # b}
    BY <1>7, <2>2 DEF UniqueAnswers
  <2> HIDE DEF es, b
  <2>4. ~Doubles(t, rid, c, b) <=> rows[t][DestRid(t, Least(es))].bytes[c] # b
    BY <1>5, <2>1
  <2>5. Doubles(t, rid, c, b) \in BOOLEAN
    BY DEF Doubles
  <2> QED
    BY <2>3, <2>4, <2>5 DEF b
<1> QED
  BY <1>6, <1>7

(* Another row with the value, as ConstrainedRows says it: NULL has none.  *)
LEMMA NoDouble ==
    ASSUME RowInv, NEW t \in Tab, NEW c \in Col, NEW rid, NEW buf \in Row,
           Held(t, buf), c \in buf.nulls => BaseBytes(t, c) \notin Stored
    PROVE  Doubles(t, rid, c, buf.bytes[c]) <=>
              \E r \in DOMAIN rows[t] \ {rid} :
                 Rows!Equal(Shown(rows[t][r], c), Shown(buf, c))
<1>1. \A r \in DOMAIN rows[t] :
         Shown(rows[t][r], c) = Null \/ Shown(rows[t][r], c) \in Stored
  BY DEF RowInv, RowsHeld, Held, Shown
<1>2. buf.bytes[c] # Null
  <2>1. buf.bytes[c] \in Value /\ Value \subseteq Int /\ Null \notin Int
    BY TableAssumption DEF Row, Value
  <2> QED
    BY <2>1
<1>3. CASE c \in buf.nulls
  <2>1. buf.bytes[c] \notin Stored /\ Shown(buf, c) = Null
    BY <1>3 DEF Held, Shown
  <2> QED
    BY <1>1, <1>2, <2>1 DEF Doubles, Rows!Equal
<1>4. CASE c \notin buf.nulls
  <2>1. Shown(buf, c) = buf.bytes[c]
    BY <1>4 DEF Shown
  <2> QED
    BY <1>2, <2>1 DEF Doubles, Rows!Equal
<1> QED
  BY <1>3, <1>4

(* The first primary column of a table that has one. *)
LEMMA FirstPrimaryKey ==
    ASSUME NEW t \in Tab, Decl[t].primary # {}
    PROVE  FirstPrimary(t) \in Decl[t].primary /\ FirstPrimary(t) \in IndexedAtCreate(t)
<1>1. Decl[t].primary \in SUBSET Nat
  BY TableAssumption DEF DeclType
<1>2. PICK k \in Decl[t].primary : \A d \in Decl[t].primary : k <= d
  BY <1>1, LeastNat
<1>3. /\ FirstPrimary(t) \in Decl[t].primary
      /\ \A d \in Decl[t].primary : FirstPrimary(t) <= d
  BY <1>2 DEF FirstPrimary, Smallest
<1> QED
  BY <1>3 DEF IndexedAtCreate

(* check_primary() compares the whole key with every other row that begins *)
(* with the same value, and stops at no row before.                        *)
LEMMA PrimaryExact ==
    ASSUME RowInv, NEW t \in Tab, NEW rid, NEW buf \in Row,
           NotNullHolds(t, buf), Decl[t].primary # {}
    PROVE  PrimaryFree(t, buf, rid) <=>
              \A r \in DOMAIN rows[t] \ {rid} : \E c \in Decl[t].primary :
                 ~Rows!Equal(Shown(rows[t][r], c), Shown(buf, c))
<1> DEFINE k  == FirstPrimary(t)
           b  == buf.bytes[k]
           es == From(t, k, b)
           other(e) == DestRid(t, e) \in DOMAIN rows[t] \ {rid}
           stops(e) == other(e) /\ rows[t][DestRid(t, e)].bytes[k] # b
<1>1. Inv /\ k \in Decl[t].primary /\ k \in indexed[t] /\ k \in Col
  BY FirstPrimaryKey, InvParts DEF RowInv, KeysIndexed
<1>2. b \in Int /\ Null \notin Int /\ Decl[t].primary \subseteq Col
      /\ \A c \in Col, row \in Row : row.bytes[c] # Null
  <2>1. Value \subseteq Int /\ Null \notin Int
    BY TableAssumption DEF Value
  <2>2. Decl[t].primary \subseteq Col
    BY TableAssumption DEF DeclType
  <2> QED
    BY <1>1, <2>1, <2>2 DEF Row
<1>3. \A c \in Decl[t].primary :
         /\ Shown(buf, c) = buf.bytes[c] /\ buf.bytes[c] # Null
         /\ \A r \in DOMAIN rows[t] :
               /\ Shown(rows[t][r], c) = rows[t][r].bytes[c]
               /\ rows[t][r].bytes[c] # Null
  <2>1. \A c \in Decl[t].primary :
           c \notin buf.nulls /\ \A r \in DOMAIN rows[t] : c \notin rows[t][r].nulls
    BY DEF RowInv, RowsHeld, NotNullHolds, NotNullCols
  <2>2. \A r \in DOMAIN rows[t] : rows[t][r] \in Row
    BY <1>1, InvParts
  <2> QED
    BY <1>2, <2>1, <2>2 DEF Shown
<1>4. /\ \A e \in es : /\ DestRid(t, e) = e[2] /\ e[2] \in DOMAIN rows[t]
                       /\ rows[t][e[2]].bytes[k] = e[1] /\ e[1] \in Int /\ e[1] >= b
      /\ \A r \in DOMAIN rows[t] : rows[t][r].bytes[k] = b => <<b, r>> \in es
  <2> HIDE DEF k, b
  <2>1. \A e \in es : /\ e[2] \in DOMAIN rows[t] /\ rows[t][e[2]].bytes[k] = e[1]
                     /\ e[1] \in Int /\ e[1] >= b
    BY <1>1, <1>2, FromRows
  <2>2. \A e \in es : DestRid(t, e) = e[2]
    BY <1>1, <2>1, DestIsRow
  <2>3. \A r \in DOMAIN rows[t] : rows[t][r].bytes[k] = b => <<b, r>> \in es
    BY <1>1, <1>2, <1>3, RowEntry
  <2> QED
    BY <2>1, <2>2, <2>3
<1>5. PrimaryFree(t, buf, rid) <=>
         ~ \E e \in es : /\ other(e) /\ SameKey(t, DestRid(t, e), buf)
                        /\ \A f \in es : Before(f, e) => ~stops(f)
  BY DEF PrimaryFree
<1>6. \A r \in DOMAIN rows[t] :
         SameKey(t, r, buf) <=>
            \A c \in Decl[t].primary : Rows!Equal(Shown(rows[t][r], c), Shown(buf, c))
  BY <1>3 DEF SameKey, Rows!Equal
<1>7. ASSUME NEW r \in DOMAIN rows[t] \ {rid}, SameKey(t, r, buf)
      PROVE  ~PrimaryFree(t, buf, rid)
  <2> DEFINE e == <<b, r>>
  <2>1. rows[t][r].bytes[k] = b
    BY <1>1, <1>7 DEF SameKey
  <2>2. e \in es
    BY <1>4, <2>1
  <2>3. DestRid(t, e) = r
    <3>1. e[2] = r
      OBVIOUS
    <3> QED
      BY <1>4, <2>2, <3>1
  <2>4. ASSUME NEW f \in es, Before(f, e) PROVE ~stops(f)
    <3>1. f[1] \in Int /\ f[1] >= b /\ e[1] = b
      BY <1>4
    <3>2. f[1] = b
      <4> HIDE DEF es
      <4> QED
        BY <1>2, <2>4, <3>1 DEF Before
    <3> QED
      BY <1>4, <3>2
  <2> QED
    BY <1>5, <1>7, <2>2, <2>3, <2>4
<1>8. ASSUME ~PrimaryFree(t, buf, rid)
      PROVE  \E r \in DOMAIN rows[t] \ {rid} : SameKey(t, r, buf)
  BY <1>5, <1>8
<1> HIDE DEF k, b, es
<1> QED
  BY <1>6, <1>7, <1>8

(* check_foreign() finds a row of the referenced table that shows the      *)
(* value, and none for NULL.                                               *)
LEMMA ForeignExact ==
    ASSUME RowInv, NEW t \in Tab, NEW fk \in Decl[t].foreign, NEW buf \in Row,
           fk.ref \in IndexedAtCreate(fk.tab),
           Held(t, buf), fk.col \in buf.nulls => BaseBytes(t, fk.col) \notin Stored
    PROVE  ForeignAnswers(fk, buf) =
              {\E r \in DOMAIN rows[fk.tab] :
                  Rows!Equal(Shown(rows[fk.tab][r], fk.ref), Shown(buf, fk.col))}
<1> DEFINE u == fk.tab
           key == buf.bytes[fk.col]
           es == From(u, fk.ref, key)
           first == Least(es)
           found == \E r \in DOMAIN rows[u] :
                       Rows!Equal(Shown(rows[u][r], fk.ref), Shown(buf, fk.col))
<1>1. u \in Tab /\ fk.col \in Col /\ fk.ref \in Col /\ fk.ref \in indexed[u] /\ Inv
  BY TableAssumption DEF DeclType, RowInv, KeysIndexed
<1>2. key \in Int /\ key # Null /\ Null \notin Int
  <2>1. Value \subseteq Int /\ Null \notin Int
    BY TableAssumption DEF Value
  <2> QED
    BY <1>1, <2>1 DEF Row
<1>3. \A r \in DOMAIN rows[u] :
         Shown(rows[u][r], fk.ref) = Null \/ Shown(rows[u][r], fk.ref) \in Stored
  BY <1>1 DEF RowInv, RowsHeld, Held, Shown
<1>4. found <=> \E r \in DOMAIN rows[u] : Shown(rows[u][r], fk.ref) = key
  <2>1. CASE fk.col \in buf.nulls
    <3>1. key \notin Stored /\ Shown(buf, fk.col) = Null
      BY <1>1, <2>1 DEF Held, Shown
    <3> QED
      BY <1>2, <1>3, <3>1 DEF Rows!Equal
  <2>2. CASE fk.col \notin buf.nulls
    <3>1. Shown(buf, fk.col) = key
      BY <2>2 DEF Shown
    <3> QED
      BY <1>2, <3>1 DEF Rows!Equal
  <2> QED
    BY <2>1, <2>2
<1>5. found <=> \E e \in es : e[1] = key
  <2>1. \A e \in es : e[2] \in DOMAIN rows[u] /\ Shown(rows[u][e[2]], fk.ref) = e[1]
    <3> HIDE DEF u, key
    <3> QED
      BY <1>1, <1>2, FromRows
  <2>2. \A r \in DOMAIN rows[u] :
           Shown(rows[u][r], fk.ref) = key => <<key, r>> \in es
    <3> HIDE DEF u, key
    <3> QED
      BY <1>1, <1>2, RowEntry
  <2> HIDE DEF es, found, key
  <2>3. \A r : <<key, r>>[1] = key
    OBVIOUS
  <2> QED
    BY <1>4, <2>1, <2>2, <2>3
<1>6. found \in BOOLEAN
  OBVIOUS
<1> HIDE DEF found
<1>7. CASE es = {}
  <2>1. ForeignAnswers(fk, buf) = {FALSE}
    BY <1>7 DEF ForeignAnswers
  <2> QED
    BY <1>5, <1>6, <1>7, <2>1 DEF found
<1>8. CASE es # {}
  <2>1. /\ DestRid(u, first) = first[2] /\ first \in es
        /\ rows[u][DestRid(u, first)].bytes[fk.ref] = key <=> \E e \in es : e[1] = key
    <3> HIDE DEF u, key
    <3> QED
      BY <1>1, <1>2, <1>8, LeastHasKey
  <2>2. DestRid(u, first) # 0
    <3>1. first[2] \in DOMAIN rows[u] /\ DOMAIN rows[u] \subseteq Rid
      <4> HIDE DEF u, key
      <4> QED
        BY <1>1, <1>2, <2>1, FromRows, InvParts
    <3>2. 0 \notin Rid
      BY TableAssumption DEF Rid
    <3> QED
      BY <2>1, <3>1, <3>2
  <2>3. ForeignAnswers(fk, buf) = {rows[u][DestRid(u, first)].bytes[fk.ref] = key}
    BY <1>1, <1>8, <2>2 DEF ForeignAnswers
  <2>4. (rows[u][DestRid(u, first)].bytes[fk.ref] = key) <=> found
    BY <1>5, <2>1
  <2> QED
    BY <1>6, <2>3, <2>4 DEF found
<1> QED
  BY <1>7, <1>8

(* The tables as statements see them. *)
View == [t \in Tab |-> [r \in DOMAIN rows[t] |-> ShownRow(rows[t][r])]]

(* The checks of a row that has its not-null columns set, one by one. *)
KeyFree(t, rid, buf) ==
    Decl[t].primary = {} \/ PrimaryFree(t, buf, rid)

UniqueFree(t, rid, buf, c) == ~Doubles(t, rid, c, buf.bytes[c])

Referred(fk, buf) ==
    \E r \in DOMAIN rows[fk.tab] :
        Rows!Equal(Shown(rows[fk.tab][r], fk.ref), Shown(buf, fk.col))

Passes(t, rid, buf) ==
    /\ NotNullHolds(t, buf)
    /\ KeyFree(t, rid, buf)
    /\ \A c \in Decl[t].unique : UniqueFree(t, rid, buf, c)
    /\ ShownRow(buf) \notin Decl[t].fails
    /\ \A fk \in Decl[t].foreign : Referred(fk, buf)

(* A row with its not-null columns set: the checks pass exactly when the   *)
(* row is valid to those who see no bytes.                                 *)
LEMMA PassesIsValid ==
    ASSUME RowInv, KeysApart, NEW t \in Tab, NEW rid, NEW buf \in Row, Held(t, buf)
    PROVE  Passes(t, rid, buf)
              <=> Rows!Valid(t, ShownRow(buf), DOMAIN rows[t] \ {rid})
<1> DEFINE others == DOMAIN rows[t] \ {rid}
           row == ShownRow(buf)
<1>1. /\ Decl[t].notnull \subseteq Col /\ Decl[t].primary \subseteq Col
      /\ Decl[t].unique \subseteq Col
      /\ \A fk \in Decl[t].foreign : fk.tab \in Tab /\ fk.col \in Col /\ fk.ref \in Col
  BY TableAssumption DEF DeclType
<1>2. /\ \A c \in Col : row[c] = Shown(buf, c)
      /\ \A u \in Tab : /\ DOMAIN View[u] = DOMAIN rows[u]
                        /\ \A r \in DOMAIN rows[u], c \in Col :
                              View[u][r][c] = Shown(rows[u][r], c)
  BY DEF ShownRow, View
<1>3. Rows!Valid(t, row, others) <=>
        /\ \A c \in Decl[t].notnull \cup Decl[t].primary : row[c] # Null
        /\ Decl[t].primary # {} =>
              \A r \in others : \E c \in Decl[t].primary :
                 ~Rows!Equal(View[t][r][c], row[c])
        /\ \A c \in Decl[t].unique, r \in others : ~Rows!Equal(View[t][r][c], row[c])
        /\ row \notin Decl[t].fails
        /\ \A fk \in Decl[t].foreign :
              \E r \in DOMAIN View[fk.tab] :
                  Rows!Equal(View[fk.tab][r][fk.ref], row[fk.col])
  BY DEF Rows!Valid, View
<1>4. NotNullHolds(t, buf) <=>
         \A c \in Decl[t].notnull \cup Decl[t].primary : row[c] # Null
  <2>1. \A c \in Col : buf.bytes[c] # Null
    <3>1. Value \subseteq Int /\ Null \notin Int
      BY TableAssumption DEF Value
    <3> QED
      BY <3>1 DEF Row
  <2>2. \A c \in Col : row[c] = Null <=> c \in buf.nulls
    BY <1>2, <2>1 DEF Shown
  <2> QED
    BY <1>1, <2>2 DEF NotNullHolds, NotNullCols
<1>5. CASE ~NotNullHolds(t, buf)
  BY <1>3, <1>4, <1>5 DEF Passes
<1>6. CASE NotNullHolds(t, buf)
  <2>1. KeyFree(t, rid, buf) <=>
           (Decl[t].primary # {} =>
              \A r \in others : \E c \in Decl[t].primary :
                 ~Rows!Equal(View[t][r][c], row[c]))
    <3>1. CASE Decl[t].primary = {}
      BY <3>1 DEF KeyFree
    <3>2. CASE Decl[t].primary # {}
      <4>1. PrimaryFree(t, buf, rid) <=>
              \A r \in others : \E c \in Decl[t].primary :
                 ~Rows!Equal(Shown(rows[t][r], c), Shown(buf, c))
        BY <1>6, <3>2, PrimaryExact
      <4> QED
        BY <1>1, <1>2, <3>2, <4>1 DEF KeyFree
    <3> QED
      BY <3>1, <3>2
  <2>2. ASSUME NEW c \in Decl[t].unique
        PROVE  UniqueFree(t, rid, buf, c) <=>
                  \A r \in others : ~Rows!Equal(View[t][r][c], row[c])
    <3>1. c \in Col /\ (c \in buf.nulls => BaseBytes(t, c) \notin Stored)
      BY <1>1, <1>6 DEF KeysApart, Apart, NotNullHolds
    <3>2. Doubles(t, rid, c, buf.bytes[c]) <=>
             \E r \in others : Rows!Equal(Shown(rows[t][r], c), Shown(buf, c))
      BY <3>1, NoDouble
    <3> QED
      BY <1>2, <3>1, <3>2 DEF UniqueFree
  <2>3. \A fk \in Decl[t].foreign :
           Referred(fk, buf) <=>
              \E r \in DOMAIN View[fk.tab] :
                  Rows!Equal(View[fk.tab][r][fk.ref], row[fk.col])
    BY <1>1, <1>2 DEF Referred
  <2>4. /\ \A c \in Decl[t].notnull \cup Decl[t].primary : row[c] # Null
        /\ (\A c \in Decl[t].unique : UniqueFree(t, rid, buf, c)) <=>
              \A c \in Decl[t].unique, r \in others : ~Rows!Equal(View[t][r][c], row[c])
        /\ (\A fk \in Decl[t].foreign : Referred(fk, buf)) <=>
              \A fk \in Decl[t].foreign :
                 \E r \in DOMAIN View[fk.tab] :
                     Rows!Equal(View[fk.tab][r][fk.ref], row[fk.col])
    <3> HIDE DEF row, others
    <3> QED
      BY <1>4, <1>6, <2>2, <2>3
  <2>5. Passes(t, rid, buf) <=> Rows!Valid(t, row, others)
    <3>1. Passes(t, rid, buf) <=>
            /\ KeyFree(t, rid, buf)
            /\ \A c \in Decl[t].unique : UniqueFree(t, rid, buf, c)
            /\ row \notin Decl[t].fails
            /\ \A fk \in Decl[t].foreign : Referred(fk, buf)
      BY <1>6 DEF Passes
    <3> HIDE DEF row, others
    <3> QED
      BY <1>3, <2>1, <2>4, <3>1
  <2> QED
    BY <2>5
<1> QED
  BY <1>5, <1>6

(* check_constraints() gives one answer, and it is the right one: it never *)
(* reads through an unset pointer.                                         *)
LEMMA AnswersExact ==
    ASSUME RowInv, KeysApart, NEW t \in Tab, NEW rid, NEW buf \in Row, Held(t, buf),
           NEW ok \in Answers(t, buf, rid, ShownRow(buf))
    PROVE  ok = Rows!Valid(t, ShownRow(buf), DOMAIN rows[t] \ {rid})
<1> DEFINE fixed == {{NotNullHolds(t, buf)},
                     {KeyFree(t, rid, buf)},
                     {ShownRow(buf) \notin Decl[t].fails}}
           uniques == {UniqueAnswers(t, buf, rid, c) : c \in Decl[t].unique}
           foreigns == {ForeignAnswers(fk, buf) : fk \in Decl[t].foreign}
           each == fixed \cup uniques \cup foreigns
<1>1. /\ ok \in BOOLEAN
      /\ ok => \A a \in each : TRUE \in a
      /\ ~ok => \E a \in each : FALSE \in a
  BY DEF Answers, KeyFree
<1>2. /\ Decl[t].unique \subseteq indexed[t]
      /\ \A fk \in Decl[t].foreign : Apart(t, fk.col) /\ fk.ref \in IndexedAtCreate(fk.tab)
      /\ Inv
  BY DEF RowInv, KeysIndexed, IndexedAtCreate, KeysApart
<1>3. \A c \in Decl[t].unique :
         UniqueAnswers(t, buf, rid, c) = {UniqueFree(t, rid, buf, c)}
  BY <1>2, UniqueByBytes DEF UniqueFree
<1>4. ASSUME NotNullHolds(t, buf), NEW fk \in Decl[t].foreign
      PROVE  ForeignAnswers(fk, buf) = {Referred(fk, buf)}
  <2>1. fk.col \in buf.nulls => BaseBytes(t, fk.col) \notin Stored
    BY <1>2, <1>4 DEF Apart, NotNullHolds
  <2> QED
    BY <1>2, <2>1, ForeignExact DEF Referred
<1>5. ok => Passes(t, rid, buf)
  <2> SUFFICES ASSUME ok PROVE Passes(t, rid, buf)
    OBVIOUS
  <2>1. \A a \in each : TRUE \in a
    BY <1>1
  <2>2. {NotNullHolds(t, buf)} \in each /\ {KeyFree(t, rid, buf)} \in each
        /\ {ShownRow(buf) \notin Decl[t].fails} \in each
        /\ \A c \in Decl[t].unique : UniqueAnswers(t, buf, rid, c) \in each
        /\ \A fk \in Decl[t].foreign : ForeignAnswers(fk, buf) \in each
    OBVIOUS
  <2> HIDE DEF each
  <2>3. NotNullHolds(t, buf) /\ KeyFree(t, rid, buf) /\ ShownRow(buf) \notin Decl[t].fails
    BY <2>1, <2>2
  <2>4. \A c \in Decl[t].unique : UniqueFree(t, rid, buf, c)
    BY <1>3, <2>1, <2>2
  <2>5. ASSUME NEW fk \in Decl[t].foreign PROVE Referred(fk, buf)
    <3>1. ForeignAnswers(fk, buf) = {Referred(fk, buf)}
      BY <1>4, <2>3
    <3>2. TRUE \in ForeignAnswers(fk, buf)
      <4>1. ForeignAnswers(fk, buf) \in each
        BY DEF each
      <4> QED
        BY <2>1, <4>1
    <3>3. Referred(fk, buf) \in BOOLEAN
      BY DEF Referred
    <3>4. TRUE \in {Referred(fk, buf)}
      BY <3>1, <3>2
    <3> QED
      BY <3>3, <3>4
  <2> QED
    BY <2>3, <2>4, <2>5 DEF Passes
<1>6. ASSUME Passes(t, rid, buf), NEW a \in each PROVE FALSE \notin a
  <2>1. CASE a \in fixed
    BY <1>6, <2>1 DEF Passes
  <2>2. CASE a \in uniques
    <3>1. PICK c \in Decl[t].unique : a = UniqueAnswers(t, buf, rid, c)
      BY <2>2
    <3>2. UniqueFree(t, rid, buf, c)
      BY <1>6 DEF Passes
    <3>3. a = {UniqueFree(t, rid, buf, c)}
      BY <1>3, <3>1
    <3> QED
      BY <3>2, <3>3
  <2>3. CASE a \in foreigns
    <3>1. PICK fk \in Decl[t].foreign : a = ForeignAnswers(fk, buf)
      BY <2>3
    <3>2. Referred(fk, buf) /\ NotNullHolds(t, buf)
      BY <1>6 DEF Passes
    <3>3. a = {Referred(fk, buf)}
      BY <1>4, <3>1, <3>2
    <3> QED
      BY <3>2, <3>3
  <2> QED
    BY <2>1, <2>2, <2>3
<1>7. ok <=> Passes(t, rid, buf)
  <2> HIDE DEF each
  <2> QED
    BY <1>1, <1>5, <1>6
<1>8. ok <=> Rows!Valid(t, ShownRow(buf), DOMAIN rows[t] \ {rid})
  BY <1>7, PassesIsValid
<1>9. Rows!Valid(t, ShownRow(buf), DOMAIN rows[t] \ {rid}) \in BOOLEAN
  BY DEF Rows!Valid
<1> QED
  BY <1>1, <1>8, <1>9

-----------------------------------------------------------------------------
(* The other parts of the invariant.  init_temp_record() and               *)
(* set_temp_record() leave defaults under the NULLs.                       *)
LEMMA TempRecordHeld ==
    ASSUME NEW t \in Tab, NEW given \in Given(t)
    PROVE  Held(t, TempRecord(t, given))
<1>1. /\ Decl[t].default \in [Col -> Stored \cup {Omitted}]
      /\ Null \notin Stored /\ Omitted \notin Stored \cup {Null}
  BY TableAssumption DEF DeclType
<1> SUFFICES ASSUME NEW c \in Col
             PROVE  IF given[c] = Null
                    THEN TempRecord(t, given).bytes[c] = BaseBytes(t, c)
                    ELSE TempRecord(t, given).bytes[c] \in Stored
  BY DEF Held, TempRecord
<1>2. /\ given[c] \in Stored \cup {Null, Omitted}
      /\ given[c] = Omitted => Decl[t].default[c] # Omitted
  BY DEF Given
<1>3. TempRecord(t, given).bytes[c] =
         IF given[c] \in Stored THEN given[c] ELSE BaseBytes(t, c)
  BY DEF TempRecord
<1> QED
  BY <1>1, <1>2, <1>3 DEF BaseBytes

(* modify_record() writes a value over a value and leaves a NULL alone.    *)
LEMMA PatchedHeld ==
    ASSUME NEW t \in Tab, NEW row \in Row, Held(t, row), NEW c \in Col,
           NEW v \in Stored \cup {Null}, c \in row.nulls <=> v = Null
    PROVE  /\ Held(t, Patched(row, c, v))
           /\ ShownRow(Patched(row, c, v)) = [ShownRow(row) EXCEPT ![c] = v]
<1>1. Null \notin Stored
  BY TableAssumption
<1>2. /\ Patched(row, c, v).nulls = row.nulls
      /\ \A d \in Col : Patched(row, c, v).bytes[d] =
                          IF d = c /\ v # Null THEN v ELSE row.bytes[d]
  BY DEF Patched, Row
<1>3. \A d \in Col : IF d \in row.nulls
                      THEN Patched(row, c, v).bytes[d] = BaseBytes(t, d)
                      ELSE Patched(row, c, v).bytes[d] \in Stored
  <2> SUFFICES ASSUME NEW d \in Col
               PROVE  IF d \in row.nulls
                      THEN Patched(row, c, v).bytes[d] = BaseBytes(t, d)
                      ELSE Patched(row, c, v).bytes[d] \in Stored
    OBVIOUS
  <2>1. CASE d = c
    BY <1>2, <2>1 DEF Held
  <2>2. CASE d # c
    BY <1>2, <2>2 DEF Held
  <2> QED
    BY <2>1, <2>2
<1>4. Held(t, Patched(row, c, v))
  BY <1>2, <1>3 DEF Held
<1>5. \A d \in Col : Shown(Patched(row, c, v), d) =
                        IF d = c THEN v ELSE Shown(row, d)
  BY PatchedRow
<1>6. ShownRow(Patched(row, c, v)) = [ShownRow(row) EXCEPT ![c] = v]
  BY <1>5 DEF ShownRow
<1> QED
  BY <1>4, <1>6

(* Empty tables are in order. *)
LEMMA RowInvInit == Init => RowInv
<1> SUFFICES ASSUME Init PROVE RowInv
  OBVIOUS
<1>1. RowsHeld
  BY DEF Init, RowsHeld
<1>2. KeysIndexed
  BY DEF Init, KeysIndexed
<1> QED
  BY <1>1, <1>2, InvInit DEF RowInv

(* An accepted row has its not-null columns set. *)
LEMMA AcceptedNotNull ==
    ASSUME NEW t, NEW buf, NEW rid, NEW shown, NEW ok \in Answers(t, buf, rid, shown), ok
    PROVE  NotNullHolds(t, buf)
<1>1. \A a \in {{NotNullHolds(t, buf)},
               {Decl[t].primary = {} \/ PrimaryFree(t, buf, rid)},
               {shown \notin Decl[t].fails}}
              \cup {UniqueAnswers(t, buf, rid, c) : c \in Decl[t].unique}
              \cup {ForeignAnswers(fk, buf) : fk \in Decl[t].foreign} : TRUE \in a
  BY DEF Answers
<1>2. TRUE \in {NotNullHolds(t, buf)}
  BY <1>1
<1> QED
  BY <1>2

(* Every step keeps the rows as the checks need them. *)
LEMMA RowInvStep ==
    ASSUME NullUpdates = FALSE, LateIndex = FALSE, RowInv, [Next]_vars
    PROVE  RowInv'
<1>1. Inv'
  BY InvNext DEF RowInv
<1>2. KeysIndexed'
  <2>1. \A t \in Tab : indexed[t] \subseteq indexed'[t]
    <3>1. CASE \E t \in Tab, c \in Col : CreateIndex(t, c)
      BY <3>1 DEF RowInv, Inv, TypeOK, CreateIndex
    <3>2. \A t \in Tab :
             /\ \A given \in Given(t) : InsertRecord(t, given) => indexed' = indexed
             /\ InsertAborted(t) \/ Reopen(t) => indexed' = indexed
             /\ \A rid \in Rid : RemoveRecord(t, rid) => indexed' = indexed
      BY DEF InsertRecord, InsertAborted, RemoveRecord, Reopen
    <3>3. \A t \in Tab, rid \in Rid, c \in Col, v \in Stored \cup {Null} :
             ModifyRecord(t, rid, c, v) => indexed' = indexed
      BY DEF ModifyRecord
    <3>4. CASE UNCHANGED vars
      BY <3>4 DEF vars
    <3> QED
      BY <3>1, <3>2, <3>3, <3>4 DEF Next
  <2> QED
    BY <2>1 DEF RowInv, KeysIndexed, IndexedAtCreate
<1>3. \A t \in Tab : \A r \in DOMAIN rows[t] :
         /\ rows[t][r] \in Row /\ Held(t, rows[t][r]) /\ NotNullHolds(t, rows[t][r])
         /\ r # autoInc[t]
  BY InvParts DEF RowInv, RowsHeld, Rid
<1>4. RowsHeld'
  <2>1. ASSUME rows' = rows PROVE RowsHeld'
    BY <2>1, <1>3 DEF RowsHeld
  <2>2. ASSUME NEW t \in Tab, NEW given \in Given(t), InsertRecord(t, given)
        PROVE  RowsHeld'
    <3> DEFINE row == TempRecord(t, given)
               rid == autoInc[t]
    <3>1. PICK ok \in Answers(t, row, rid, ShownRow(row)) :
             IF ok THEN rows' = [rows EXCEPT ![t] = With(@, rid, row)]
                   ELSE UNCHANGED rows
      BY <2>2 DEF InsertRecord, With
    <3>2. Held(t, row)
      BY TempRecordHeld
    <3>3. CASE ok
      <4>1. NotNullHolds(t, row)
        BY <3>1, <3>3, AcceptedNotNull
      <4>2. /\ \A u \in Tab : u # t => rows'[u] = rows[u]
            /\ rows'[t] = With(rows[t], rid, row)
        BY <3>1, <3>3 DEF RowInv, Inv, TypeOK
      <4>3. \A r \in DOMAIN rows'[t] :
               (r = rid /\ rows'[t][r] = row)
               \/ (r \in DOMAIN rows[t] /\ rows'[t][r] = rows[t][r])
        BY <4>2 DEF With
      <4> HIDE DEF row, rid
      <4> QED
        BY <1>3, <3>2, <4>1, <4>2, <4>3 DEF RowsHeld
    <3>4. CASE ~ok
      BY <2>1, <3>1, <3>4
    <3> QED
      BY <3>3, <3>4
  <2>3. ASSUME NEW t \in Tab, NEW rid \in Rid, RemoveRecord(t, rid)
        PROVE  RowsHeld'
    <3>1. rows' = [rows EXCEPT ![t] = Without(@, rid)]
      BY <2>3 DEF RemoveRecord, Without
    <3>2. /\ \A u \in Tab : u # t => rows'[u] = rows[u]
          /\ rows'[t] = Without(rows[t], rid)
      BY <3>1 DEF RowInv, Inv, TypeOK
    <3>3. \A r \in DOMAIN rows'[t] : r \in DOMAIN rows[t] /\ rows'[t][r] = rows[t][r]
      BY <3>2 DEF Without
    <3> QED
      BY <1>3, <3>2, <3>3 DEF RowsHeld
  <2>4. ASSUME NEW t \in Tab, NEW rid \in Rid, NEW c \in Col,
               NEW v \in Stored \cup {Null}, ModifyRecord(t, rid, c, v)
        PROVE  RowsHeld'
    <3> DEFINE buf == Patched(rows[t][rid], c, v)
               shown == [ShownRow(rows[t][rid]) EXCEPT ![c] = v]
    <3>1. /\ rid \in DOMAIN rows[t] /\ (c \in rows[t][rid].nulls <=> v = Null)
          /\ \E ok \in Answers(t, buf, rid, shown) :
                IF ok THEN rows' = [rows EXCEPT ![t][rid] = buf] ELSE UNCHANGED rows
      BY <2>4 DEF ModifyRecord
    <3>2. PICK ok \in Answers(t, buf, rid, shown) :
             IF ok THEN rows' = [rows EXCEPT ![t][rid] = buf] ELSE UNCHANGED rows
      BY <3>1
    <3>3. Held(t, buf)
      BY <1>3, <3>1, PatchedHeld
    <3>4. CASE ok
      <4>1. NotNullHolds(t, buf)
        BY <3>2, <3>4, AcceptedNotNull
      <4>2. /\ \A u \in Tab : u # t => rows'[u] = rows[u]
            /\ rows'[t] = [rows[t] EXCEPT ![rid] = buf]
        BY <3>2, <3>4 DEF RowInv, Inv, TypeOK
      <4>3. \A r \in DOMAIN rows'[t] :
               (r = rid /\ rows'[t][r] = buf)
               \/ (r \in DOMAIN rows[t] /\ rows'[t][r] = rows[t][r])
        BY <4>2
      <4> HIDE DEF buf
      <4> QED
        BY <1>3, <3>3, <4>1, <4>2, <4>3 DEF RowsHeld
    <3>5. CASE ~ok
      BY <2>1, <3>2, <3>5
    <3> QED
      BY <3>4, <3>5
  <2>5. ASSUME NEW t \in Tab,
               InsertAborted(t) \/ Reopen(t) \/ \E c \in Col : CreateIndex(t, c)
        PROVE  RowsHeld'
    BY <2>1, <2>5 DEF InsertAborted, Reopen, CreateIndex
  <2>6. CASE UNCHANGED vars
    BY <2>1, <2>6 DEF vars
  <2> QED
    BY <2>2, <2>3, <2>4, <2>5, <2>6 DEF Next
<1> QED
  BY <1>1, <1>2, <1>4 DEF RowInv

-----------------------------------------------------------------------------
(* Each request maps to the one of ConstrainedRows, and what a statement   *)
(* does not see to a stutter.                                              *)
LEMMA ViewFacts ==
    ASSUME Inv
    PROVE  /\ DOMAIN View = Tab
           /\ \A t \in Tab : /\ View[t] = [r \in DOMAIN rows[t] |-> ShownRow(rows[t][r])]
                             /\ DOMAIN View[t] = DOMAIN rows[t]
           /\ \A row \in Row : ShownRow(row) \in [Col -> Datum]
BY ShownDatum DEF View, ShownRow

(* INSERT is the insertion of the row a query would show. *)
LEMMA InsertMaps ==
    ASSUME RowInv, KeysApart, NEW t \in Tab, NEW given \in Given(t),
           InsertRecord(t, given)
    PROVE  \E row \in [Col -> Datum] : Rows!Insert(t, row)
<1> DEFINE buf == TempRecord(t, given)
           rid == autoInc[t]
           row == ShownRow(buf)
<1>1. buf \in Row /\ Held(t, buf) /\ row \in [Col -> Datum] /\ Inv
  BY TempRecordType, TempRecordHeld, ViewFacts DEF RowInv
<1>2. rid <= Limit[t]
      /\ \E ok \in Answers(t, buf, rid, row) :
            /\ Answer("insert", t, 0, row, ok)
            /\ IF ok THEN rows' = [rows EXCEPT ![t] = With(@, rid, buf)]
                     ELSE UNCHANGED rows
  BY DEF InsertRecord, With
<1>3. PICK ok \in Answers(t, buf, rid, row) :
         /\ Answer("insert", t, 0, row, ok)
         /\ IF ok THEN rows' = [rows EXCEPT ![t] = With(@, rid, buf)]
                  ELSE UNCHANGED rows
  BY <1>2
<1>4. rid \in Rid /\ rid \notin DOMAIN rows[t]
  <2>1. \A r \in DOMAIN rows[t] : r \in Nat /\ r < rid
    BY <1>1, InvParts DEF Rid
  <2>2. MaxRid \in Nat /\ Limit[t] \in 0 .. MaxRid /\ rid \in 1 .. MaxRid + 1
    BY <1>1, InvParts, TableAssumption
  <2> QED
    BY <1>2, <2>1, <2>2 DEF Rid
<1>5. ok \in BOOLEAN /\ ok = Rows!Valid(t, row, DOMAIN View[t])
  <2>1. ok = Rows!Valid(t, row, DOMAIN rows[t] \ {rid})
    <3> HIDE DEF buf, rid
    <3> QED
      BY <1>1, <1>3, AnswersExact DEF row
  <2>2. DOMAIN rows[t] \ {rid} = DOMAIN View[t]
    BY <1>1, <1>4, ViewFacts
  <2>3. ok \in BOOLEAN
    BY <1>3 DEF Answers
  <2> QED
    BY <2>1, <2>2, <2>3
<1>6. ASSUME ok
      PROVE  View' = [View EXCEPT ![t] = [r \in DOMAIN @ \cup {rid} |->
                                            IF r = rid THEN row ELSE @[r]]]
  <2>1. rows' = [rows EXCEPT ![t] = With(@, rid, buf)]
    BY <1>3, <1>6
  <2>2. rows'[t] = With(rows[t], rid, buf) /\ \A u \in Tab \ {t} : rows'[u] = rows[u]
    BY <1>1, <2>1 DEF Inv, TypeOK
  <2>3. [r \in DOMAIN rows'[t] |-> ShownRow(rows'[t][r])] =
          [r \in DOMAIN View[t] \cup {rid} |-> IF r = rid THEN row ELSE View[t][r]]
    <3>1. DOMAIN rows'[t] = DOMAIN View[t] \cup {rid}
      BY <1>1, <2>2, ViewFacts DEF With
    <3>2. \A r \in DOMAIN rows'[t] :
             ShownRow(rows'[t][r]) = IF r = rid THEN row ELSE View[t][r]
      <4>1. \A r \in DOMAIN rows'[t] :
               rows'[t][r] = IF r = rid THEN buf ELSE rows[t][r]
        BY <2>2 DEF With
      <4>2. \A r \in DOMAIN rows[t] : View[t][r] = ShownRow(rows[t][r])
        BY DEF View
      <4> QED
        BY <2>2, <4>1, <4>2 DEF With
    <3> HIDE DEF row
    <3> QED
      BY <3>1, <3>2
  <2>4. View' = [u \in Tab |-> [r \in DOMAIN rows'[u] |-> ShownRow(rows'[u][r])]]
    BY DEF View, ShownRow, Shown
  <2> HIDE DEF row, rid
  <2>5. \A u \in Tab \ {t} : [r \in DOMAIN rows'[u] |-> ShownRow(rows'[u][r])] = View[u]
    BY <2>2 DEF View
  <2> QED
    BY <2>3, <2>4, <2>5 DEF View
<1>7. ASSUME ~ok PROVE View' = View
  BY <1>3, <1>7 DEF View, ShownRow, Shown
<1>8. Rows!Answer("insert", t, 0, row, ok)
  BY <1>3 DEF Answer, Rows!Answer
<1> HIDE DEF row, rid, buf
<1>9. rid \in Rid \ DOMAIN View[t]
  BY <1>1, <1>4, ViewFacts
<1>10. IF ok
       THEN \E x \in Rid \ DOMAIN View[t] :
               View' = [View EXCEPT ![t] = [r \in DOMAIN @ \cup {x} |->
                                              IF r = x THEN row ELSE @[r]]]
       ELSE View' = View
  BY <1>5, <1>6, <1>7, <1>9
<1>11. Rows!Insert(t, row)
  BY <1>5, <1>8, <1>10 DEF Rows!Insert, View
<1> QED
  BY <1>1, <1>11

(* DELETE is the removal of the row. *)
LEMMA RemoveMaps ==
    ASSUME RowInv, NEW t \in Tab, NEW rid \in Rid, RemoveRecord(t, rid)
    PROVE  rid \in DOMAIN View[t] /\ Rows!Remove(t, rid)
<1>1. /\ rid \in DOMAIN rows[t] /\ reply' = reply /\ Inv
      /\ rows' = [rows EXCEPT ![t] = Without(@, rid)]
  BY DEF RemoveRecord, Without, RowInv
<1>2. rows'[t] = Without(rows[t], rid) /\ \A u \in Tab \ {t} : rows'[u] = rows[u]
  BY <1>1 DEF Inv, TypeOK
<1>3. View' = [u \in Tab |-> [r \in DOMAIN rows'[u] |-> ShownRow(rows'[u][r])]]
  BY DEF View, ShownRow, Shown
<1>4. \A u \in Tab \ {t} : [r \in DOMAIN rows'[u] |-> ShownRow(rows'[u][r])] = View[u]
  BY <1>2 DEF View
<1>5. [r \in DOMAIN rows'[t] |-> ShownRow(rows'[t][r])] =
         [r \in DOMAIN View[t] \ {rid} |-> View[t][r]]
  BY <1>2 DEF View, Without
<1>6. View' = [View EXCEPT ![t] = [r \in DOMAIN @ \ {rid} |-> @[r]]]
  BY <1>3, <1>4, <1>5 DEF View
<1> QED
  BY <1>1, <1>6, ViewFacts DEF Rows!Remove, View

(* UPDATE is the change of one value of one row. *)
LEMMA ModifyMaps ==
    ASSUME NullUpdates = FALSE, RowInv, KeysApart, NEW t \in Tab, NEW rid \in Rid,
           NEW c \in Col, NEW v \in Stored \cup {Null}, ModifyRecord(t, rid, c, v)
    PROVE  rid \in DOMAIN View[t] /\ Rows!Modify(t, rid, c, v)
<1> DEFINE buf == Patched(rows[t][rid], c, v)
           row == [View[t][rid] EXCEPT ![c] = v]
<1>1. /\ rid \in DOMAIN rows[t] /\ Inv
      /\ c \in rows[t][rid].nulls <=> v = Null
      /\ \E ok \in Answers(t, buf, rid, [ShownRow(rows[t][rid]) EXCEPT ![c] = v]) :
            /\ Answer("modify", t, rid, [ShownRow(rows[t][rid]) EXCEPT ![c] = v], ok)
            /\ IF ok THEN rows' = [rows EXCEPT ![t][rid] = buf] ELSE UNCHANGED rows
  BY DEF ModifyRecord, RowInv
<1>2. rows[t][rid] \in Row /\ Held(t, rows[t][rid])
  BY <1>1, InvParts DEF RowInv, RowsHeld
<1>3. buf \in Row /\ Held(t, buf)
      /\ [ShownRow(rows[t][rid]) EXCEPT ![c] = v] = row /\ ShownRow(buf) = row
  <2>1. View[t][rid] = ShownRow(rows[t][rid])
    BY <1>1 DEF View
  <2> QED
    BY <1>1, <1>2, <2>1, PatchedRow, PatchedHeld
<1> HIDE DEF buf, row
<1>4. PICK ok \in Answers(t, buf, rid, ShownRow(buf)) :
         /\ Answer("modify", t, rid, row, ok)
         /\ IF ok THEN rows' = [rows EXCEPT ![t][rid] = buf] ELSE UNCHANGED rows
  BY <1>1, <1>3
<1>5. ok \in BOOLEAN /\ ok = Rows!Valid(t, row, DOMAIN View[t] \ {rid})
  <2>1. ok = Rows!Valid(t, row, DOMAIN rows[t] \ {rid})
    BY <1>3, <1>4, AnswersExact
  <2>2. ok \in BOOLEAN
    BY <1>4 DEF Answers
  <2> QED
    BY <1>1, <2>1, <2>2, ViewFacts
<1>6. ASSUME ok PROVE View' = [View EXCEPT ![t][rid] = row]
  <2>1. rows' = [rows EXCEPT ![t][rid] = buf]
    BY <1>4, <1>6
  <2>2. rows'[t] = [rows[t] EXCEPT ![rid] = buf] /\ \A u \in Tab \ {t} : rows'[u] = rows[u]
    BY <1>1, <2>1 DEF Inv, TypeOK
  <2>3. View' = [u \in Tab |-> [r \in DOMAIN rows'[u] |-> ShownRow(rows'[u][r])]]
    BY DEF View, ShownRow, Shown
  <2>4. \A u \in Tab \ {t} : [r \in DOMAIN rows'[u] |-> ShownRow(rows'[u][r])] = View[u]
    BY <2>2 DEF View
  <2>5. [r \in DOMAIN rows'[t] |-> ShownRow(rows'[t][r])] = [View[t] EXCEPT ![rid] = row]
    <3>1. View[t] = [r \in DOMAIN rows[t] |-> ShownRow(rows[t][r])]
      BY DEF View
    <3> QED
      BY <1>1, <1>3, <2>2, <3>1
  <2> QED
    BY <2>3, <2>4, <2>5 DEF View
<1>7. ASSUME ~ok PROVE View' = View
  BY <1>4, <1>7 DEF View, ShownRow, Shown
<1>8. Rows!Answer("modify", t, rid, row, ok)
  BY <1>4 DEF Answer, Rows!Answer
<1>9. View' = IF ok THEN [View EXCEPT ![t][rid] = row] ELSE View
  BY <1>6, <1>7
<1>10. Rows!Modify(t, rid, c, v)
  BY <1>5, <1>8, <1>9 DEF Rows!Modify, View, row
<1> QED
  BY <1>1, <1>10, ViewFacts

(* Every step is one of ConstrainedRows or shows nothing. *)
LEMMA RowsStep ==
    ASSUME NullUpdates = FALSE, RowInv, KeysApart, [Next]_vars
    PROVE  [Rows!RowsNext]_<<View, reply>>
<1>1. Inv
  BY DEF RowInv
<1>2. ASSUME NEW t \in Tab, NEW given \in Given(t), InsertRecord(t, given)
      PROVE  Rows!RowsNext
  BY <1>2, InsertMaps DEF Rows!RowsNext
<1>3. ASSUME NEW t \in Tab, NEW rid \in Rid, RemoveRecord(t, rid)
      PROVE  Rows!RowsNext
  BY <1>3, RemoveMaps DEF Rows!RowsNext, View
<1>4. ASSUME NEW t \in Tab, NEW rid \in Rid, NEW c \in Col,
             NEW v \in Stored \cup {Null}, ModifyRecord(t, rid, c, v)
      PROVE  Rows!RowsNext
  <2>1. v \in Datum
    BY DEF Datum, Value
  <2> QED
    BY <1>4, <2>1, ModifyMaps, ZenonT(60) DEF Rows!RowsNext, View
<1>5. ASSUME UNCHANGED <<rows, reply>> PROVE UNCHANGED <<View, reply>>
  BY <1>5 DEF View, ShownRow, Shown
<1>6. ASSUME NEW t \in Tab,
             InsertAborted(t) \/ Reopen(t) \/ \E c \in Col : CreateIndex(t, c)
      PROVE  UNCHANGED <<rows, reply>>
  BY <1>6 DEF InsertAborted, Reopen, CreateIndex
<1>7. CASE UNCHANGED vars
  BY <1>5, <1>7 DEF vars
<1> QED
  BY <1>2, <1>3, <1>4, <1>5, <1>6, <1>7 DEF Next

(* What statements see of the tables is what ConstrainedRows promises: a   *)
(* row is added or changed exactly when the constraints allow it, whether  *)
(* a check walks an index or compares bytes, for any tables whose unique   *)
(* and foreign key columns keep their NULLs apart from values and whose    *)
(* foreign keys refer to keys.                                             *)
THEOREM RowsImplemented ==
    ASSUME NullUpdates = FALSE, LateIndex = FALSE, KeysApart
    PROVE  Spec => ImplementsRows
<1>1. Init => RowInv /\ Rows!RowsInit
  <2>1. ASSUME Init PROVE Rows!RowsInit
    <3>1. rows = [t \in Tab |-> [r \in {} |-> {}]] /\ reply = Null
      BY <2>1 DEF Init
    <3>2. View = [t \in Tab |-> [r \in {} |-> {}]]
      BY <3>1 DEF View
    <3> QED
      BY <3>1, <3>2 DEF Rows!RowsInit, View
  <2> QED
    BY <2>1, RowInvInit
<1>2. RowInv /\ [Next]_vars => RowInv'
  BY RowInvStep
<1>3. RowInv /\ [Next]_vars => [Rows!RowsNext]_<<View, reply>>
  BY RowsStep
<1> QED
  BY <1>1, <1>2, <1>3, PTL DEF Spec, ImplementsRows, Rows!RowsSpec, View
=============================================================================
