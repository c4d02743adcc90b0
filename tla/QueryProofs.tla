------------------------------ MODULE QueryProofs ------------------------------
(***************************************************************************)
(* Theorems about Query: for any tables, indices, statements and numbers   *)
(* of tables, the loops lose no combination of rows that WHERE accepts     *)
(* and give none twice; and where WHERE says no more than the index of a   *)
(* single table does, they implement RowsOnce, and UPDATE and DELETE do    *)
(* what they say to the rows there were when they began.                   *)
(***************************************************************************)
EXTENDS Query, Induction

(* The statement, the tables it began with and the plan do not change. *)
Setting ==
    /\ stmt \in Statements
    /\ before \in Contents
    /\ plan.order \in Orders(stmt.n)
    /\ plan.via \in [Tab -> 0 .. Len(stmt.where)]

(* What an index condition is good for. *)
Usable ==
    \A l \in Tab : ByIndex(l) =>
        /\ plan.via[l] \in DOMAIN stmt.where
        /\ Serves(l).op = "eq"
        /\ Own(l).tab = Table(l)
        /\ stmt.kind # "update"
        /\ stmt.n = 1 => /\ Other(l).tab = 0
                         /\ Computed \/ Other(l).literal
                         /\ Residual \/ Len(stmt.where) = 1
        /\ stmt.n > 1 => l < stmt.n /\ Other(l).tab = Table(l + 1)

Loops ==
    /\ low \in 1 .. stmt.n + 1
    /\ at \in [Tab -> {0} \cup Rid]
    /\ rest \in [Tab -> SUBSET Rid]
    /\ \A l \in Tab : rest[l] \subseteq DOMAIN before[Table(l)]
    /\ \A l \in Tab : l < low => rest[l] = {}
    /\ \A l \in Tab : l > low =>
          at[Table(l)] \in DOMAIN before[Table(l)] \ rest[l]

(* While the loops run, the rows they have still to come to are as they    *)
(* were.                                                                   *)
Unchanged ==
    low <= stmt.n =>
        /\ stmt.kind # "update" => content = before
        /\ stmt.kind = "update" =>
              /\ stmt.n = 1
              /\ 1 \in DOMAIN content
              /\ \A r \in rest[1] :
                    r \in DOMAIN content[1] /\ content[1][r] = before[1][r]

(* What a loop over an index has still to come to is not below its key.    *)
NotBelow ==
    \A l \in Tab : ByIndex(l) =>
        \A r \in rest[l] : ~Less(Entry(l, r), Key(l, at))

(* Given to the callback: nothing but what WHERE accepts, unless it may    *)
(* say more than the condition of the only index.                          *)
NothingElse == ~Residual => out \subseteq Matching

Inv == /\ Setting /\ Usable /\ Loops /\ Unchanged
       /\ NotBelow /\ NothingLost /\ NothingElse

-----------------------------------------------------------------------------
(* What the assumption and Setting say of the parts of the statement. *)
LEMMA StatementParts ==
    ASSUME Setting
    PROVE  /\ stmt.n \in 1 .. N /\ stmt.n \in Nat /\ stmt.n >= 1
           /\ stmt.where \in Seq(Condition)
           /\ stmt.kind \in {"select", "update", "delete"}
           /\ stmt.kind # "select" => stmt.n = 1
           /\ \A i \in DOMAIN stmt.where :
                 /\ stmt.where[i].left \in Operand
                 /\ stmt.where[i].right \in Operand
                 /\ stmt.where[i].left.tab <= stmt.n
                 /\ stmt.where[i].right.tab <= stmt.n
           /\ plan.order \in [Tab -> Tab]
           /\ \A t \in Tab : \E l \in Tab : plan.order[l] = t
           /\ \A k, l \in Tab : plan.order[k] = plan.order[l] => k = l
<1>1. stmt \in Statement /\ stmt \in Statements
  BY QueryAssumption DEF Setting
<1>2. stmt.n \in 1 .. N /\ stmt.where \in Seq(Condition)
      /\ stmt.kind \in {"select", "update", "delete"}
  BY <1>1 DEF Statement
<1>3. \A i \in DOMAIN stmt.where : stmt.where[i] \in Condition
  BY <1>2
<1>4. N \in Nat
  BY QueryAssumption
<1>5. \A i \in DOMAIN stmt.where :
         stmt.where[i].left \in Operand /\ stmt.where[i].right \in Operand
  BY <1>3 DEF Condition
<1>6. /\ stmt.kind # "select" => stmt.n = 1
      /\ \A i \in DOMAIN stmt.where :
            stmt.where[i].left.tab <= stmt.n /\ stmt.where[i].right.tab <= stmt.n
  BY <1>1, QueryAssumption
<1>7. /\ plan.order \in [Tab -> Tab]
      /\ \A t \in Tab : \E l \in Tab : plan.order[l] = t
      /\ \A k, l \in Tab : plan.order[k] = plan.order[l] => k = l
  <2> DEFINE p == plan.order
  <2>1. p \in Orders(stmt.n)
    BY DEF Setting
  <2> QED
    BY <2>1 DEF Orders, Tab
<1>8. stmt.n \in Nat /\ stmt.n >= 1
  BY <1>2, <1>4
<1> QED
  BY <1>2, <1>5, <1>6, <1>7, <1>8

(* The rows a statement begins with: their ids, integers and NULLs. *)
LEMMA RowsBefore ==
    ASSUME Setting, NEW t \in Tab
    PROVE  /\ DOMAIN before[t] \subseteq Rid
           /\ \A r \in DOMAIN before[t], c \in Col :
                 before[t][r][c] \in Int \cup {Null}
<1>1. t \in 1 .. N
  BY StatementParts, QueryAssumption DEF Tab
<1>2. PICK d \in SUBSET Rid : before[t] \in [d -> Row]
  BY <1>1, QueryAssumption DEF Setting
<1> QED
  BY <1>2 DEF Row

(* The column a loop's index is on is a column, of the table of the loop.  *)
LEMMA OwnColumn ==
    ASSUME Setting, Usable, NEW l \in Tab, ByIndex(l)
    PROVE  /\ Own(l).tab = Table(l) /\ Own(l).col \in Col
           /\ Own(l) \in Operand /\ Other(l) \in Operand
           /\ Table(l) \in Tab /\ IsColumn(Own(l))
<1>1. plan.via[l] \in DOMAIN stmt.where /\ Own(l).tab = Table(l)
  BY DEF Usable
<1>2. Own(l) \in Operand /\ Other(l) \in Operand
  BY <1>1, StatementParts DEF Own, Other, Serves
<1>3. Own(l).col \in Col
  BY <1>2 DEF Operand
<1>4. Table(l) \in Tab
  BY StatementParts DEF Table
<1> QED
  BY <1>1, <1>2, <1>3, <1>4, StatementParts DEF IsColumn, Tab

(* The condition of an index loop holds for a row exactly when its entry   *)
(* is the key and no NULL; the key is that of any combination that has the *)
(* row of the loop outside.                                                *)
LEMMA Serving ==
    ASSUME Setting, Usable, Computed = FALSE, NEW l \in Tab, ByIndex(l),
           NEW m, NEW a,
           stmt.n > 1 => m[Table(l + 1)] = a[Table(l + 1)]
    PROVE  Holds(content, m, Serves(l)) <=>
              /\ Entry(l, m[Table(l)]) = Key(l, a)
              /\ Entry(l, m[Table(l)]) # Null
<1> DEFINE x == ValueOf(content, m, Own(l))
           y == ValueOf(content, m, Other(l))
<1>1. x = Entry(l, m[Table(l)])
  BY OwnColumn DEF ValueOf, Entry
<1>2. y = Key(l, a)
  <2>1. CASE stmt.n = 1
    <3>1. Other(l).tab = 0 /\ Other(l).literal
      BY <2>1 DEF Usable
    <3> QED
      BY <3>1 DEF ValueOf, Key, IsColumn
  <2>2. CASE stmt.n > 1
    <3>1. Other(l).tab = Table(l + 1) /\ l < stmt.n
      BY <2>2 DEF Usable
    <3>2. l + 1 \in Tab
      BY <3>1, StatementParts DEF Tab
    <3>3. Table(l + 1) \in Tab
      BY <3>2, StatementParts DEF Table
    <3>4. IsColumn(Other(l))
      BY <3>1, <3>3, StatementParts DEF IsColumn, Tab
    <3> QED
      BY <2>2, <3>1, <3>4 DEF ValueOf, Key
  <2> QED
    BY <2>1, <2>2, StatementParts
<1>3. Holds(content, m, Serves(l)) <=> x = y /\ x # Null /\ y # Null
  <2>1. Serves(l).op = "eq"
    BY DEF Usable
  <2>2. CASE LeftIsOwn(l)
    BY <2>1, <2>2 DEF Holds, Own, Other
  <2>3. CASE ~LeftIsOwn(l)
    BY <2>1, <2>3 DEF Holds, Own, Other
  <2> QED
    BY <2>2, <2>3
<1> QED
  BY <1>1, <1>2, <1>3

(* A combination WHERE accepts satisfies the condition of every index loop. *)
LEMMA MatchingServed ==
    ASSUME Setting, Usable, NEW l \in Tab, ByIndex(l), NEW m \in Matching
    PROVE  Holds(before, m, Serves(l))
BY DEF Matching, Accepts, Usable, Serves

(* A loop that starts has all rows of the combinations to come to. *)
LEMMA EntriesComplete ==
    ASSUME Setting, Usable, Computed = FALSE, content = before, NEW l \in Tab,
           NEW m \in Matching, NEW a,
           ByIndex(l) /\ stmt.n > 1 => m[Table(l + 1)] = a[Table(l + 1)]
    PROVE  m[Table(l)] \in Entries(l, a)
<1>1. Table(l) \in Tab
  BY StatementParts DEF Table
<1>2. m[Table(l)] \in DOMAIN content[Table(l)]
  BY <1>1 DEF Matching
<1>3. CASE ByIndex(l)
  <2>1. Holds(content, m, Serves(l))
    BY <1>3, MatchingServed
  <2>2. Entry(l, m[Table(l)]) = Key(l, a)
    BY <1>3, <2>1, Serving
  <2>3. Entry(l, m[Table(l)]) \in Int \cup {Null}
    BY <1>1, <1>2, <1>3, OwnColumn, RowsBefore DEF Entry
  <2>4. ~Less(Entry(l, m[Table(l)]), Key(l, a))
    BY <2>2, <2>3 DEF Less
  <2> QED
    BY <1>2, <2>4 DEF Entries
<1>4. CASE ~ByIndex(l)
  BY <1>2, <1>4 DEF Entries
<1> QED
  BY <1>3, <1>4

-----------------------------------------------------------------------------
(* The plan is fit to start with. *)
LEMMA UsableInit ==
    ASSUME Init PROVE Setting /\ Usable
<1>1. PICK p \in Orders(stmt.n), d \in 0 .. stmt.n - 1 :
         \E via \in [Tab -> 0 .. Len(stmt.where)] :
            /\ IsVia(stmt, indexed, p, d, via)
            /\ plan = [order |-> p, depth |-> d, via |-> via]
  BY DEF Init
<1>2. PICK via \in [Tab -> 0 .. Len(stmt.where)] :
         /\ IsVia(stmt, indexed, p, d, via)
         /\ plan = [order |-> p, depth |-> d, via |-> via]
  BY <1>1
<1>3. plan.order = p /\ plan.via = via
  BY <1>2
<1>4. Setting
  BY <1>2, <1>3 DEF Setting, Init
<1>5. ASSUME NEW l \in Tab, ByIndex(l)
      PROVE  /\ plan.via[l] \in DOMAIN stmt.where
             /\ Serves(l).op = "eq"
             /\ Own(l).tab = Table(l)
             /\ stmt.kind # "update"
             /\ stmt.n = 1 => /\ Other(l).tab = 0
                              /\ Computed \/ Other(l).literal
                              /\ Residual \/ Len(stmt.where) = 1
             /\ stmt.n > 1 => l < stmt.n /\ Other(l).tab = Table(l + 1)
  <2> DEFINE i == via[l]
  <2>1. i # 0 /\ Serves(l) = stmt.where[i] /\ plan.via[l] = i
    BY <1>3, <1>5 DEF ByIndex, Serves
  <2>2. stmt.n \in Nat /\ stmt.n >= 1
    BY <1>4, StatementParts
  <2>3. CASE stmt.n = 1
    <3>1. l = 1
      BY <2>2, <2>3 DEF Tab
    <3>2. Table(1) = 1
      <4>1. Table(1) \in Tab
        BY <1>4, <1>5, <3>1, StatementParts DEF Table
      <4> QED
        BY <2>3, <4>1 DEF Tab
    <3>3. KeyCondition(stmt, indexed, i)
      BY <1>2, <2>3, <3>1 DEF IsVia, Tab
    <3>4. i \in KeyConditions(stmt, indexed)
      BY <2>1, <3>3 DEF KeyCondition
    <3>5. /\ i \in DOMAIN stmt.where /\ stmt.kind # "update"
          /\ stmt.where[i].op = "eq"
          /\ \/ stmt.where[i].left.tab = 1 /\ stmt.where[i].right.tab = 0
             \/ stmt.where[i].right.tab = 1 /\ stmt.where[i].left.tab = 0
      BY <3>4 DEF KeyConditions, Reads, IsColumn
    <3>6. Own(l).tab = Table(l) /\ Other(l).tab = 0
      BY <2>1, <3>1, <3>2, <3>5 DEF Own, Other, LeftIsOwn
    <3>7. (Residual \/ Len(stmt.where) = 1) /\ (Computed \/ Other(1).literal)
      BY <1>5, <2>3, <3>1 DEF Init
    <3> QED
      BY <2>1, <2>3, <3>1, <3>5, <3>6, <3>7
  <2>4. CASE stmt.n > 1
    <3>1. l <= d /\ JoinCondition(stmt, indexed, p, l, i)
      BY <1>2, <2>1, <2>2, <2>4 DEF IsVia, Tab
    <3>2. i \in JoinConditions(stmt, indexed, Table(l), Table(l + 1))
      BY <1>3, <3>1 DEF JoinCondition, Table
    <3>3. l < stmt.n
      BY <2>2, <3>1 DEF Tab
    <3>4. Table(l) # Table(l + 1)
      <4>1. l + 1 \in Tab /\ l # l + 1
        BY <2>2, <3>3 DEF Tab
      <4> QED
        BY <1>4, <4>1, StatementParts DEF Table
    <3>5. /\ i \in DOMAIN stmt.where /\ stmt.where[i].op = "eq"
          /\ \/ /\ stmt.where[i].left.tab = Table(l)
                /\ stmt.where[i].right.tab = Table(l + 1)
             \/ /\ stmt.where[i].right.tab = Table(l)
                /\ stmt.where[i].left.tab = Table(l + 1)
      BY <3>2 DEF JoinConditions, Reads
    <3>6. Own(l).tab = Table(l) /\ Other(l).tab = Table(l + 1)
      BY <2>1, <3>4, <3>5 DEF Own, Other, LeftIsOwn
    <3>7. stmt.kind # "update"
      BY <1>4, <2>4, StatementParts
    <3> QED
      BY <2>1, <2>4, <3>3, <3>5, <3>6, <3>7
  <2> QED
    BY <2>2, <2>3, <2>4
<1> QED
  BY <1>4, <1>5 DEF Usable

(* Every combination is ahead of the outermost loop. *)
LEMMA InvInit ==
    ASSUME Init, Computed = FALSE PROVE Inv
<1>1. Setting /\ Usable
  BY UsableInit
<1>2. /\ content = before /\ low = stmt.n /\ out = {}
      /\ rest = [l \in Tab |-> IF l = low THEN Entries(l, at) ELSE {}]
      /\ at = [t \in Tab |-> 0]
  BY DEF Init
<1>3. stmt.n \in Nat /\ stmt.n >= 1 /\ stmt.n \in Tab
  BY <1>1, StatementParts DEF Tab
<1>4. \A l \in Tab : Table(l) \in Tab
  BY <1>1, StatementParts DEF Table
<1>5. \A l \in Tab : rest[l] \subseteq DOMAIN before[Table(l)]
  BY <1>2 DEF Entries
<1>6. \A l \in Tab : rest[l] \subseteq Rid
  BY <1>1, <1>4, <1>5, RowsBefore
<1>7. Loops
  <2>1. rest \in [Tab -> SUBSET Rid]
    BY <1>2, <1>6
  <2>2. at \in [Tab -> {0} \cup Rid] /\ low \in 1 .. stmt.n + 1
    BY <1>2, <1>3
  <2>3. \A l \in Tab : ~(l > low) /\ (l < low => rest[l] = {})
    BY <1>2, <1>3 DEF Tab
  <2> QED
    BY <1>5, <2>1, <2>2, <2>3 DEF Loops
<1>8. Unchanged
  <2>1. CASE stmt.kind = "update"
    <3>1. stmt.n = 1
      BY <1>1, <2>1, StatementParts
    <3>2. Table(1) = 1 /\ 1 \in Tab
      BY <1>3, <1>4, <3>1 DEF Tab
    <3>3. 1 \in DOMAIN content
      BY <1>1, <1>2, QueryAssumption DEF Setting
    <3> QED
      BY <1>2, <1>5, <2>1, <3>1, <3>2, <3>3 DEF Unchanged
  <2>2. CASE stmt.kind # "update"
    BY <1>2, <2>2 DEF Unchanged
  <2> QED
    BY <2>1, <2>2
<1>9. NotBelow
  BY <1>2 DEF NotBelow, Entries
<1>10. NothingLost
  <2> SUFFICES ASSUME NEW m \in Matching PROVE Ahead(m)
    BY <1>2 DEF NothingLost
  <2>1. ByIndex(stmt.n) => ~(stmt.n > 1)
    BY <1>1, <1>3 DEF Usable
  <2>2. m[Table(stmt.n)] \in Entries(stmt.n, at)
    BY <1>1, <1>2, <1>3, <2>1, EntriesComplete
  <2>3. m[Table(stmt.n)] \in rest[stmt.n]
    BY <1>2, <1>3, <2>2
  <2>4. stmt.n + 1 .. stmt.n = {}
    BY <1>3
  <2> QED
    BY <1>3, <2>3, <2>4 DEF Ahead
<1> QED
  BY <1>1, <1>2, <1>7, <1>8, <1>9, <1>10 DEF Inv, NothingElse

-----------------------------------------------------------------------------
(* What every step of the loops leaves alone. *)
Fixed == UNCHANGED <<stmt, before, plan>>

(* So what is read from the statement stays. *)
LEMMA FixedParts ==
    ASSUME Inv, Fixed
    PROVE  /\ Setting' /\ Usable' /\ Tab' = Tab /\ Matching' = Matching
           /\ \A l : Table(l)' = Table(l)
           /\ \A l : ByIndex(l)' = ByIndex(l)
           /\ \A m : Ahead(m)' = (\E l \in Tab :
                        /\ m[Table(l)] \in rest'[l]
                        /\ \A k \in l + 1 .. stmt.n : m[Table(k)] = at'[Table(k)])
<1>1. stmt' = stmt /\ before' = before /\ plan' = plan
  BY DEF Fixed
<1>2. Tab' = Tab
  BY <1>1 DEF Tab
<1>3. Setting'
  BY <1>1, <1>2 DEF Inv, Setting, Orders, Tab
<1>4. /\ \A l : Table(l)' = Table(l)
      /\ \A l : ByIndex(l)' = ByIndex(l)
      /\ \A l : Serves(l)' = Serves(l)
      /\ \A l : LeftIsOwn(l)' = LeftIsOwn(l)
  BY <1>1 DEF Table, ByIndex, Serves, LeftIsOwn
<1>5. \A l : Own(l)' = Own(l) /\ Other(l)' = Other(l)
  BY <1>1, <1>4 DEF Own, Other, Serves, LeftIsOwn, Table
<1>6. Usable'
  BY <1>1, <1>2, <1>4, <1>5
     DEF Inv, Usable, Own, Other, Serves, LeftIsOwn, Table, ByIndex, Tab
<1>7. Matching' = Matching
  BY <1>1, <1>2 DEF Matching, Tuples, Accepts, Holds, ValueOf, Tab
<1>8. \A m : Ahead(m)' = (\E l \in Tab :
                /\ m[Table(l)] \in rest'[l]
                /\ \A k \in l + 1 .. stmt.n : m[Table(k)] = at'[Table(k)])
  BY <1>1, <1>2, <1>4 DEF Ahead, Table, Tab
<1> QED
  BY <1>2, <1>3, <1>4, <1>6, <1>7, <1>8

(* The key of a loop depends on the row of the loop outside alone. *)
LEMMA SameKey ==
    ASSUME Setting, Usable, Computed = FALSE, NEW l \in Tab, ByIndex(l),
           NEW a, NEW b,
           stmt.n > 1 => a[Table(l + 1)] = b[Table(l + 1)]
    PROVE  Key(l, a) = Key(l, b)
<1>1. CASE stmt.n = 1
  <2>1. Other(l).tab = 0 /\ Other(l).literal
    BY <1>1 DEF Usable
  <2> QED
    BY <2>1 DEF Key, ValueOf, IsColumn
<1>2. CASE stmt.n > 1
  <2>1. Other(l).tab = Table(l + 1)
    BY <1>2 DEF Usable
  <2> QED
    BY <1>2, <2>1 DEF Key, ValueOf
<1> QED
  BY <1>1, <1>2, StatementParts

(* The loop that runs and the loops around it: caching the row of loop low *)
(* leaves what the loops outside are at.                                   *)
LEMMA Caching ==
    ASSUME Inv, NEW r, NextRow(r)
    PROVE  /\ low \in Tab /\ low \in Nat /\ low >= 1 /\ low <= stmt.n
           /\ r \in rest[low] /\ r \in Rid /\ r \in DOMAIN before[Table(low)]
           /\ Cached(r) \in [Tab -> {0} \cup Rid]
           /\ Cached(r)[Table(low)] = r
           /\ \A k \in Tab : k # low => Cached(r)[Table(k)] = at[Table(k)]
           /\ \A l \in Tab : Table(l) \in Tab
<1>1. Setting /\ Loops
  BY DEF Inv
<1>2. low \in Tab /\ low \in Nat /\ low >= 1 /\ low <= stmt.n
  BY <1>1, StatementParts DEF Loops, NextRow, Tab
<1>3. r \in rest[low] /\ r \in Rid /\ r \in DOMAIN before[Table(low)]
  BY <1>1, <1>2 DEF NextRow, Loops
<1>4. /\ \A l \in Tab : Table(l) \in Tab
      /\ \A k, l \in Tab : Table(k) = Table(l) => k = l
  BY <1>1, StatementParts DEF Table
<1>5. at \in [Tab -> {0} \cup Rid]
  BY <1>1 DEF Loops
<1> QED
  BY <1>2, <1>3, <1>4, <1>5 DEF Cached

(* The value a loop looks up does not change while that loop runs. *)
LEMMA KeysKept ==
    ASSUME Inv, Computed = FALSE, NEW r, NextRow(r),
           NEW l \in Tab, ByIndex(l), l >= low
    PROVE  Key(l, Cached(r)) = Key(l, at)
<1>1. Setting /\ Usable
  BY DEF Inv
<1>2. ASSUME stmt.n > 1 PROVE Cached(r)[Table(l + 1)] = at[Table(l + 1)]
  <2>1. l < stmt.n
    BY <1>1, <1>2 DEF Usable
  <2>2. stmt.n \in Nat /\ low \in Nat
    BY <1>1, StatementParts, Caching
  <2>3. l + 1 \in Tab /\ l + 1 # low
    BY <2>1, <2>2 DEF Tab
  <2> QED
    BY <2>3, Caching
<1> QED
  BY <1>1, <1>2, SameKey

(* Where no table changes, NotBelow is about the rows and keys as before. *)
LEMMA NotBelowKept ==
    ASSUME Inv, Fixed, content' = content,
           \A l \in Tab : ByIndex(l) =>
              \A s \in rest'[l] : ~Less(Entry(l, s), Key(l, at'))
    PROVE  NotBelow'
<1>1. stmt' = stmt /\ plan' = plan
  BY DEF Fixed
<1>2. /\ \A l : Own(l)' = Own(l) /\ Other(l)' = Other(l)
      /\ \A l : ByIndex(l)' = ByIndex(l) /\ Table(l)' = Table(l)
  BY <1>1 DEF Own, Other, Serves, LeftIsOwn, Table, ByIndex
<1>3. /\ \A l, s : Entry(l, s)' = Entry(l, s)
      /\ \A l : Key(l, at)' = Key(l, at')
  BY <1>2 DEF Entry, Key, ValueOf, IsColumn
<1>4. Tab' = Tab
  BY <1>1 DEF Tab
<1> QED
  BY <1>2, <1>3, <1>4 DEF NotBelow

(* A loop that has come to its end gives way to the loop outside. *)
LEMMA ReturnStep ==
    ASSUME Inv, Computed = FALSE, Return PROVE Inv'
<1>1. /\ Fixed /\ content' = content /\ rest' = rest /\ at' = at /\ out' = out
      /\ low' = low + 1 /\ low <= stmt.n /\ rest[low] = {} /\ stmt' = stmt
      /\ before' = before
  BY DEF Return, Fixed
<1>2. /\ Setting' /\ Usable' /\ Tab' = Tab /\ Matching' = Matching
      /\ \A l : Table(l)' = Table(l)
  BY <1>1, FixedParts
<1>3. low \in Nat /\ low >= 1 /\ stmt.n \in Nat
  BY <1>1, StatementParts DEF Inv, Loops
<1>4. Loops'
  <2>1. low' \in 1 .. stmt'.n + 1
    BY <1>1, <1>3
  <2>2. \A l \in Tab : l < low' => l < low \/ l = low
    BY <1>1, <1>3 DEF Tab
  <2>3. \A l \in Tab : l > low' => l > low
    BY <1>1, <1>3 DEF Tab
  <2> QED
    BY <1>1, <1>2, <2>1, <2>2, <2>3 DEF Inv, Loops
<1>5. Unchanged'
  <2>1. low' <= stmt'.n => low <= stmt.n
    BY <1>1, <1>3
  <2> QED
    BY <1>1, <2>1 DEF Inv, Unchanged
<1>6. NotBelow'
  BY <1>1, NotBelowKept DEF Inv, NotBelow
<1>7. NothingLost'
  <2>1. \A m : Ahead(m)' <=> Ahead(m)
    BY <1>1, FixedParts DEF Ahead
  <2> QED
    BY <1>1, <1>2, <2>1 DEF Inv, NothingLost
<1> QED
  BY <1>1, <1>2, <1>4, <1>5, <1>6, <1>7 DEF Inv, NothingElse

(* The loop inside starts, with the rows of every combination that has the *)
(* row its caller is at.                                                   *)
LEMMA DescendStep ==
    ASSUME Inv, Computed = FALSE, NEW r \in Rid, Descend(r) PROVE Inv'
<1> DEFINE in == low - 1
<1>1. /\ Fixed /\ content' = content /\ out' = out /\ at' = Cached(r)
      /\ rest' = [rest EXCEPT ![low] = @ \ {r}, ![low - 1] = Entries(low - 1, at')]
      /\ low' = in /\ low > 1 /\ stmt' = stmt /\ before' = before
  BY DEF Descend, Fixed
<1>2. /\ Setting' /\ Usable' /\ Tab' = Tab /\ Matching' = Matching
      /\ \A l : Table(l)' = Table(l)
  BY <1>1, FixedParts
<1>3. NextRow(r)
  BY DEF Descend
<1>4. /\ low \in Tab /\ low \in Nat /\ low <= stmt.n /\ stmt.n \in Nat
      /\ in \in Tab /\ low = in + 1 /\ stmt.n > 1 /\ in < low
  <2>1. low \in Tab /\ low \in Nat /\ low <= stmt.n
    BY <1>3, Caching
  <2>2. stmt.n \in Nat
    BY StatementParts DEF Inv
  <2> QED
    BY <1>1, <2>1, <2>2 DEF Tab
<1>5. /\ r \in rest[low] /\ r \in DOMAIN before[Table(low)]
      /\ at' \in [Tab -> {0} \cup Rid] /\ at'[Table(low)] = r
      /\ \A k \in Tab : k # low => at'[Table(k)] = at[Table(k)]
      /\ \A l \in Tab : Table(l) \in Tab
  BY <1>1, <1>3, Caching
<1>6. content = before /\ stmt.kind # "update"
  <2>1. stmt.kind # "select" => stmt.n = 1
    <3>1. Setting
      BY DEF Inv
    <3> QED
      BY <3>1, StatementParts
  <2>2. stmt.kind # "update"
    BY <1>4, <2>1
  <2> QED
    BY <1>4, <2>2 DEF Inv, Unchanged
<1>7. /\ rest \in [Tab -> SUBSET Rid]
      /\ \A l \in Tab : rest[l] \subseteq DOMAIN before[Table(l)]
      /\ \A l \in Tab : l < low => rest[l] = {}
  BY DEF Inv, Loops
<1>8. /\ rest'[low] = rest[low] \ {r} /\ rest'[in] = Entries(in, at')
      /\ \A l \in Tab : l # low /\ l # in => rest'[l] = rest[l]
  BY <1>1, <1>4, <1>7
<1>9. \A l \in Tab : l = in \/ l = low \/ l < in \/ l > low
  BY <1>4 DEF Tab
<1>10. Entries(in, at') \subseteq DOMAIN before[Table(in)]
  BY <1>6 DEF Entries
<1>11. Loops'
  <2>1. Entries(in, at') \in SUBSET Rid
    BY <1>4, <1>5, <1>10, RowsBefore DEF Inv
  <2>2. rest' \in [Tab -> SUBSET Rid]
    BY <1>1, <1>7, <2>1
  <2>3. \A l \in Tab : rest'[l] \subseteq DOMAIN before[Table(l)]
    BY <1>4, <1>7, <1>8, <1>10
  <2>4. \A l \in Tab : l < in => l < low /\ l # low /\ l # in
    BY <1>4 DEF Tab
  <2>5. \A l \in Tab : l < in => rest'[l] = {}
    BY <1>7, <1>8, <2>4
  <2>6. ASSUME NEW l \in Tab, l > in
        PROVE  at'[Table(l)] \in DOMAIN before[Table(l)] \ rest'[l]
    <3>1. CASE l = low
      BY <1>5, <1>8, <3>1
    <3>2. CASE l > low
      <4>1. l # low /\ l # in
        BY <1>4, <3>2 DEF Tab
      <4> QED
        BY <1>5, <1>8, <3>2, <4>1 DEF Inv, Loops
    <3> QED
      BY <1>4, <2>6, <3>1, <3>2 DEF Tab
  <2>7. low' \in 1 .. stmt'.n + 1
    BY <1>1, <1>4
  <2> QED
    BY <1>1, <1>2, <1>5, <2>2, <2>3, <2>5, <2>6, <2>7 DEF Loops
<1>12. Unchanged'
  BY <1>1, <1>6 DEF Unchanged
<1>13. NotBelow'
  <2> SUFFICES ASSUME NEW l \in Tab, ByIndex(l), NEW s \in rest'[l]
               PROVE  ~Less(Entry(l, s), Key(l, at'))
    BY <1>1, NotBelowKept
  <2>1. CASE l = in
    BY <1>8, <2>1 DEF Entries
  <2>2. CASE l >= low
    <3>1. s \in rest[l]
      BY <1>4, <1>8, <2>2 DEF Tab
    <3>2. Key(l, at') = Key(l, at)
      BY <1>1, <1>3, <2>2, KeysKept
    <3> QED
      BY <3>1, <3>2 DEF Inv, NotBelow
  <2>3. CASE l < in
    <3>1. rest[l] = {} /\ rest'[l] = rest[l]
      BY <1>4, <1>7, <1>8, <2>3 DEF Tab
    <3> QED
      BY <3>1
  <2> QED
    BY <1>4, <1>9, <2>1, <2>2, <2>3 DEF Tab
<1>14. ASSUME NEW m \in Matching PROVE Ahead(m)' <=> Ahead(m)
  <2>1. ASSUME Ahead(m)' PROVE Ahead(m)
    <3>1. PICK l \in Tab :
             /\ m[Table(l)] \in rest'[l]
             /\ \A k \in l + 1 .. stmt.n : m[Table(k)] = at'[Table(k)]
      BY <1>1, <2>1, FixedParts
    <3>2. CASE l >= low
      <4>1. m[Table(l)] \in rest[l]
        BY <1>4, <1>8, <3>1, <3>2 DEF Tab
      <4>2. \A k \in l + 1 .. stmt.n : k \in Tab /\ k # low
        BY <1>4, <3>2 DEF Tab
      <4> QED
        BY <1>5, <3>1, <4>1, <4>2 DEF Ahead
    <3>3. CASE l = in
      <4>1. low \in l + 1 .. stmt.n
        BY <1>4, <3>3
      <4>2. m[Table(low)] = r
        BY <1>5, <3>1, <4>1
      <4>3. \A k \in low + 1 .. stmt.n : k \in l + 1 .. stmt.n /\ k \in Tab /\ k # low
        BY <1>4, <3>3 DEF Tab
      <4> QED
        BY <1>4, <1>5, <3>1, <4>2, <4>3 DEF Ahead
    <3>4. CASE l < in
      <4>1. rest[l] = {} /\ rest'[l] = rest[l]
        BY <1>4, <1>7, <1>8, <3>4 DEF Tab
      <4> QED
        BY <3>1, <4>1
    <3> QED
      BY <1>4, <1>9, <3>2, <3>3, <3>4 DEF Tab
  <2>2. ASSUME Ahead(m) PROVE Ahead(m)'
    <3>1. PICK l \in Tab :
             /\ m[Table(l)] \in rest[l]
             /\ \A k \in l + 1 .. stmt.n : m[Table(k)] = at[Table(k)]
      BY <2>2 DEF Ahead
    <3>2. l >= low
      BY <1>4, <1>7, <3>1 DEF Tab
    <3>3. \A k \in l + 1 .. stmt.n : k \in Tab /\ k # low
      BY <1>4, <3>2 DEF Tab
    <3>4. \A k \in l + 1 .. stmt.n : m[Table(k)] = at'[Table(k)]
      BY <1>5, <3>1, <3>3
    <3>5. CASE m[Table(l)] \in rest'[l]
      BY <1>1, <3>4, <3>5, FixedParts
    <3>6. CASE m[Table(l)] \notin rest'[l]
      <4>1. l = low
        BY <1>4, <1>8, <3>1, <3>2, <3>6 DEF Tab
      <4>2. m[Table(low)] = r
        BY <1>8, <3>1, <3>6, <4>1
      <4>3. m[Table(in + 1)] = at'[Table(in + 1)]
        BY <1>4, <1>5, <4>2
      <4>4. m[Table(in)] \in Entries(in, at')
        BY <1>4, <1>6, <4>3, EntriesComplete DEF Inv
      <4>5. \A k \in in + 1 .. stmt.n : k = low \/ k \in l + 1 .. stmt.n
        BY <1>4, <4>1
      <4>6. \A k \in in + 1 .. stmt.n : m[Table(k)] = at'[Table(k)]
        BY <1>5, <3>4, <4>2, <4>5
      <4>7. m[Table(in)] \in rest'[in]
        BY <1>8, <4>4
      <4>8. \E k \in Tab :
               /\ m[Table(k)] \in rest'[k]
               /\ \A j \in k + 1 .. stmt.n : m[Table(j)] = at'[Table(j)]
        BY <1>4, <4>6, <4>7
      <4> QED
        BY <1>1, <4>8, FixedParts
    <3> QED
      BY <3>5, <3>6
  <2> QED
    BY <2>1, <2>2
<1>15. NothingLost' /\ NothingElse'
  BY <1>1, <1>2, <1>14 DEF Inv, NothingLost, NothingElse
<1> QED
  BY <1>2, <1>11, <1>12, <1>13, <1>15 DEF Inv

(* Where the condition of an index loop no longer holds, no combination    *)
(* is left that has the rows the loops outside are at: its entry would be  *)
(* the key, and entries come in their order from the key on.               *)
LEMMA NoneLeft ==
    ASSUME Inv, Computed = FALSE, NEW r, NextRow(r), ~GoesOn(r),
           NEW m \in Matching, m[Table(low)] \in rest[low],
           \A k \in low + 1 .. stmt.n : m[Table(k)] = at[Table(k)]
    PROVE  FALSE
<1> DEFINE s == m[Table(low)]
           key == Key(low, at)
<1>1. /\ Setting /\ Usable /\ low \in Tab /\ low \in Nat /\ low <= stmt.n
      /\ \A k \in Tab : k # low => Cached(r)[Table(k)] = at[Table(k)]
      /\ Cached(r)[Table(low)] = r /\ r \in rest[low]
  BY Caching DEF Inv
<1>2. ByIndex(low) /\ ~Holds(content, Cached(r), Serves(low))
  BY DEF GoesOn
<1>3. content = before
  BY <1>1, <1>2 DEF Inv, Usable, Unchanged
<1>4. stmt.n > 1 => low + 1 \in Tab /\ low + 1 # low /\ low + 1 \in low + 1 .. stmt.n
  <2>1. stmt.n \in Nat
    BY <1>1, StatementParts
  <2>2. stmt.n > 1 => low < stmt.n
    BY <1>1, <1>2 DEF Usable
  <2> QED
    BY <1>1, <2>1, <2>2 DEF Tab
<1>5. Entry(low, s) = key /\ Entry(low, s) # Null
  <2>1. stmt.n > 1 => m[Table(low + 1)] = at[Table(low + 1)]
    BY <1>4
  <2>2. Holds(content, m, Serves(low))
    BY <1>1, <1>2, <1>3, MatchingServed
  <2> QED
    BY <1>1, <1>2, <2>1, <2>2, Serving
<1>6. Entry(low, r) = key => Entry(low, r) = Null
  <2>1. stmt.n > 1 => Cached(r)[Table(low + 1)] = at[Table(low + 1)]
    BY <1>1, <1>4
  <2>2. ~(Entry(low, Cached(r)[Table(low)]) = key
          /\ Entry(low, Cached(r)[Table(low)]) # Null)
    BY <1>1, <1>2, <2>1, Serving
  <2> QED
    BY <1>1, <2>2
<1>7. s # r /\ Precedes(low, r, s)
  <2>1. s # r
    BY <1>5, <1>6
  <2> QED
    BY <2>1 DEF NextRow
<1>8. Less(Entry(low, r), key)
  BY <1>2, <1>5, <1>6, <1>7 DEF Precedes
<1> QED
  BY <1>1, <1>2, <1>8 DEF Inv, NotBelow

(* So that a loop may break off. *)
LEMMA BreakStep ==
    ASSUME Inv, Computed = FALSE, NEW r \in Rid, Break(r) PROVE Inv'
<1>1. /\ Fixed /\ content' = content /\ out' = out /\ at' = Cached(r)
      /\ rest' = [rest EXCEPT ![low] = {}]
      /\ low' = low /\ stmt' = stmt /\ before' = before
  BY DEF Break, Fixed
<1>2. /\ Setting' /\ Usable' /\ Tab' = Tab /\ Matching' = Matching
      /\ \A l : Table(l)' = Table(l)
  BY <1>1, FixedParts
<1>3. NextRow(r) /\ ~GoesOn(r)
  BY DEF Break
<1>4. low \in Tab /\ low \in Nat /\ low <= stmt.n /\ stmt.n \in Nat
  BY <1>3, Caching, StatementParts DEF Inv
<1>5. /\ at' \in [Tab -> {0} \cup Rid]
      /\ \A k \in Tab : k # low => at'[Table(k)] = at[Table(k)]
  BY <1>1, <1>3, Caching
<1>6. /\ rest \in [Tab -> SUBSET Rid] /\ low \in 1 .. stmt.n + 1
      /\ \A l \in Tab : rest[l] \subseteq DOMAIN before[Table(l)]
      /\ \A l \in Tab : l < low => rest[l] = {}
      /\ \A l \in Tab : l > low =>
            at[Table(l)] \in DOMAIN before[Table(l)] \ rest[l]
  BY DEF Inv, Loops
<1>7. /\ rest'[low] = {} /\ \A l \in Tab : l # low => rest'[l] = rest[l]
      /\ rest' \in [Tab -> SUBSET Rid]
      /\ \A l \in Tab : rest'[l] \subseteq rest[l]
  BY <1>1, <1>4, <1>6
<1>8. \A l \in Tab : l > low => l # low
  BY <1>4 DEF Tab
<1>9. Loops'
  BY <1>1, <1>2, <1>5, <1>6, <1>7, <1>8 DEF Loops
<1>10. Unchanged'
  <2>1. stmt.kind = "update" => rest'[1] \subseteq rest[1]
    BY <1>4, <1>7 DEF Tab
  <2> QED
    BY <1>1, <2>1 DEF Inv, Unchanged
<1>11. NotBelow'
  <2> SUFFICES ASSUME NEW l \in Tab, ByIndex(l), NEW s \in rest'[l]
               PROVE  ~Less(Entry(l, s), Key(l, at'))
    BY <1>1, NotBelowKept
  <2>1. s \in rest[l] /\ l >= low
    BY <1>4, <1>6, <1>7 DEF Tab
  <2>2. Key(l, at') = Key(l, at)
    BY <1>1, <1>3, <2>1, KeysKept
  <2> QED
    BY <2>1, <2>2 DEF Inv, NotBelow
<1>12. ASSUME NEW m \in Matching PROVE Ahead(m)' <=> Ahead(m)
  <2>1. ASSUME Ahead(m)' PROVE Ahead(m)
    <3>1. PICK l \in Tab :
             /\ m[Table(l)] \in rest'[l]
             /\ \A k \in l + 1 .. stmt.n : m[Table(k)] = at'[Table(k)]
      BY <1>1, <2>1, FixedParts
    <3>2. m[Table(l)] \in rest[l] /\ l >= low
      BY <1>4, <1>6, <1>7, <3>1 DEF Tab
    <3>3. \A k \in l + 1 .. stmt.n : k \in Tab /\ k # low
      BY <1>4, <3>2 DEF Tab
    <3> QED
      BY <1>5, <3>1, <3>2, <3>3 DEF Ahead
  <2>2. ASSUME Ahead(m) PROVE Ahead(m)'
    <3>1. PICK l \in Tab :
             /\ m[Table(l)] \in rest[l]
             /\ \A k \in l + 1 .. stmt.n : m[Table(k)] = at[Table(k)]
      BY <2>2 DEF Ahead
    <3>2. l # low
      BY <1>3, <3>1, NoneLeft
    <3>3. l >= low
      BY <1>4, <1>6, <3>1 DEF Tab
    <3>4. \A k \in l + 1 .. stmt.n : k \in Tab /\ k # low
      BY <1>4, <3>3 DEF Tab
    <3>5. \A k \in l + 1 .. stmt.n : m[Table(k)] = at'[Table(k)]
      BY <1>5, <3>1, <3>4
    <3>6. m[Table(l)] \in rest'[l]
      BY <1>7, <3>1, <3>2
    <3> QED
      BY <1>1, <3>5, <3>6, FixedParts
  <2> QED
    BY <2>1, <2>2
<1>13. NothingLost' /\ NothingElse'
  BY <1>1, <1>2, <1>12 DEF Inv, NothingLost, NothingElse
<1> QED
  BY <1>2, <1>9, <1>10, <1>11, <1>13 DEF Inv

(* WHERE is evaluated on the rows as they were: UPDATE has not come to     *)
(* this one before.                                                        *)
LEMMA AcceptsNow ==
    ASSUME Inv, NEW r, NextRow(r)
    PROVE  Accepts(content, Cached(r)) <=> Accepts(before, Cached(r))
<1>1. Setting /\ low \in Tab /\ low <= stmt.n /\ r \in rest[low]
      /\ Cached(r)[Table(low)] = r /\ Table(low) \in Tab
  BY Caching DEF Inv
<1>2. CASE stmt.kind = "update"
  <2>1. stmt.n = 1
    BY <1>1, <1>2, StatementParts
  <2>2. low = 1 /\ Table(low) = 1
    BY <1>1, <2>1 DEF Tab
  <2>3. content[1][r] = before[1][r] /\ Cached(r)[1] = r
    BY <1>1, <1>2, <2>2 DEF Inv, Unchanged
  <2>4. ASSUME NEW o \in Operand, o.tab <= 1
        PROVE  ValueOf(content, Cached(r), o) = ValueOf(before, Cached(r), o)
    <3>1. o.tab = 0 \/ o.tab = 1
      BY <2>4, QueryAssumption DEF Operand
    <3> QED
      BY <2>3, <3>1 DEF ValueOf, IsColumn
  <2>5. ASSUME NEW i \in DOMAIN stmt.where
        PROVE  Holds(content, Cached(r), stmt.where[i])
                  <=> Holds(before, Cached(r), stmt.where[i])
    <3>1. /\ stmt.where[i].left \in Operand /\ stmt.where[i].left.tab <= 1
          /\ stmt.where[i].right \in Operand /\ stmt.where[i].right.tab <= 1
      BY <1>1, <2>1, StatementParts
    <3> QED
      BY <2>4, <3>1 DEF Holds
  <2> QED
    BY <2>5 DEF Accepts
<1>3. CASE stmt.kind # "update"
  BY <1>1, <1>3 DEF Inv, Unchanged
<1> QED
  BY <1>2, <1>3

(* What the cache holds in the innermost loop is a combination of rows.     *)
LEMMA CachedRows ==
    ASSUME Inv, NEW r, NextRow(r), low = 1
    PROVE  /\ Cached(r) \in Tuples
           /\ \A t \in Tab : Cached(r)[t] \in DOMAIN before[t]
<1>1. /\ Setting /\ low \in Tab /\ r \in DOMAIN before[Table(low)]
      /\ Cached(r) \in [Tab -> {0} \cup Rid] /\ Cached(r)[Table(low)] = r
      /\ \A k \in Tab : k # low => Cached(r)[Table(k)] = at[Table(k)]
  BY Caching DEF Inv
<1>2. ASSUME NEW k \in Tab PROVE Cached(r)[Table(k)] \in DOMAIN before[Table(k)]
  <2>1. CASE k = low
    BY <1>1, <2>1
  <2>2. CASE k > low
    BY <1>1, <2>2 DEF Inv, Loops, Tab
  <2> QED
    BY <2>1, <2>2 DEF Tab
<1>3. ASSUME NEW t \in Tab PROVE Cached(r)[t] \in DOMAIN before[t]
  <2>1. PICK k \in Tab : Table(k) = t
    BY <1>1, StatementParts DEF Table
  <2> QED
    BY <1>2, <2>1
<1>4. Cached(r) \in Tuples
  <2>1. \A t \in Tab : Cached(r)[t] \in Rid
    BY <1>1, <1>3, RowsBefore
  <2> QED
    BY <1>1, <2>1 DEF Tuples
<1> QED
  BY <1>3, <1>4

(* Where the callback runs, WHERE accepts the rows it gets. *)
LEMMA OnlyMatching ==
    ASSUME Inv, Computed = FALSE, ~Residual, NEW r, NextRow(r), low = 1,
           GoesOn(r), Passes(Cached(r))
    PROVE  Cached(r) \in Matching
<1>1. Setting /\ Usable /\ low \in Tab
  BY Caching DEF Inv
<1>2. Accepts(before, Cached(r))
  <2>1. CASE stmt.n = 1 /\ ByIndex(1)
    <3>1. Len(stmt.where) = 1 /\ plan.via[1] \in DOMAIN stmt.where
          /\ stmt.kind # "update"
      BY <1>1, <2>1 DEF Usable
    <3>2. stmt.where \in Seq(Condition)
      BY <1>1, StatementParts
    <3>3. \A i \in DOMAIN stmt.where : i = plan.via[1]
      BY <3>1, <3>2
    <3>4. Holds(content, Cached(r), Serves(1)) /\ content = before
      BY <2>1, <3>1 DEF GoesOn, Inv, Unchanged
    <3> QED
      BY <3>3, <3>4 DEF Accepts, Serves
  <2>2. CASE ~(stmt.n = 1 /\ ByIndex(1))
    BY <2>2, AcceptsNow DEF Passes
  <2> QED
    BY <2>1, <2>2
<1> QED
  BY <1>2, CachedRows DEF Matching

(* The callback of the statement writes no row the loop has to come to.    *)
LEMMA CallbackWrites ==
    ASSUME Inv, NEW r \in Rid, Innermost(r)
    PROVE  /\ ByIndex(1) => content' = content
           /\ stmt.kind # "update" => content' = content
           /\ stmt.kind = "update" =>
                 /\ 1 \in DOMAIN content'
                 /\ \A s \in rest'[1] :
                       s \in DOMAIN content'[1] /\ content'[1][s] = before[1][s]
<1>1. /\ Setting /\ low = 1 /\ 1 \in Tab /\ low <= stmt.n
      /\ rest' = [rest EXCEPT ![1] = @ \ {r}] /\ rest \in [Tab -> SUBSET Rid]
  <2>1. NextRow(r) /\ low = 1 /\ rest' = [rest EXCEPT ![1] = @ \ {r}]
    BY DEF Innermost
  <2> QED
    BY <2>1, Caching DEF Inv, Loops
<1>2. \/ content' = content
      \/ stmt.kind = "update" /\ content' = [content EXCEPT ![1][r] = Patched(@)]
  <2>1. stmt.kind \in {"select", "update", "delete"}
    BY <1>1, StatementParts
  <2>2. CASE ~Passes(Cached(r))
    BY <2>2 DEF Innermost
  <2>3. CASE Passes(Cached(r)) /\ stmt.kind = "select"
    BY <2>3 DEF Innermost, Selected
  <2>4. CASE Passes(Cached(r)) /\ stmt.kind = "update"
    BY <2>4 DEF Innermost, Updated
  <2>5. CASE Passes(Cached(r)) /\ stmt.kind = "delete"
    BY <2>5 DEF Innermost, Listed
  <2> QED
    BY <2>1, <2>2, <2>3, <2>4, <2>5
<1>3. ByIndex(1) => stmt.kind # "update"
  BY <1>1 DEF Inv, Usable
<1>4. rest'[1] = rest[1] \ {r}
  BY <1>1
<1>5. ASSUME stmt.kind = "update"
      PROVE  /\ 1 \in DOMAIN content'
             /\ \A s \in rest'[1] :
                   s \in DOMAIN content'[1] /\ content'[1][s] = before[1][s]
  <2>1. /\ 1 \in DOMAIN content
        /\ \A s \in rest[1] : s \in DOMAIN content[1] /\ content[1][s] = before[1][s]
    BY <1>1, <1>5 DEF Inv, Unchanged
  <2>2. \A s \in rest'[1] : content'[1][s] = content[1][s]
    BY <1>2, <1>4, <2>1
  <2>3. DOMAIN content' = DOMAIN content /\ DOMAIN content'[1] = DOMAIN content[1]
    BY <1>2, <2>1
  <2> QED
    BY <1>4, <2>1, <2>2, <2>3
<1> QED
  BY <1>2, <1>3, <1>5

(* The combination that was ahead is given to the callback, and no other   *)
(* one stops to be ahead.                                                  *)
LEMMA InnermostStep ==
    ASSUME Inv, Computed = FALSE, NEW r \in Rid, Innermost(r) PROVE Inv'
<1>1. /\ Fixed /\ at' = Cached(r) /\ rest' = [rest EXCEPT ![1] = @ \ {r}]
      /\ low = 1 /\ low' = low /\ stmt' = stmt /\ before' = before
      /\ NextRow(r) /\ GoesOn(r)
      /\ out' = IF Passes(Cached(r)) THEN out \cup {Cached(r)} ELSE out
  BY DEF Innermost, Fixed
<1>2. /\ Setting' /\ Usable' /\ Tab' = Tab /\ Matching' = Matching
      /\ \A l : Table(l)' = Table(l)
  BY <1>1, FixedParts
<1>3. /\ 1 \in Tab /\ 1 <= stmt.n /\ stmt.n \in Nat
      /\ \A l \in Tab : l = 1 \/ (l > 1 /\ l # 1)
  <2>1. 1 <= stmt.n
    BY <1>1, Caching
  <2>2. stmt.n \in Nat
    BY StatementParts DEF Inv
  <2> QED
    BY <2>1, <2>2 DEF Tab
<1>4. /\ at' \in [Tab -> {0} \cup Rid] /\ at'[Table(1)] = r /\ r \in rest[1]
      /\ \A k \in Tab : k # 1 => at'[Table(k)] = at[Table(k)]
  BY <1>1, Caching
<1>5. /\ rest \in [Tab -> SUBSET Rid] /\ low \in 1 .. stmt.n + 1
      /\ \A l \in Tab : rest[l] \subseteq DOMAIN before[Table(l)]
      /\ \A l \in Tab : l < low => rest[l] = {}
      /\ \A l \in Tab : l > low =>
            at[Table(l)] \in DOMAIN before[Table(l)] \ rest[l]
  BY DEF Inv, Loops
<1>6. /\ rest'[1] = rest[1] \ {r} /\ \A l \in Tab : l # 1 => rest'[l] = rest[l]
      /\ rest' \in [Tab -> SUBSET Rid]
      /\ \A l \in Tab : rest'[l] \subseteq rest[l]
  BY <1>1, <1>3, <1>5
<1>7. Loops'
  <2>1. \A l \in Tab : ~(l < low')
    BY <1>1, <1>3 DEF Tab
  <2>2. \A l \in Tab : l > low' => l > low /\ l # 1
    BY <1>1, <1>3 DEF Tab
  <2> QED
    BY <1>1, <1>2, <1>4, <1>5, <1>6, <2>1, <2>2 DEF Loops
<1>8. Unchanged'
  <2>1. low <= stmt.n
    BY <1>1, <1>3
  <2>2. stmt.kind = "update" => stmt.n = 1
    BY <2>1 DEF Inv, Unchanged
  <2>3. stmt.kind # "update" => content' = before
    BY <2>1, CallbackWrites DEF Inv, Unchanged
  <2> QED
    BY <1>1, <2>2, <2>3, CallbackWrites DEF Unchanged
<1>9. NotBelow'
  <2>1. CASE \E l \in Tab : ByIndex(l)
    <3>1. stmt.kind # "update"
      BY <2>1 DEF Inv, Usable
    <3>2. content' = content
      BY <3>1, CallbackWrites
    <3> SUFFICES ASSUME NEW l \in Tab, ByIndex(l), NEW s \in rest'[l]
                 PROVE  ~Less(Entry(l, s), Key(l, at'))
      BY <1>1, <3>2, NotBelowKept
    <3>3. s \in rest[l] /\ l >= low
      BY <1>1, <1>3, <1>6 DEF Tab
    <3>4. Key(l, at') = Key(l, at)
      BY <1>1, <3>3, KeysKept
    <3> QED
      BY <3>3, <3>4 DEF Inv, NotBelow
  <2>2. CASE ~ \E l \in Tab : ByIndex(l)
    <3>1. \A l \in Tab' : ~ByIndex(l)'
      BY <1>1, <1>2, <2>2, FixedParts
    <3> QED
      BY <3>1 DEF NotBelow
  <2> QED
    BY <2>1, <2>2
<1>10. ASSUME NEW m \in Matching, Ahead(m)' PROVE Ahead(m) /\ m # at'
  <2>1. PICK l \in Tab :
           /\ m[Table(l)] \in rest'[l]
           /\ \A k \in l + 1 .. stmt.n : m[Table(k)] = at'[Table(k)]
    BY <1>1, <1>10, FixedParts
  <2>2. \A k \in l + 1 .. stmt.n : k \in Tab /\ k # 1
    BY <1>3, <2>1 DEF Tab
  <2>3. Ahead(m)
    BY <1>4, <1>6, <2>1, <2>2 DEF Ahead
  <2>4. at'[Table(l)] \notin rest'[l]
    <3>1. CASE l = 1
      BY <1>4, <1>6, <3>1
    <3>2. CASE l > 1 /\ l # 1
      BY <1>1, <1>4, <1>5, <1>6, <3>2
    <3> QED
      BY <1>3, <3>1, <3>2
  <2> QED
    BY <2>1, <2>3, <2>4
<1>11. ASSUME NEW m \in Matching, Ahead(m), ~Ahead(m)' PROVE m = at'
  <2>1. PICK l \in Tab :
           /\ m[Table(l)] \in rest[l]
           /\ \A k \in l + 1 .. stmt.n : m[Table(k)] = at[Table(k)]
    BY <1>11 DEF Ahead
  <2>2. \A k \in l + 1 .. stmt.n : k \in Tab /\ k # 1
    BY <1>3, <2>1 DEF Tab
  <2>3. \A k \in l + 1 .. stmt.n : m[Table(k)] = at'[Table(k)]
    BY <1>4, <2>1, <2>2
  <2>4. m[Table(l)] \notin rest'[l]
    BY <1>1, <1>11, <2>3, FixedParts
  <2>5. l = 1 /\ m[Table(1)] = r
    BY <1>6, <2>1, <2>4
  <2>6. \A k \in Tab : k = 1 \/ k \in l + 1 .. stmt.n
    BY <1>3, <2>5 DEF Tab
  <2>7. \A k \in Tab : m[Table(k)] = at'[Table(k)]
    BY <1>4, <2>3, <2>5, <2>6
  <2>8. \A t \in Tab : m[t] = at'[t]
    <3>1. \A t \in Tab : \E k \in Tab : Table(k) = t
      BY StatementParts DEF Inv, Table
    <3> QED
      BY <2>7, <3>1
  <2>9. m \in [Tab -> Rid]
    BY DEF Matching, Tuples
  <2> QED
    BY <1>4, <2>8, <2>9
<1>12. ASSUME NEW m \in Matching, m = at' PROVE m \in out'
  <2>1. Accepts(content, Cached(r))
    BY <1>1, <1>12, AcceptsNow DEF Matching
  <2> QED
    BY <1>1, <1>12, <2>1 DEF Passes
<1>13. ASSUME NEW m \in Matching PROVE m \in out' <=> ~Ahead(m)'
  <2>1. m \in out <=> ~Ahead(m)
    BY DEF Inv, NothingLost
  <2>2. m \in out => m \in out'
    BY <1>1
  <2>3. m \in out' => m \in out \/ m = at'
    BY <1>1
  <2> QED
    BY <1>10, <1>11, <1>12, <2>1, <2>2, <2>3
<1>14. NothingLost'
  BY <1>2, <1>13 DEF NothingLost
<1>15. NothingElse'
  <2> SUFFICES ASSUME ~Residual PROVE out' \subseteq Matching
    BY <1>2 DEF NothingElse
  <2>1. Passes(Cached(r)) => Cached(r) \in Matching
    BY <1>1, OnlyMatching
  <2> QED
    BY <1>1, <2>1 DEF Inv, NothingElse
<1> QED
  BY <1>2, <1>7, <1>8, <1>9, <1>14, <1>15 DEF Inv

(* What DELETE removes, it removes after the loops. *)
LEMMA RemoveStep ==
    ASSUME Inv, RemoveListed PROVE Inv'
<1>1. /\ Fixed /\ rest' = rest /\ at' = at /\ out' = out /\ low' = low
      /\ stmt' = stmt /\ before' = before /\ low > stmt.n
  BY DEF RemoveListed, Fixed
<1>2. /\ Setting' /\ Usable' /\ Tab' = Tab /\ Matching' = Matching
      /\ \A l : Table(l)' = Table(l)
      /\ \A m : Ahead(m)' <=> Ahead(m)
  BY <1>1, FixedParts DEF Ahead
<1>3. stmt.n \in Nat /\ low \in Nat
  BY StatementParts DEF Inv, Loops
<1>4. Loops'
  BY <1>1, <1>2 DEF Inv, Loops
<1>5. Unchanged'
  BY <1>1, <1>3 DEF Unchanged
<1>6. NotBelow'
  <2>1. \A l \in Tab : rest'[l] = {}
    BY <1>1, <1>3 DEF Inv, Loops, Tab
  <2> QED
    BY <1>2, <2>1 DEF NotBelow
<1>7. NothingLost' /\ NothingElse'
  BY <1>1, <1>2 DEF Inv, NothingLost, NothingElse
<1> QED
  BY <1>2, <1>4, <1>5, <1>6, <1>7 DEF Inv

(* Every step keeps the invariant. *)
LEMMA InvStep ==
    ASSUME Inv, Computed = FALSE, [Next]_vars PROVE Inv'
<1>1. CASE \E r \in Rid : Descend(r)
  BY <1>1, DescendStep
<1>2. CASE \E r \in Rid : Break(r)
  BY <1>2, BreakStep
<1>3. CASE \E r \in Rid : Innermost(r)
  BY <1>3, InnermostStep
<1>4. CASE Return
  BY <1>4, ReturnStep
<1>5. CASE RemoveListed
  BY <1>5, RemoveStep
<1>6. CASE UNCHANGED vars
  <2>1. Fixed
    BY <1>6 DEF vars, Fixed
  <2>2. /\ Setting' /\ Usable' /\ Tab' = Tab /\ Matching' = Matching
        /\ \A l : Table(l)' = Table(l)
        /\ \A m : Ahead(m)' <=> Ahead(m)
    BY <1>6, <2>1, FixedParts DEF Ahead, vars
  <2>3. Loops' /\ Unchanged' /\ NothingLost' /\ NothingElse'
    BY <1>6, <2>2 DEF Inv, Loops, Unchanged, NothingLost, NothingElse, vars
  <2>4. NotBelow'
    BY <1>6, <2>1, NotBelowKept DEF Inv, NotBelow, vars
  <2> QED
    BY <2>2, <2>3, <2>4 DEF Inv
<1> QED
  BY <1>1, <1>2, <1>3, <1>4, <1>5, <1>6 DEF Next

(* Whatever the number of tables, their rows, NULLs among them, and the    *)
(* indices the loops use: at every moment a combination of rows that WHERE *)
(* accepts has been given to the callback or is still ahead of the loops,  *)
(* and never both.                                                         *)
THEOREM NoRowLost ==
    ASSUME Computed = FALSE PROVE Spec => []NothingLost
<1>1. Init => Inv
  BY InvInit
<1>2. Inv /\ [Next]_vars => Inv'
  BY InvStep
<1>3. Inv => NothingLost
  BY DEF Inv
<1> QED
  BY <1>1, <1>2, <1>3, PTL DEF Spec

-----------------------------------------------------------------------------
(* The row a loop caches for the callback makes a combination that was     *)
(* ahead, so it has not been given before.                                 *)
LEMMA NotGivenBefore ==
    ASSUME Inv, NEW r, NextRow(r), low = 1, Cached(r) \in Matching
    PROVE  Cached(r) \notin out
<1> DEFINE m == Cached(r)
<1>1. 1 \in Tab /\ m[Table(1)] \in rest[1]
  BY Caching
<1>2. \A k \in 1 + 1 .. stmt.n : m[Table(k)] = at[Table(k)]
  <2>1. stmt.n \in Nat
    BY StatementParts DEF Inv
  <2>2. \A k \in 1 + 1 .. stmt.n : k \in Tab /\ k # low
    BY <2>1 DEF Tab
  <2> QED
    BY <2>2, Caching
<1>3. Ahead(m)
  BY <1>1, <1>2 DEF Ahead
<1> QED
  BY <1>3 DEF Inv, NothingLost

(* Every step is a call for a tuple not seen yet, the end, or a stutter. *)
LEMMA OnceStep ==
    ASSUME Inv, Computed = FALSE, ~Residual, [Next]_vars
    PROVE  [Once!Call \/ Once!End]_<<Matching, out, counter, Ended>>
<1>1. stmt.n \in Nat /\ low \in Nat
  BY StatementParts DEF Inv, Loops
<1>2. CASE \E r \in Rid : Descend(r) \/ Break(r)
  <2>1. /\ Fixed /\ out' = out /\ counter' = counter /\ stmt' = stmt
        /\ low <= stmt.n /\ (low' = low \/ low' = low - 1)
    BY <1>2 DEF Descend, Break, NextRow, Fixed
  <2>2. ~(low > stmt.n) /\ ~(low' > stmt.n)
    BY <1>1, <2>1
  <2>3. ~Ended /\ ~Ended' /\ Ended' = Ended
    BY <2>1, <2>2 DEF Ended
  <2> QED
    BY <2>1, <2>3, FixedParts
<1>3. CASE \E r \in Rid : Innermost(r)
  <2>1. PICK r \in Rid : Innermost(r)
    BY <1>3
  <2>2. /\ Fixed /\ NextRow(r) /\ low = 1 /\ GoesOn(r) /\ low <= stmt.n
        /\ stmt' = stmt /\ low' = low
    BY <2>1 DEF Innermost, NextRow, Fixed
  <2>3. ~Ended /\ Ended' = Ended /\ Matching' = Matching
    BY <1>1, <2>2, FixedParts DEF Ended
  <2>4. CASE Passes(Cached(r))
    <3>1. out' = out \cup {Cached(r)} /\ counter' = counter + 1
      BY <2>1, <2>4 DEF Innermost
    <3>2. Cached(r) \in Matching /\ Cached(r) \notin out
      BY <2>2, <2>4, OnlyMatching, NotGivenBefore
    <3>3. Once!Call
      BY <2>3, <3>1, <3>2 DEF Once!Call
    <3> QED
      BY <3>3
  <2>5. CASE ~Passes(Cached(r))
    <3>1. out' = out /\ counter' = counter
      BY <2>1, <2>5 DEF Innermost
    <3> QED
      BY <2>3, <3>1
  <2> QED
    BY <2>4, <2>5
<1>4. CASE Return
  <2>1. /\ Fixed /\ out' = out /\ counter' = counter /\ low' = low + 1
        /\ low <= stmt.n /\ rest[low] = {} /\ stmt' = stmt
    BY <1>4 DEF Return, Fixed
  <2>2. Matching' = Matching /\ ~Ended
    BY <1>1, <2>1, FixedParts DEF Ended
  <2>3. CASE low' > stmt.n
    <3>1. low = stmt.n
      BY <1>1, <2>1, <2>3
    <3>2. \A l \in Tab : l < low \/ l = low
      BY <1>1, <3>1 DEF Tab
    <3>3. \A l \in Tab : rest[l] = {}
      BY <2>1, <3>2 DEF Inv, Loops
    <3>4. \A m \in Matching : m \in out
      BY <3>3 DEF Inv, NothingLost, Ahead
    <3>5. out = Matching
      BY <3>4 DEF Inv, NothingElse
    <3>6. Ended' = TRUE
      BY <2>1, <2>3 DEF Ended
    <3>7. Once!End
      BY <2>1, <2>2, <3>5, <3>6 DEF Once!End
    <3> QED
      BY <3>7
  <2>4. CASE ~(low' > stmt.n)
    <3>1. Ended' = Ended
      BY <2>1, <2>2, <2>4 DEF Ended
    <3> QED
      BY <2>1, <2>2, <3>1
  <2> QED
    BY <2>3, <2>4
<1>5. CASE RemoveListed
  <2>1. /\ Fixed /\ out' = out /\ counter' = counter /\ low' = low
        /\ stmt' = stmt
    BY <1>5 DEF RemoveListed, Fixed
  <2> QED
    BY <2>1, FixedParts DEF Ended
<1>6. CASE UNCHANGED vars
  <2>1. /\ Fixed /\ out' = out /\ counter' = counter /\ low' = low
        /\ stmt' = stmt
    BY <1>6 DEF vars, Fixed
  <2> QED
    BY <2>1, FixedParts DEF Ended
<1> QED
  BY <1>2, <1>3, <1>4, <1>5, <1>6 DEF Next

(* Where WHERE says no more than the condition of a single table's index,  *)
(* the loops keep the promise of RowsOnce: the callback runs once for each *)
(* combination of rows WHERE accepts and for no other, and when the loops  *)
(* end it has run for all.  (That they end is left to the runs.)           *)
THEOREM EveryRowOnce ==
    ASSUME Computed = FALSE, ~Residual PROVE Spec => Once!Protocol
<1>1. Init => Inv /\ Once!Start
  <2>1. ASSUME Init PROVE Once!Start
    <3>1. stmt.n \in Nat
      BY <2>1, UsableInit, StatementParts
    <3>2. out = {} /\ counter = 0 /\ low = stmt.n
      BY <2>1 DEF Init
    <3>3. Ended = FALSE
      BY <3>1, <3>2 DEF Ended
    <3> QED
      BY <3>2, <3>3 DEF Once!Start
  <2> QED
    BY <2>1, InvInit
<1>2. Inv /\ [Next]_vars => Inv'
  BY InvStep
<1>3. Inv /\ [Next]_vars
         => [Once!Call \/ Once!End]_<<Matching, out, counter, Ended>>
  BY OnceStep
<1> QED
  BY <1>1, <1>2, <1>3, PTL DEF Spec, Once!Protocol
-----------------------------------------------------------------------------
(* The columns the loops' indices are on do have one, and what is not about *)
(* the loops themselves has its type.                                      *)
Indexing ==
    \A l \in Tab : ByIndex(l) /\ stmt.n > 1 => Own(l).col \in indexed[Table(l)]

Counts == out \subseteq Tuples /\ counter \in Nat /\ refused \subseteq Rid

(* They do when the loops start. *)
LEMMA IndexingInit ==
    ASSUME Init PROVE Indexing
<1> SUFFICES ASSUME NEW l \in Tab, ByIndex(l), stmt.n > 1
             PROVE  Own(l).col \in indexed[Table(l)]
  BY DEF Indexing
<1>1. PICK p \in Orders(stmt.n), d \in 0 .. stmt.n - 1 :
         \E via \in [Tab -> 0 .. Len(stmt.where)] :
            /\ IsVia(stmt, indexed, p, d, via)
            /\ plan = [order |-> p, depth |-> d, via |-> via]
  BY DEF Init
<1>2. PICK via \in [Tab -> 0 .. Len(stmt.where)] :
         /\ IsVia(stmt, indexed, p, d, via)
         /\ plan = [order |-> p, depth |-> d, via |-> via]
  BY <1>1
<1> DEFINE i == via[l]
<1>3. plan.order = p /\ plan.via = via
  BY <1>2
<1>4. i # 0 /\ Serves(l) = stmt.where[i]
  BY <1>3 DEF ByIndex, Serves
<1>5. Setting /\ Usable
  BY UsableInit
<1>6. l <= d /\ JoinCondition(stmt, indexed, p, l, i)
  BY <1>2, <1>4, <1>5, StatementParts DEF IsVia, Tab
<1>7. i \in JoinConditions(stmt, indexed, Table(l), Table(l + 1))
  BY <1>3, <1>6 DEF JoinCondition, Table
<1>8. \/ Reads(stmt.where[i].left, indexed, Table(l))
         /\ stmt.where[i].right.tab = Table(l + 1)
      \/ Reads(stmt.where[i].right, indexed, Table(l))
         /\ stmt.where[i].left.tab = Table(l + 1)
  BY <1>7 DEF JoinConditions
<1>9. Table(l) # Table(l + 1)
  <2>1. l < stmt.n /\ stmt.n \in Nat
    BY <1>5, StatementParts DEF Usable
  <2>2. l + 1 \in Tab /\ l # l + 1
    BY <2>1 DEF Tab
  <2> QED
    BY <1>5, <2>2, StatementParts DEF Table
<1> QED
  BY <1>4, <1>8, <1>9 DEF Own, LeftIsOwn, Reads

(* And no statement drops an index while its loops run. *)
LEMMA IndexingStep ==
    ASSUME Inv, Indexing, [Next]_vars PROVE Indexing'
<1>1. stmt' = stmt /\ plan' = plan /\ indexed' = indexed
  BY DEF Next, Descend, Break, Innermost, Return, RemoveListed, vars
<1>2. Tab' = Tab
  BY <1>1 DEF Tab
<1> QED
  BY <1>1, <1>2 DEF Indexing, ByIndex, Own, LeftIsOwn, Serves, Table

(* A row that is refused is the one the innermost loop is at. *)
LEMMA CountsStep ==
    ASSUME Inv, Counts, [Next]_vars PROVE Counts'
<1>1. Tuples' = Tuples
  <2>1. stmt' = stmt
    BY DEF Next, Descend, Break, Innermost, Return, RemoveListed, vars
  <2> QED
    BY <2>1 DEF Tuples, Tab
<1>2. CASE \E r \in Rid : Innermost(r)
  <2>1. PICK r \in Rid : Innermost(r)
    BY <1>2
  <2>2. NextRow(r) /\ low = 1 /\ at' = Cached(r)
    BY <2>1 DEF Innermost
  <2>3. CASE Passes(Cached(r))
    <3>1. out' = out \cup {Cached(r)} /\ counter' = counter + 1
      BY <2>1, <2>3 DEF Innermost
    <3>2. Cached(r) \in Tuples
      BY <2>2, CachedRows
    <3>3. refused' = refused \/ refused' = refused \cup {r}
      <4>1. stmt.kind \in {"select", "update", "delete"}
        BY StatementParts DEF Inv
      <4> QED
        BY <2>1, <2>3, <4>1 DEF Innermost, Selected, Updated, Listed
    <3> QED
      BY <1>1, <3>1, <3>2, <3>3 DEF Counts
  <2>4. CASE ~Passes(Cached(r))
    <3>1. out' = out /\ counter' = counter /\ refused' = refused
      BY <2>1, <2>4 DEF Innermost
    <3> QED
      BY <1>1, <3>1 DEF Counts
  <2> QED
    BY <2>3, <2>4
<1>3. CASE ~ \E r \in Rid : Innermost(r)
  <2>1. out' = out /\ counter' = counter /\ refused' = refused
    BY <1>3 DEF Next, Descend, Break, Return, RemoveListed, vars
  <2> QED
    BY <1>1, <2>1 DEF Counts
<1> QED
  BY <1>2, <1>3

(* So the loops are sound in every state of the invariant. *)
LEMMA SoundNow ==
    ASSUME Inv, Indexing, Counts PROVE LoopsSound
<1>1. TypeOK
  <2>1. stmt \in Statement
    BY QueryAssumption DEF Inv, Setting
  <2> QED
    BY <2>1, StatementParts DEF TypeOK, Inv, Setting, Loops, Counts
<1>2. ASSUME NEW l \in Tab, ByIndex(l), stmt.n > 1
      PROVE  /\ l < stmt.n
             /\ Own(l).tab = Table(l) /\ Own(l).col \in indexed[Table(l)]
             /\ Other(l).tab = Table(l + 1)
             /\ low <= l => at[Table(l + 1)] \in DOMAIN content[Table(l + 1)]
  <2>1. /\ l < stmt.n /\ Own(l).tab = Table(l) /\ Other(l).tab = Table(l + 1)
        /\ Own(l).col \in indexed[Table(l)]
    BY <1>2 DEF Inv, Usable, Indexing
  <2>2. ASSUME low <= l
        PROVE  at[Table(l + 1)] \in DOMAIN content[Table(l + 1)]
    <3>1. stmt.n \in Nat /\ low \in Nat
      BY StatementParts DEF Inv, Loops
    <3>2. l + 1 \in Tab /\ l + 1 > low /\ low <= stmt.n
      BY <2>1, <2>2, <3>1 DEF Tab
    <3>3. content = before
      BY <1>2, <3>2, StatementParts DEF Inv, Unchanged
    <3> QED
      BY <3>2, <3>3 DEF Inv, Loops
  <2> QED
    BY <2>1, <2>2
<1> QED
  BY <1>1, <1>2 DEF LoopsSound, KeysAreCurrent

(* The loops run over an order of the tables of FROM, whatever order the   *)
(* join conditions give them; and a loop over an index has its key from a  *)
(* row of the table just outside, which is still in that table.            *)
THEOREM LoopsStaySound ==
    ASSUME Computed = FALSE PROVE Spec => []LoopsSound
<1>1. Init => Inv /\ Indexing /\ Counts
  <2>1. Init => Counts
    BY DEF Init, Counts
  <2> QED
    BY <2>1, InvInit, IndexingInit
<1>2. Inv /\ Indexing /\ Counts /\ [Next]_vars => Inv' /\ Indexing' /\ Counts'
  BY InvStep, IndexingStep, CountsStep
<1>3. Inv /\ Indexing /\ Counts => LoopsSound
  BY SoundNow
<1> QED
  BY <1>1, <1>2, <1>3, PTL DEF Spec
-----------------------------------------------------------------------------
(* What UPDATE and DELETE have written so far: the rows the callback had,  *)
(* but those it was refused; of the rows it listed, some are removed.      *)
Given(r) == [u \in Tab |-> r] \in out

Written(r) ==
    IF Given(r) /\ r \notin refused THEN Patched(before[1][r]) ELSE before[1][r]

Changed ==
    content = [t \in DOMAIN before |->
        IF t # 1 \/ stmt.kind = "select" THEN before[t]
        ELSE IF stmt.kind = "delete"
        THEN [r \in DOMAIN content[1] |-> before[1][r]]
        ELSE [r \in DOMAIN before[1] |-> Written(r)]]

Removed ==
    stmt.kind = "delete" =>
        /\ DOMAIN content[1] \subseteq DOMAIN before[1]
        /\ \A r \in DOMAIN before[1] : r \in DOMAIN content[1] \/ Given(r)

RefusedGiven == stmt.kind = "update" => \A r \in refused : Given(r)

Writing == Changed /\ Removed /\ RefusedGiven

(* The tables the statement began with are functions, and one is the first. *)
LEMMA TablesBefore ==
    ASSUME Setting
    PROVE  /\ 1 \in DOMAIN before
           /\ before = [t \in DOMAIN before |-> before[t]]
           /\ before[1] = [r \in DOMAIN before[1] |-> before[1][r]]
           /\ 1 \in Tab
<1>1. DOMAIN before = 1 .. N /\ 1 \in 1 .. N
  BY QueryAssumption DEF Setting
<1>2. PICK d \in SUBSET Rid : before[1] \in [d -> Row]
  BY <1>1, QueryAssumption DEF Setting
<1>3. before = [t \in DOMAIN before |-> before[t]]
  BY QueryAssumption DEF Setting
<1> QED
  BY <1>1, <1>2, <1>3, StatementParts DEF Tab

(* Nothing is written when the loops start. *)
LEMMA WritingInit ==
    ASSUME Init PROVE Writing
<1>1. Setting
  BY UsableInit
<1>2. content = before /\ out = {} /\ refused = {}
  BY DEF Init
<1>3. \A r : ~Given(r)
  BY <1>2 DEF Given
<1>4. [r \in DOMAIN before[1] |-> Written(r)] = before[1]
      /\ [r \in DOMAIN content[1] |-> before[1][r]] = before[1]
  BY <1>1, <1>2, <1>3, TablesBefore DEF Written
<1>5. Changed
  BY <1>1, <1>2, <1>4, TablesBefore DEF Changed
<1> QED
  BY <1>2, <1>5 DEF Writing, Removed, RefusedGiven

(* A step that writes no table may list rows to delete or select. *)
LEMMA WritingKept ==
    ASSUME Inv, Writing, Fixed, content' = content, out \subseteq out',
           stmt.kind = "update" => out' = out /\ refused' = refused
    PROVE  Writing'
<1>1. stmt' = stmt /\ before' = before /\ Tab' = Tab
  BY DEF Fixed, Tab
<1>2. \A r : Given(r) => Given(r)'
  BY <1>1 DEF Given
<1>3. Removed'
  BY <1>1, <1>2 DEF Writing, Removed
<1>4. RefusedGiven'
  BY <1>1, <1>2 DEF Writing, RefusedGiven
<1>5. CASE stmt.kind = "update"
  <2>1. \A r : Written(r)' = Written(r)
    BY <1>1, <1>5 DEF Written, Given, Patched
  <2> QED
    BY <1>1, <1>3, <1>4, <1>5, <2>1 DEF Writing, Changed
<1>6. CASE stmt.kind \in {"select", "delete"}
  <2>1. content = [t \in DOMAIN before |->
            IF t # 1 \/ stmt.kind = "select" THEN before[t]
            ELSE [r \in DOMAIN content[1] |-> before[1][r]]]
    BY <1>6 DEF Writing, Changed
  <2>2. content' = [t \in DOMAIN before' |->
            IF t # 1 \/ stmt'.kind = "select" THEN before'[t]
            ELSE [r \in DOMAIN content'[1] |-> before'[1][r]]]
    BY <1>1, <2>1
  <2>3. Changed'
    BY <1>1, <1>6, <2>2 DEF Changed
  <2> QED
    BY <1>3, <1>4, <2>3 DEF Writing
<1> QED
  BY <1>5, <1>6, StatementParts DEF Inv

(* UPDATE writes the row it is at as it was before, or has it refused. *)
LEMMA WritingUpdate ==
    ASSUME Inv, Writing, Computed = FALSE, ~Residual, NEW r \in Rid, Innermost(r),
           stmt.kind = "update", Passes(Cached(r))
    PROVE  Writing'
<1>1. /\ NextRow(r) /\ low = 1 /\ GoesOn(r) /\ Fixed /\ Setting
      /\ out' = out \cup {Cached(r)} /\ Updated(r)
  BY DEF Innermost, Fixed, Inv
<1>2. stmt' = stmt /\ before' = before /\ Tab' = Tab
  BY <1>1 DEF Fixed, Tab
<1>3. Tab = {1} /\ low <= stmt.n
  <2>1. stmt.n = 1
    BY <1>1, StatementParts
  <2> QED
    BY <1>1, <2>1 DEF Tab
<1>4. Cached(r) = [u \in Tab |-> r]
  <2>1. Cached(r)[Table(1)] = r /\ Table(1) \in Tab
    BY <1>1, <1>3, Caching
  <2>2. Cached(r) \in [Tab -> Rid]
    BY <1>1, CachedRows DEF Tuples
  <2> QED
    BY <1>3, <2>1, <2>2
<1>5. Cached(r) \notin out
  BY <1>1, OnlyMatching, NotGivenBefore
<1>6. ~Given(r) /\ r \notin refused
  BY <1>4, <1>5 DEF Given, Writing, RefusedGiven
<1>7. \A s : Given(s)' <=> Given(s) \/ s = r
  <2>1. \A s : [u \in Tab |-> s] = [u \in Tab |-> r] => s = r
    <3>1. ASSUME NEW s, [u \in Tab |-> s] = [u \in Tab |-> r] PROVE s = r
      <4>1. [u \in Tab |-> s][1] = [u \in Tab |-> r][1]
        BY <3>1
      <4> QED
        BY <1>3, <4>1
    <3> QED
      BY <3>1
  <2> QED
    BY <1>1, <1>2, <1>4, <2>1 DEF Given
<1>8. /\ r \in DOMAIN before[1] /\ content[1][r] = before[1][r]
      /\ r \in DOMAIN content[1] /\ 1 \in DOMAIN content
  <2>1. r \in rest[1]
    BY <1>1, Caching
  <2>2. Table(1) = 1
    BY <1>1, <1>3, Caching
  <2> QED
    BY <1>1, <1>3, <2>1, <2>2 DEF Inv, Unchanged, Loops
<1>9. content = [t \in DOMAIN before |->
          IF t # 1 THEN before[t] ELSE [s \in DOMAIN before[1] |-> Written(s)]]
  BY DEF Writing, Changed
<1>10. 1 \in DOMAIN before /\ content[1] = [s \in DOMAIN before[1] |-> Written(s)]
  BY <1>1, <1>9, TablesBefore
<1>11. PICK ok \in BOOLEAN :
          /\ content' = IF ok THEN [content EXCEPT ![1][r] = Patched(@)] ELSE content
          /\ refused' = IF ok THEN refused ELSE refused \cup {r}
  BY <1>1 DEF Updated
<1>12. \A row : Patched(row)' = Patched(row)
  BY <1>2 DEF Patched
<1>13. RefusedGiven'
  BY <1>2, <1>7, <1>11 DEF Writing, RefusedGiven
<1>14. \A s : s # r => Written(s)' = Written(s)
  BY <1>2, <1>7, <1>11, <1>12 DEF Written
<1>15. content' = [t \in DOMAIN before |->
          IF t # 1 THEN before[t] ELSE [s \in DOMAIN before[1] |-> Written(s)']]
  <2>1. CASE ok
    <3>1. Written(r)' = Patched(before[1][r])
      BY <1>2, <1>6, <1>7, <1>11, <1>12, <2>1 DEF Written
    <3>2. [content[1] EXCEPT ![r] = Patched(content[1][r])]
             = [s \in DOMAIN before[1] |-> Written(s)']
      BY <1>8, <1>10, <1>14, <3>1
    <3>3. content' = [content EXCEPT ![1] = [content[1] EXCEPT ![r] = Patched(content[1][r])]]
      BY <1>11, <2>1
    <3> QED
      BY <1>9, <3>2, <3>3
  <2>2. CASE ~ok
    <3>1. Written(r)' = Written(r)
      BY <1>2, <1>6, <1>11, <2>2 DEF Written
    <3> QED
      BY <1>9, <1>11, <1>14, <2>2, <3>1
  <2> QED
    BY <2>1, <2>2
<1>16. Changed'
  BY <1>2, <1>15 DEF Changed
<1>17. Removed'
  BY <1>2 DEF Removed
<1> QED
  BY <1>13, <1>16, <1>17 DEF Writing

(* DELETE removes one of the rows it listed. *)
LEMMA WritingRemove ==
    ASSUME Inv, Counts, Writing, RemoveListed PROVE Writing'
<1>1. /\ stmt' = stmt /\ before' = before /\ out' = out /\ Tab' = Tab
      /\ refused' = refused /\ stmt.kind = "delete" /\ Setting
  BY DEF RemoveListed, Inv, Tab
<1>2. PICK m \in out :
         /\ m[1] \in DOMAIN content[1]
         /\ content' = [content EXCEPT ![1] =
               [r \in DOMAIN @ \ {m[1]} |-> @[r]]]
  BY DEF RemoveListed
<1>3. content = [t \in DOMAIN before |->
          IF t # 1 THEN before[t] ELSE [r \in DOMAIN content[1] |-> before[1][r]]]
  BY <1>1 DEF Writing, Changed
<1>4. 1 \in DOMAIN before /\ 1 \in DOMAIN content
      /\ content[1] = [r \in DOMAIN content[1] |-> before[1][r]]
  <2>1. 1 \in DOMAIN before
    BY <1>1, TablesBefore
  <2> QED
    BY <1>3, <2>1
<1>5. content'[1] = [r \in DOMAIN content[1] \ {m[1]} |-> before[1][r]]
  BY <1>2, <1>4
<1>6. DOMAIN content'[1] = DOMAIN content[1] \ {m[1]}
  BY <1>5
<1>7. content' = [t \in DOMAIN before |->
          IF t # 1 THEN before[t] ELSE [r \in DOMAIN content'[1] |-> before[1][r]]]
  BY <1>2, <1>3, <1>4, <1>5, <1>6
<1>8. Given(m[1])
  <2>1. stmt.n = 1
    BY <1>1, StatementParts
  <2>2. m \in [{1} -> Rid]
    BY <2>1 DEF Counts, Tuples, Tab
  <2>3. m = [u \in Tab |-> m[1]]
    BY <2>1, <2>2 DEF Tab
  <2> QED
    BY <2>3 DEF Given
<1>9. \A r : Given(r)' <=> Given(r)
  BY <1>1 DEF Given
<1>10. Removed'
  BY <1>1, <1>6, <1>8, <1>9 DEF Writing, Removed
<1>11. Changed' /\ RefusedGiven'
  BY <1>1, <1>7 DEF Changed, RefusedGiven
<1> QED
  BY <1>10, <1>11 DEF Writing

(* Every step keeps what was written in line with the tuples seen. *)
LEMMA WritingStep ==
    ASSUME Inv, Counts, Writing, Computed = FALSE, ~Residual, [Next]_vars
    PROVE  Writing'
<1>1. CASE \E r \in Rid : Innermost(r)
  <2>1. PICK r \in Rid : Innermost(r)
    BY <1>1
  <2>2. Fixed /\ (stmt.kind # "update" => content' = content)
    BY <2>1, CallbackWrites DEF Innermost, Fixed
  <2>3. CASE Passes(Cached(r))
    <3>1. out \subseteq out'
      BY <2>1, <2>3 DEF Innermost
    <3> QED
      BY <2>1, <2>2, <2>3, <3>1, WritingUpdate, WritingKept
  <2>4. CASE ~Passes(Cached(r))
    <3>1. out' = out /\ content' = content /\ refused' = refused
      BY <2>1, <2>4 DEF Innermost
    <3> QED
      BY <2>2, <3>1, WritingKept
  <2> QED
    BY <2>3, <2>4
<1>2. CASE RemoveListed
  BY <1>2, WritingRemove
<1>3. CASE ~ (\E r \in Rid : Innermost(r)) /\ ~RemoveListed
  <2>1. Fixed /\ content' = content /\ out' = out /\ refused' = refused
    BY <1>3 DEF Next, Descend, Break, Return, vars, Fixed
  <2> QED
    BY <2>1, WritingKept
<1> QED
  BY <1>1, <1>2, <1>3

(* At the end the callback has had exactly the rows WHERE accepts. *)
LEMMA AllGiven ==
    ASSUME Inv, Ended, ~Residual PROVE out = Matching
<1>1. stmt.n \in Nat /\ low \in Nat
  BY StatementParts DEF Inv, Loops
<1>2. \A l \in Tab : rest[l] = {}
  BY <1>1 DEF Inv, Loops, Ended, Tab
<1>3. \A m \in Matching : m \in out
  BY <1>2 DEF Inv, NothingLost, Ahead
<1> QED
  BY <1>3 DEF Inv, NothingElse

(* When the loops have ended the statement has had its effect. *)
LEMMA EffectNow ==
    ASSUME Inv, Counts, Writing, ~Residual PROVE Effect
<1> SUFFICES ASSUME Finished PROVE Effect
  BY DEF Effect
<1>1. out = Matching /\ Setting
  BY AllGiven DEF Finished, Inv
<1>2. \A r : Given(r) <=> [u \in Tab |-> r] \in Matching
  BY <1>1 DEF Given
<1>3. ASSUME stmt.kind = "delete"
      PROVE  DOMAIN content[1]
                = {s \in DOMAIN before[1] : [u \in Tab |-> s] \notin Matching}
  <2>1. \A m \in out : m[1] \notin DOMAIN content[1]
    BY <1>3 DEF Finished
  <2>2. \A s : [u \in Tab |-> s][1] = s
    BY <1>1, TablesBefore
  <2> QED
    BY <1>1, <1>2, <1>3, <2>1, <2>2 DEF Writing, Removed
<1> DEFINE Result(t) ==
          IF t # 1 \/ stmt.kind = "select" THEN before[t]
          ELSE IF stmt.kind = "delete"
          THEN [r \in {s \in DOMAIN before[1] : [u \in Tab |-> s] \notin Matching}
                  |-> before[1][r]]
          ELSE [r \in DOMAIN before[1] |->
                  IF [u \in Tab |-> r] \in Matching /\ r \notin refused
                  THEN Patched(before[1][r]) ELSE before[1][r]]
<1>5. \A r : Written(r) = IF [u \in Tab |-> r] \in Matching /\ r \notin refused
                          THEN Patched(before[1][r]) ELSE before[1][r]
  BY <1>2 DEF Written
<1>6. content = [t \in DOMAIN before |-> Result(t)]
  <2>1. CASE stmt.kind = "delete"
    BY <1>3, <2>1 DEF Writing, Changed
  <2>2. CASE stmt.kind # "delete"
    BY <1>5, <2>2 DEF Writing, Changed
  <2> QED
    BY <2>1, <2>2
<1> QED
  BY <1>6 DEF Effect

(* UPDATE, although it writes the table whose rows it walks, changes every *)
(* row its WHERE accepted before the statement, and once, unless the       *)
(* constraints refused it; DELETE removes exactly those rows; SELECT and   *)
(* the other rows leave the tables as they were.                           *)
THEOREM StatementsTakeEffect ==
    ASSUME Computed = FALSE, ~Residual PROVE Spec => []Effect
<1>1. Init => Inv /\ Counts /\ Writing
  <2>1. Init => Counts
    BY DEF Init, Counts
  <2> QED
    BY <2>1, InvInit, WritingInit
<1>2. Inv /\ Counts /\ Writing /\ [Next]_vars => Inv' /\ Counts' /\ Writing'
  BY InvStep, CountsStep, WritingStep
<1>3. Inv /\ Counts /\ Writing => Effect
  BY EffectNow
<1> QED
  BY <1>1, <1>2, <1>3, PTL DEF Spec
-----------------------------------------------------------------------------
(* An aggregate over a column without NULLs is at every moment that of the *)
(* combinations given to the callback so far.                              *)
Plain == stmt.fold # "none" /\ \A m \in Matching : Aggregated(m) # Null

Amounts == [m \in Matching |-> Aggregated(m)]

(* Is v the aggregate of the combinations g? *)
IsTotal(v, g) ==
    /\ g = {} => v = AccStart(stmt.fold)
    /\ stmt.fold = "sum" => \A h \in Sums(Matching, Amounts) : v = h[g]
    /\ stmt.fold = "min" => /\ \A m \in g : v <= Amounts[m]
                            /\ g # {} => \E m \in g : v = Amounts[m]
    /\ stmt.fold = "max" => /\ \A m \in g : v >= Amounts[m]
                            /\ g # {} => \E m \in g : v = Amounts[m]

Folding ==
    Plain => IsTotal(acc, out) /\ (lastNull <=> out = {})

(* There are finitely many combinations of rows. *)
LEMMA MatchingFinite ==
    ASSUME Setting PROVE IsFiniteSet(Matching)
<1>1. IsFiniteSet(Tab) /\ IsFiniteSet(Rid)
  <2>1. stmt.n \in Int /\ MaxRid \in Int
    BY StatementParts, QueryAssumption
  <2> QED
    BY <2>1, FS_Interval DEF Tab, Rid
<1>2. IsFiniteSet(SUBSET (Tab \X Rid))
  BY <1>1, FS_Product, FS_SUBSET
<1> DEFINE Graph == [m \in Tuples |-> {<<t, m[t]>> : t \in Tab}]
<1>3. ASSUME NEW m \in Tuples PROVE Graph[m] \in SUBSET (Tab \X Rid)
  BY DEF Tuples
<1>4. ASSUME NEW m \in Tuples, NEW k \in Tuples, Graph[m] = Graph[k] PROVE m = k
  <2>1. ASSUME NEW t \in Tab PROVE m[t] = k[t]
    <3>1. <<t, m[t]>> \in Graph[k]
      BY <1>4
    <3> QED
      BY <3>1
  <2> QED
    BY <2>1 DEF Tuples
<1>5. Graph \in Injection(Tuples, SUBSET (Tab \X Rid))
  <2> HIDE DEF Graph
  <2>1. Graph \in [Tuples -> SUBSET (Tab \X Rid)]
    BY <1>3 DEF Graph
  <2> QED
    BY <1>4, <2>1 DEF Injection, IsInjective
<1>6. IsFiniteSet(Tuples)
  BY <1>2, <1>5, FS_Injection
<1> QED
  BY <1>6, FS_Subset DEF Matching

(* What is aggregated are words. *)
Word == {v \in Int : IsWord(v)}

LEMMA AmountsAreWords ==
    ASSUME Setting, Plain PROVE Amounts \in [Matching -> Word] /\ Word \subseteq Int
<1>1. stmt \in Statement /\ stmt.tab \in 1 .. N /\ stmt.tab \in Tab /\ stmt.col \in Col
  <2>1. stmt \in Statements /\ stmt \in Statement /\ stmt.tab <= stmt.n
    BY QueryAssumption DEF Setting
  <2>2. stmt.tab \in 1 .. N /\ stmt.col \in Col
    BY <2>1 DEF Statement
  <2> QED
    BY <2>1, <2>2, StatementParts, QueryAssumption DEF Tab
<1>2. ASSUME NEW m \in Matching PROVE Aggregated(m) \in Word
  <2>1. m[stmt.tab] \in DOMAIN before[stmt.tab]
    BY <1>1 DEF Matching
  <2>2. Aggregated(m) \in Int \cup {Null}
    BY <1>1, <2>1, RowsBefore DEF Aggregated
  <2>3. Aggregated(m) # Null => IsWord(Aggregated(m))
    BY <1>1, <2>1, WordAssumption DEF Setting, Aggregated
  <2> QED
    BY <2>2, <2>3 DEF Plain, Word
<1>3. Amounts \in [Matching -> Word]
  BY <1>2 DEF Amounts
<1>4. Word \subseteq Int
  BY DEF Word
<1> QED
  BY <1>3, <1>4

(* The callback folds one more in. *)
LEMMA TotalAdds ==
    ASSUME Setting, Plain, NEW g \in SUBSET Matching, NEW m \in Matching \ g,
           IsTotal(acc, g)
    PROVE  IsTotal(Folded(stmt.fold, Amounts[m]), g \cup {m})
<1>1. /\ Amounts \in [Matching -> Int] /\ Amounts[m] \in Word
      /\ \A k \in g : Amounts[k] \in Int
  BY AmountsAreWords
<1>2. g \cup {m} # {}
  OBVIOUS
<1>3. CASE stmt.fold = "sum"
  <2>1. ASSUME NEW h \in Sums(Matching, Amounts)
        PROVE  acc + Amounts[m] = h[g \cup {m}]
    <3>1. h[g \cup {m}] = h[g] + Amounts[m]
      BY <1>1, MatchingFinite, SumAdds
    <3> QED
      BY <1>3, <3>1 DEF IsTotal
  <2> QED
    BY <1>2, <1>3, <2>1 DEF IsTotal, Folded
<1>4. CASE stmt.fold = "min"
  <2>1. CASE g = {}
    <3>1. acc = 2147483647
      BY <1>4, <2>1 DEF IsTotal, AccStart
    <3>2. Folded("min", Amounts[m]) = Amounts[m]
      BY <1>1, <3>1 DEF Folded, Word, IsWord
    <3> QED
      BY <1>1, <1>4, <2>1, <3>2 DEF IsTotal, Word, IsWord
  <2>2. CASE g # {}
    <3>1. PICK k \in g : acc = Amounts[k] /\ \A j \in g : acc <= Amounts[j]
      BY <1>4, <2>2 DEF IsTotal
    <3>2. PICK v \in Int : v = Folded("min", Amounts[m]) /\ v <= acc /\ v <= Amounts[m]
                           /\ (v = acc \/ v = Amounts[m])
      BY <1>1, <3>1 DEF Folded, Word, IsWord
    <3>3. \A j \in g \cup {m} : v <= Amounts[j]
      BY <1>1, <3>1, <3>2
    <3>4. \E j \in g \cup {m} : v = Amounts[j]
      BY <3>1, <3>2
    <3> QED
      BY <1>2, <1>4, <3>2, <3>3, <3>4 DEF IsTotal
  <2> QED
    BY <2>1, <2>2
<1>5. CASE stmt.fold = "max"
  <2>1. CASE g = {}
    <3>1. acc = -2147483647 - 1
      BY <1>5, <2>1 DEF IsTotal, AccStart
    <3>2. Folded("max", Amounts[m]) = Amounts[m]
      BY <1>1, <3>1 DEF Folded, Word, IsWord
    <3> QED
      BY <1>1, <1>5, <2>1, <3>2 DEF IsTotal, Word, IsWord
  <2>2. CASE g # {}
    <3>1. PICK k \in g : acc = Amounts[k] /\ \A j \in g : acc >= Amounts[j]
      BY <1>5, <2>2 DEF IsTotal
    <3>2. PICK v \in Int : v = Folded("max", Amounts[m]) /\ v >= acc /\ v >= Amounts[m]
                           /\ (v = acc \/ v = Amounts[m])
      BY <1>1, <3>1 DEF Folded, Word, IsWord
    <3>3. \A j \in g \cup {m} : v >= Amounts[j]
      BY <1>1, <3>1, <3>2
    <3>4. \E j \in g \cup {m} : v = Amounts[j]
      BY <3>1, <3>2
    <3> QED
      BY <1>2, <1>5, <3>2, <3>3, <3>4 DEF IsTotal
  <2> QED
    BY <2>1, <2>2
<1>6. stmt.fold \in {"none", "sum", "min", "max"}
  BY QueryAssumption DEF Setting, Statement
<1> QED
  BY <1>3, <1>4, <1>5, <1>6 DEF Plain

(* Before the loops run there is nothing to aggregate. *)
LEMMA FoldingInit ==
    ASSUME Init PROVE Folding
<1>1. out = {} /\ acc = AccStart(stmt.fold) /\ lastNull = TRUE
  BY DEF Init
<1>2. stmt.fold = "sum" => \A h \in Sums(Matching, Amounts) : acc = h[{}]
  <2>1. \A h \in Sums(Matching, Amounts) : h[{}] = 0
    BY DEF Sums, AddsUp
  <2> QED
    BY <1>1, <2>1 DEF AccStart
<1> QED
  BY <1>1, <1>2 DEF Folding, IsTotal

(* A step that gives nothing to the callback changes no aggregate. *)
LEMMA FoldingKept ==
    ASSUME Inv, Folding, Fixed, UNCHANGED <<out, acc, lastNull>>
    PROVE  Folding'
<1>1. Matching' = Matching /\ stmt' = stmt /\ before' = before
  BY FixedParts DEF Fixed
<1>2. Amounts' = Amounts /\ Plain' = Plain
  BY <1>1 DEF Amounts, Plain, Aggregated
<1> QED
  BY <1>1, <1>2 DEF Folding, IsTotal

(* The callback of a SELECT folds the value of the row it gets. *)
LEMMA FoldingSelected ==
    ASSUME Inv, Folding, Computed = FALSE, ~Residual,
           NEW r \in Rid, Innermost(r), Passes(Cached(r))
    PROVE  Folding'
<1> DEFINE m == Cached(r)
<1>1. /\ Fixed /\ NextRow(r) /\ low = 1 /\ GoesOn(r) /\ low <= stmt.n
      /\ at' = m /\ out' = out \cup {m} /\ stmt' = stmt /\ before' = before
  BY DEF Innermost, NextRow, Fixed
<1>2. m \in Matching /\ m \notin out /\ Setting /\ out \subseteq Matching
  BY <1>1, OnlyMatching, NotGivenBefore DEF Inv, NothingElse
<1>3. Matching' = Matching /\ Amounts' = Amounts /\ Plain' = Plain
  <2>1. Matching' = Matching
    BY <1>1, FixedParts
  <2> QED
    BY <1>1, <2>1 DEF Amounts, Plain, Aggregated
<1>4. SUFFICES ASSUME Plain
               PROVE  IsTotal(acc, out)' /\ (lastNull <=> out = {})'
  BY <1>3 DEF Folding
<1>5. stmt.kind = "select" /\ stmt.fold # "none"
  BY <1>4, QueryAssumption DEF Plain, Inv, Setting
<1>6. content = before
  BY <1>1, <1>5 DEF Inv, Unchanged
<1>7. Selected(m)
  BY <1>1, <1>5 DEF Innermost
<1>8. Amounts[m] = Aggregated(m) /\ Aggregated(m) # Null
      /\ Aggregated(m) = content[stmt.tab][m[stmt.tab]][stmt.col]
  BY <1>2, <1>4, <1>6 DEF Amounts, Plain, Aggregated
<1>9. acc' = Folded(stmt.fold, Amounts[m]) /\ lastNull' = FALSE
  <2> HIDE DEF m
  <2> QED
    BY <1>5, <1>7, <1>8 DEF Selected
<1>10. IsTotal(Folded(stmt.fold, Amounts[m]), out \cup {m})
  BY <1>2, <1>4, TotalAdds DEF Folding
<1>11. IsTotal(acc', out')
  BY <1>1, <1>9, <1>10
<1>12. IsTotal(acc, out)'
  BY <1>1, <1>3, <1>11 DEF IsTotal
<1>13. (lastNull <=> out = {})'
  BY <1>1, <1>9
<1> QED
  BY <1>12, <1>13

(* Every step keeps the aggregate in line with the callbacks. *)
LEMMA FoldingStep ==
    ASSUME Inv, Folding, Computed = FALSE, ~Residual, [Next]_vars
    PROVE  Folding'
<1>1. CASE \E r \in Rid : Innermost(r)
  <2>1. PICK r \in Rid : Innermost(r)
    BY <1>1
  <2>2. CASE Passes(Cached(r))
    BY <2>1, <2>2, FoldingSelected
  <2>3. CASE ~Passes(Cached(r))
    <3>1. Fixed /\ UNCHANGED <<out, acc, lastNull>>
      BY <2>1, <2>3 DEF Innermost, Fixed
    <3> QED
      BY <3>1, FoldingKept
  <2> QED
    BY <2>2, <2>3
<1>2. CASE ~ \E r \in Rid : Innermost(r)
  <2>1. Fixed /\ UNCHANGED <<out, acc, lastNull>>
    BY <1>2 DEF Next, Descend, Break, Return, RemoveListed, vars, Fixed
  <2> QED
    BY <2>1, FoldingKept
<1> QED
  BY <1>1, <1>2

(* The sum of the combinations is the sum however they are chosen. *)
LEMMA SumIsTotal ==
    ASSUME Setting, Plain
    PROVE  \E h \in Sums(Matching, Amounts) :
              MapThenSumSet(Aggregated, Matching) = h[Matching]
<1> DEFINE Adds(f) ==
              f = [s \in SUBSET Matching |->
                      IF s = {} THEN 0
                      ELSE Aggregated(CHOOSE x \in s : TRUE)
                              + f[s \ {CHOOSE x \in s : TRUE}]]
           iter == CHOOSE f : Adds(f)
<1>1. Amounts \in [Matching -> Int]
  BY AmountsAreWords
<1>2. PICK h \in Sums(Matching, Amounts) : TRUE
  BY <1>1, MatchingFinite, SumsExist
<1>3. ASSUME NEW s \in SUBSET Matching, s # {}
      PROVE  Amounts[Chosen(s)] = Aggregated(CHOOSE x \in s : TRUE)
  BY <1>3 DEF Amounts, Chosen
<1>4. Adds(h)
  <2>1. h = [s \in SUBSET Matching |-> h[s]]
    BY <1>2 DEF Sums, AddsUp
  <2>2. \A s \in SUBSET Matching :
           h[s] = IF s = {} THEN 0
                  ELSE Aggregated(CHOOSE x \in s : TRUE)
                          + h[s \ {CHOOSE x \in s : TRUE}]
    BY <1>2, <1>3 DEF Sums, AddsUp, Chosen
  <2> QED
    BY <2>1, <2>2
<1>5. Adds(iter)
  <2> HIDE DEF Adds
  <2> QED
    BY <1>4
<1>6. MapThenSumSet(Aggregated, Matching) = iter[Matching]
  BY DEF MapThenSumSet, MapThenFoldSet
<1>7. iter[Matching] = h[Matching]
  <2> HIDE DEF iter
  <2>1. AddsUp(Matching, Amounts, iter)
    <3>1. \A s \in SUBSET Matching :
             iter[s] = IF s = {} THEN 0
                       ELSE Aggregated(CHOOSE x \in s : TRUE)
                               + iter[s \ {CHOOSE x \in s : TRUE}]
      BY <1>5
    <3> QED
      BY <1>3, <3>1 DEF AddsUp, Chosen
  <2>2. AddsUp(Matching, Amounts, h)
    BY <1>2 DEF Sums
  <2>3. IsFiniteSet(Matching) /\ Matching \in SUBSET Matching
    BY MatchingFinite
  <2>4. \A s \in SUBSET Matching : iter[s] = h[s]
    BY <2>1, <2>2, <2>3, SumsUnique
  <2> QED
    BY <2>3, <2>4
<1> QED
  BY <1>2, <1>6, <1>7

(* When the loops have ended the aggregate is that of all WHERE accepts.   *)
LEMMA AggregateNow ==
    ASSUME Inv, Folding, ~Residual PROVE AggregateExact
<1> SUFFICES ASSUME Ended, Plain
             PROVE  /\ lastNull <=> Matching = {}
                    /\ Matching # {} =>
                          LET vs == {Aggregated(m) : m \in Matching} IN
                          CASE stmt.fold = "sum" -> acc = MapThenSumSet(Aggregated, Matching)
                            [] stmt.fold = "min" -> acc \in vs /\ \A v \in vs : acc <= v
                            [] stmt.fold = "max" -> acc \in vs /\ \A v \in vs : acc >= v
  BY DEF AggregateExact, Plain
<1>1. out = Matching /\ Setting
  BY AllGiven DEF Inv
<1>2. IsTotal(acc, Matching) /\ (lastNull <=> Matching = {})
  BY <1>1 DEF Folding
<1>3. \A m \in Matching : Amounts[m] = Aggregated(m)
  BY DEF Amounts
<1> DEFINE vs == {Aggregated(m) : m \in Matching}
<1>4. stmt.fold = "sum" => acc = MapThenSumSet(Aggregated, Matching)
  BY <1>1, <1>2, SumIsTotal DEF IsTotal
<1>5. stmt.fold = "min" /\ Matching # {} => acc \in vs /\ \A v \in vs : acc <= v
  BY <1>2, <1>3 DEF IsTotal
<1>6. stmt.fold = "max" /\ Matching # {} => acc \in vs /\ \A v \in vs : acc >= v
  BY <1>2, <1>3 DEF IsTotal
<1>7. stmt.fold \in {"sum", "min", "max"}
  BY <1>1, QueryAssumption DEF Setting, Statement, Plain
<1> QED
  BY <1>2, <1>4, <1>5, <1>6, <1>7

(* An aggregate of a SELECT over a column without NULLs is that of the     *)
(* rows WHERE accepts, whatever order the loops come to them in; it is     *)
(* NULL where there are none.                                              *)
THEOREM AggregatesAreExact ==
    ASSUME Computed = FALSE, ~Residual PROVE Spec => []AggregateExact
<1>1. Init => Inv /\ Folding
  BY InvInit, FoldingInit
<1>2. Inv /\ Folding /\ [Next]_vars => Inv' /\ Folding'
  BY InvStep, FoldingStep
<1>3. Inv /\ Folding => AggregateExact
  BY AggregateNow
<1> QED
  BY <1>1, <1>2, <1>3, PTL DEF Spec
=============================================================================
