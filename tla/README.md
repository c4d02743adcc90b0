# TrivialDB in TLA+

TrivialDB is a single-process SQL engine of about 6400 lines of C++: a paged
file system with a write-back cache, B+ trees over it, tables with one B+ tree
of rows and one per index, a catalog, and a query processor under a parser.
This directory models it from the bottom up, checks the models with TLC and
proves the central invariants with TLAPS. Paths below are relative to the
root of the repository.

## 1. The system

The program executes one statement at a time on one thread. What makes it hard
is not parallelism but distance: a statement is a long chain of calls that hold
raw pointers into a shared cache, update several trees one after the other and
leave state behind (clean frames, scratch buffers, file ids, free lists) that a
later call trusts. `CMakeLists.txt` builds Release, which defines `NDEBUG`: an
`assert` documents an expectation and stops nothing.

| component | source | state | operations | correct when |
|---|---|---|---|---|
| recency order | `fs/cache_manager.h` | ring of `prev`/`next`, `head` | `access`, `last` | the ring always holds every frame; `last()` is the least recently used |
| paged file system | `fs/page_fs.*`, `fs/fid_manager.h`, `fs/page_file.h` | file ids, headers, two page maps, dirty bits, frames, files on disk | `open`, `close`, `read`, `read_for_write`, `mark_dirty`, `allocate`, `deallocate`, `flush` | callers see a store with no cache; the free list is exact; a pointer stays good for a known time |
| page layouts | `page/*` | slots, blocks, free blocks and sibling links of a page, bytes left | `insert`, `erase`, `split`, `merge`, `move_from`, `defragment` | nothing in a page overlaps, `free_size` is exact, an item keeps its length and place |
| B+ tree | `btree/btree.*`, `algo/search.h` | root, pages | `insert`, `erase`, `lower_bound` | it is an ordered set and leaks no page |
| B-tree iterator | `btree/iterator.h` | page, position | `next` | it visits the keys of the tree in order |
| records, overflow chains | `table/record.*`, `page/overflow_page.h` | position in a row's chain of pages | `seek`, `read`, `write` | a row reads back as it was written; each overflow page has one owner |
| index manager | `index/*` | one B+ tree of (null mark, value, row id) | `insert`, `erase`, `lower_bound` | NULL sorts before every value, equal values by row id |
| table manager | `table/table.*`, `table/table_header.*` | header, rows, indices, scratch buffers | `insert_record`, `remove_record`, `modify_record`, `create_index`, checks | every index agrees with the rows; no accepted row breaks a constraint |
| catalog | `database/database.*` | tables of a database, `.database`/`.thead`/`.tdata` files | `create`, `open`, `close`, `drop`, `create_table`, `drop_table` | what was closed is found again when opened; the death of the process harms only what was being worked on |
| query processing | `database/dbms.*` | current database, expression cache | `select_rows`, `update_rows`, `delete_rows`, joins | every path answers as the plain scan does |
| expressions | `expression/*` | the cache of columns, the text of a CHECK | `eval`, `cache_*`, dump and load | a column is the one of the current row; WHERE takes no row it should refuse; a stored CHECK means what was written |
| conversions, comparers | `utils/*` | none | comparisons, casts | they order and convert as the query expects |
| SQL front end | `parser/*`, `main.cpp` | syntax tree | one dispatch per statement | not modelled |

How they interact. The query processor calls the table manager row by row; the
table manager writes the row's tree, then one index tree per indexed column;
a tree reads pages through `pager`, which is `page_file` over the one `page_fs`
of the process; `page_fs::read` may evict any page of any file to make room.
Everything a caller gets back is a raw pointer into a frame or a page number,
and neither is pinned. The hard behaviours follow from that:

* *stale state*: a pointer whose frame was reused, a frame whose file is
  closed, a separator key whose child lent its largest key, a scratch buffer
  (`tmp_record`) that holds another row's bytes;
* *order*: the ring is rewritten in five dependent assignments, a split
  rewrites four links in three pages, an index is updated after its row;
* *limits*: file ids, frames, page capacities in integer halves, blocks of
  nearly a quarter page;
* *partial failure*: a merge or split that refuses and is not asked, `fopen`
  that fails after the file id was taken;
* *restart*: headers and root pages reach the disk only at `close`, one file
  after the other;
* *representation*: a row is bytes and a null mark, a condition is a tree and a
  line of text, a column is a name in a cache all tables share.

`PROJECT.json` lists each with its line under "hazards".

## 2. The modules

| module | models | state, actions and the code |
|---|---|---|
| `LruRing` | `cache_manager` as written | `prev`, `next`, `head`; `Access` is `access()`, with the five assignments in order |
| `LruOrder` | what `cache_manager` promises | `age[i]`: how many frames were used after frame i |
| `PageFs` | `page_fs`, `fid_manager`, `page_file`, several files over one cache | `page2index`, `index2page`, `dirty`, `buffer`, `fileInfo`, `freeFids`, `used` are the code's members; `disk` the files; `live` and `ptr` the callers. One action per public operation; `Access` is `read()` with eviction and load inside |
| `PageStore` | what `page_fs` promises | pages by file, no cache, no process |
| `VariantPage` | `variant_page.cpp`, the bytes inside the pages of a data tree, in a chain of pages | `page`: per page its slots (each with the place and size of its block), the list of free blocks, `free_size`, `bottom`, links; `ov` the overflow pages. One action per function: `Insert` with the overflow chain it allocates, a fit in the free list or `Defragment`, `Erase`, `Split`, `Merge`, `TakeNext`/`TakePrev` over `move_from` |
| `ItemLists` | what a chain of variant pages promises | a sequence of lists of lengths |
| `LruRingProofs` | theorems about `LruRing` | |
| `PageFsProofs` | theorems about `PageFs` | |
| `VariantPageProofs` | theorems about `VariantPage` | |
| `BTree` | `btree.cpp` over the page layouts | `pages`, `root`; the recursion is a stack of (page, position) frames: `Descend` goes down one page, `InsertLeaf`/`EraseLeaf`/`FindLeaf` are the handlers of a leaf, `InsertPost`/`EraseInterior` what an interior page does when its child's call returned, `InsertDone`/`EraseDone` the root |
| `OrderedSet` | what a B+ tree promises | the set of keys and the last answer |
| `Table` | `table_manager` over its `index_manager`s, with the loops of the dbms that call it | `rows` is the data tree, `index` the index trees with the number of copies of each entry, `indexed` and `autoInc` members of the header, `tmpWord` the scratch word of `tmp_record` that outlives a call. `InsertRecord`, `RemoveRecord`, `ModifyRecord`, `CreateIndex` are the functions of those names, every tree they touch included; `InsertAborted` an INSERT that stops at a wrong type, `Reopen` close and open |
| `ConstrainedRows` | what tables promise to statements | rows by identity, and the last request with its outcome |
| `TableProofs` | theorems about `Table` | |
| `Query` | `iterate` of the `dbms`, the loops under it and the callbacks of SELECT, UPDATE and DELETE | `plan` is the iteration order, the path length and the index conditions `iterate_many_tables` and `iterate_one_table_with_index` compute; the recursion of `iterate_many_tables_impl` is `low`, the level of the loop that runs; `rest` is what each loop's cursor has still to come to, `at` the cache of columns. `Descend` is the call for the next table, `Innermost` the test of WHERE and the callback, `Break` an index loop that breaks off, `Return` the end of a loop, `RemoveListed` the removals after a DELETE's iteration |
| `RowsOnce` | what `iterate` promises | the combinations of rows wanted and given, calls of the callback |
| `ColumnCache` | the cache of columns in `expression.cpp`, `cache_record` and `modify_record` of `table.cpp` as far as they touch it, `type_cast.h` | `cache` is `__expr_column_cache`, `buf` each table's `tmp_cache`. `CacheRecord` is `cache_record()`, `ModifyCached` the callback of UPDATE up to the constraints, `EndStatement` the guard that clears the cache; `Found` is the search of `eval_terminal_column_ref()` |
| `Expr` | the rest of `expression.cpp`, `serialization.cpp`; it extends `ColumnCache` | `text` and `check` are a CHECK in the header and in the open table. `Eval` is `eval()` with its throws as values; `Update` is `ModifyCached` with what an expression evaluates to, `CreateTable`/`OpenTable` the dump and the load |
| `ColumnCacheProofs` | theorems about `ColumnCache` | |
| `Catalog` | `database.cpp`, the statements of `dbms.cpp` on databases and tables, `open`/`create`/`drop`/`close` of `table_manager` | `list`, `head`, `data` are the `.database`, `.thead`, `.tdata` files, `held` what a table's two files say together; `cur` is `cur_db`, `db` the second object of SHOW and DROP DATABASE; `todo` the file operations the statement has still to do, so that `Crash` may come between any two |
| `Databases` | what the catalog promises to statements | a function from databases to tables to contents; statements are atomic |
| `QueryProofs` | theorems about `Query` | |
| `CatalogProofs` | theorems about `Catalog` | |
| `Induction` | lemmas: a set of naturals has a least element, a function may be defined by iteration, a finite set has a sum | |

`MCPageFs`, `MCVariantPage`, `MCBTree`, `MCTable`, `MCQuery`, `MCExpr` and `MCCatalog`
give constants, declarations and scripted prefixes for TLC.

`PageFs` composes with `LruOrder` (it extends it; `LruRing` is shown to
implement it), and implements `PageStore` under a refinement mapping that looks
through the cache while a file is open and at the disk when it is closed.
`BTree` stands on `PageStore`'s promise - its pages are plain variables - and
implements `OrderedSet`. `VariantPage` is what is inside a page of a data tree; it
implements `ItemLists`, and `BTree` takes its pages to be such lists.
`Table` stands on `OrderedSet`'s promise: its trees are functions, and
`lower_bound` and iteration are the order of their keys. Several tables are one
instance of it, because a foreign key reads another table's rows and index. It
implements `ConstrainedRows` under the mapping that shows a row as statements see
it: NULL where the null mark is set, the bytes elsewhere.
`Query` stands on the promises of both: a table is a function from its row ids,
an index its rows by value and row id. It implements `RowsOnce`.
`Expr` says what the conditions of `Query` and the CHECKs of `Table` mean beyond
integers. `Catalog` is above all of them: a table is a content there, and it
implements `Databases`.

Abstractions, and why they lose nothing the properties tell apart:

* A page of `PageFs` is two words, the magic and the word `deallocate` links
  free pages with; anything else a caller stores is one of a few magics.
* A raw pointer is a page, a frame and the number of other pages accessed since.
  The callers in `btree.cpp` and `record.cpp` hold one across a few accesses and
  never across `Capacity` = 8192 of them; `PtrInWindow` says exactly which
  pointers are safe.
* A file read past its end leaves the frame as it was, as `fread` does.
* A page of `BTree` is a list of items with the code's size arithmetic. Rows in a
  data tree have one size (`Block`); their layout in the page is `VariantPage`'s,
  with the bytes of an item abstracted to their number. Lengths there are small
  enough to enumerate, and `PageSize` is a constant.
* A column of `Table` is an integer; a row is its bytes and its null mark, kept
  apart because the code keeps them apart: the bytes under a NULL are what was
  there before, and the UNIQUE, PRIMARY KEY and FOREIGN KEY checks read them.
* A CHECK is the set of rows it refuses (`fails`), evaluated on the row as the
  expression cache has it; how an expression evaluates is in `Expr`.
* A check that follows an index entry to no row reads through an unset pointer:
  any answer (`UniqueAnswers`, `ForeignAnswers`). `IndexExact` says when that
  cannot happen.
* Columns of `Query` are integers, so no condition throws for its types, and WHERE
  is conditions joined by AND. The longest path of `find_longest_path` is the first
  in the order the search tries them. The value of an aggregate over a NULL, which
  `eval` leaves unset, is any value; which rows of an UPDATE the constraints refuse
  is left open, since `Table` decides it.
* A string of `Expr` is a name; constants say what it is in lower case, which
  words it is made of, which date it is and which patterns it matches. Integers are
  not bounded there, so the smallest int divided by -1 is not shown. Floats are whole
  numbers, one zero, and the infinities and NaN a division by it gives; any other
  quotient is a value nobody can tell. A process that ends (a null pointer, an int
  divided by 0) and a value nobody can tell are results of `Eval`. The text of a
  CHECK has six digits of a float, as the stream that writes it has (`SixDigits`).
* The content of a table in `Catalog` is one value: `Junk` while the header and the
  pages on disk are of different ages. The death of the process loses memory and no
  write that was done. `open()` of a list that is missing or was cut off takes what the
  memory held before for a list: a database of any name and any tables (`Read`).
* A page freed by `erase_try_merge` is read once more by `erase`
  (`btree.cpp:322`); what it shows there is any junk key (`FreedLast`).

## 3. The runs

All runs are small enough for a laptop. `CHECK_DEADLOCK FALSE` is set where
behaviours end: every bound on pages or keys may be used up.

| run | instance | what it shows |
|---|---|---|
| `lru_ring` | 5 frames | head, tail, neighbour and middle of the ring are all different frames, so every overlap of the five assignments of `access()` happens |
| `pagefs_files` | 2 files over 2 frames, one of two pages and one that stops at its second (`ThreePages`), no file opened after a close | accesses to one file evict the other's pages: the maps stay inverse, a pointer is good as long as callers hold it, a dirty frame can always be written, and `Structure`, the invariant the proofs show inductive, holds |
| `pagefs_restart` | 1 file, 3 pages, 1 frame, flush, remove, restart | the refinement of `PageStore`, the exact free list, and clean frames equal to the disk |
| `variant_pages` | pages of 102 bytes, blocks of 9, 12 and 18 bytes, rows with and without overflow chains, 2 pages | nothing overlaps in a page after any inserts, erases, packing, splits, merges and moves; the chain of pages is the list of items it should be; an overflow page has one owner |
| `btree_three` | index tree, 6 items a page, 22 keys, a scripted prefix then every call on 7 keys | three levels, so interior pages split, lend and merge too; the tree is an ordered set until a loan from the left |
| `btree_rows` | data tree, 1017-byte blocks, 9 rows | splits, loans, merges and root changes of pages that split by bytes keep the shape, after loans too |
| `btree_borrow` | 4 items a page, 5 keys | *violation*: a key that moved right is no longer found |
| `table_unique` | 1 table, a UNIQUE and a plain column, 3 row ids, NULLs, CREATE INDEX on the empty table, reopening | rows and indices in step; a row is accepted exactly when UNIQUE allows it |
| `table_keys` | 2 tables: 1 row with a key of one column, DEFAULT and CHECK; 3 rows with a key of two columns, one a foreign key | the same for keys, foreign keys and CHECK, with deletes of the referred row |
| `query_all` | 1 to 3 tables of up to 3 rows, 2 columns, every choice of indices; every single condition and pair of conditions on one table, joins in pairs, chains, stars and cycles | each combination of rows WHERE accepts reaches the callback once, and the statement ends; UPDATE and DELETE change those rows and no others; aggregates are exact without NULLs |
| `expr_all` | 2 tables with a column name in common, NULLs, some 200 conditions: every form of comparison, divisions, AND and OR of pairs | columns are the ones of the current rows; a condition whose operands fit stops a statement exactly where it divides an int by 0; WHERE takes only rows of which it is true; a stored CHECK evaluates as the one that was written |
| `catalog_all` | 2 databases, of 2 tables and of 1, the process dying once between any two file operations | objects stay well formed, what was closed is whole on disk, dropped tables leave no file, statements on one database do not show in another |

Properties with a name of their own that gather several are conjunctions, the type
invariant of the module among them: `RingWhole`, `Layout`, `Shape` (of `BTree`),
`LoopsSound` (of `Query`), `CacheExact`, `ObjectsSound`, `Structure`. A counterexample
to one shows which part failed.

Why the bounds are enough. The page file system treats pages, frames and ids
uniformly; what matters is that there are fewer frames than pages (eviction),
more files than frames, and a free list of more than one page. In the tree,
capacity is what decides: four items is the least the code supports
(`PAGE_BLOCK_MIN_NUM`), where halves and thirds round the most, and six is the
least for which an interior page survives losing a child without underflow, so
merges on two levels in one call occur. Three levels are the least with cousins.
For tables, three rows make a value be inserted, updated away, and inserted again
between two others, and the walk over a key pass a row before it meets the double; two values and NULL are all a comparison can tell apart, and
0 is kept out of `Stored` in the passing runs because the bytes under a NULL are 0.
For queries, three tables are the least with a loop that is neither innermost nor
outermost, with a path shorter than the list of tables, and with a cycle of
conditions; the contents have equal values on both sides of the smallest, NULLs,
gaps between row ids and an empty table.
In a variant page of 82 usable bytes, four to seven blocks are the code's minimum
and beyond, so free lists of several blocks, refusals with enough bytes in pieces,
and `defragment` all happen; two pages are what a split, a merge or a loan involve.
Conditions of `Expr` need two tables (a column with and without its table's name,
found once, twice or not at all) and pairs of parts; a part is each comparison with
operands true, false, unknown or of another type. For the catalog, two databases are
what SHOW and DROP of the one not in use need, and two tables of one database make
arrays that close up.

Where a defect would end every longer behaviour, the run is cut there and says
so: `AfterBorrow = FALSE` stops calling a tree once a page borrowed from its
left sibling, and `Reopen = FALSE` opens no file after one was closed;
`Residual = FALSE` and `Computed = FALSE` leave out the statements on one table
whose WHERE says more than the condition an index serves, or whose condition
compares with an expression; `Overwrite = FALSE` creates no database over one that
exists and `StaleShow = FALSE` shows none in use whose list on disk is older than a
DROP TABLE, `Unread = FALSE` opens no list that is missing or was cut off by the death
of the process, and each name of a table belongs to one database (`Home`);
`Unstorable = FALSE` stores only CHECKs the header text can hold, `Stray = FALSE`
reads no column of a table that has none of the name, and in `Expr` as in `Table`
`NullUpdates = FALSE` turns no NULL into a value. The tree of
`btree_three` is called no more once a page drops a slot it does not have, and the rows of
`btree_rows` are 1017 bytes long, not 1018 or 1019, which `split()` cannot divide. The
violating run is `BTree` with `AfterBorrow = TRUE`; section 5 names what each of the other
cuts hides.

Fairness. `Query` assumes `WF_vars(Next)`: a statement runs on the one thread until
it ends, so a loop that can take its next step takes it. With that `query_all` shows
that every statement ends, UPDATE over the table it writes included. The other
modules assume none and claim no liveness: their steps are the handlers of one
call in sequence or the calls a client may or may not make. That a call
returns shows in `BTree` as the absence of any step that could repeat: `Descend`
shortens the path to a leaf and every other handler shortens the stack.

## 4. What is proved

The theorems hold for all values of the constants that the modules' assumptions allow;
where one needs more, the theorem says so and this section says why.

*Recursion and induction.* No installed prover can use a recursive definition or an
induction theorem that takes an operator. `Induction` states both as facts about sets
and functions: `LeastNat` and `AllNat` follow from the well-foundedness of the sets 0 .. n
under inclusion, which the library states without an operator, and `RecursionExists` says
that the function a recursive definition chooses exists. `SumsExist`, `SumAdds` and
`SumsUnique` say so of the sum over a finite set, whose elements are chosen one by one. What a walk computes (`Walk` of
`LruRing`, `FreeChain` of `PageFs`, `FlattenSeq` in the plans of `Catalog`) is proved with
them. RECURSIVE operators stay out of reach.

`LruRingProofs` proves for every number of frames:

* `RingStaysWhole` (`Spec => []RingWhole`): after any accesses the walk from the head
  comes to every frame once, and `prev` is the inverse of `next`;
* `LastIsLeastRecent` (`Spec => []LastIsVictim`);
* `OrderImplemented` (`Spec => ImplementsLruOrder`): what is proved of `PageFs`, which
  is built on the order, holds with the ring in its place.

The invariant `SomeRing` says that each frame has a distance from the head, a permutation
of 0 .. Capacity - 1 in which `next` leads one further. With it no walk has to be taken
to see what `access()` does: the frame gets distance 0, the nearer ones move one away, and
`Relinked` shows that the five assignments do that, also where two of the frames they
touch are the same.

`PageFsProofs` proves for every `Capacity`, `MaxFid`, `MaxPage`, set of files and
set of values, and whether or not files are reopened, restarted or flushed:

* `StructureInvariant`: `Spec => []Structure`;
* `TypeCorrect`, `MapsStayInverse`, `PointerIsStable`: the three properties of the
  runs that follow from it.

`Structure` is the inductive strengthening. `MapsInverse` alone is not inductive:
`Miss` reuses the frame `Victim` chooses, which must exist and be unique, so the
ages must be a permutation (`AgePerm`); evicting a dirty frame writes through its
file, which needs dirty frames to belong to open files (`DirtyOpen`), which needs
file ids to be handed out once (`FidStack`) and files to be open once
(`OpenFiles`); and a pointer survives because its frame's age is at most the
number of other pages accessed since (`PtrAge`), so it is not the victim while
that number is below `Capacity`. The proof has one lemma per kind of step: the
two cases of `Access`, `Writeback`, and the actions built from them. It rests
only on the constants' assumptions stated in the modules (`CapacityAssumption`,
`PageFsAssumption`, `AbsentAssumption`).

Its second part builds on `Structure` and assumes `Reopen = FALSE` (section 5 shows
what breaks without it):

* `CleanPagesOnDisk` (`Spec => []CleanIsOnDisk`): a clean cached page of an open file
  is the page on disk, so evicting it without a write loses nothing;
* `DirtyPagesWritable` (`Spec => []DirtyWritable`): every dirty page belongs to an open
  file and is one its header counts.

`Coherence` is the strengthening: an open file has on disk exactly the pages its
header counts and a closed one those its stored header counts (`DisksFit`,
`ClosedFit`), every cached page is among them (`FramesFit`), links and owned pages
stay below that count (`OpenFit`), and nothing of a file that is not open is cached
before the first `close()` (`CachedOpen`, the one part that needs the assumption).
`allocate` shows why the counts are needed: a page it appends must not be in a frame
already, and a link it follows must lead into the file.

Its third part builds on both and proves, again for `Reopen = FALSE`, the refinement the
run `pagefs_restart` checks on a small instance:

* `StoreImplemented` (`Spec => ImplementsPageStore`): under the mapping that takes a file
  to what its owned pages show (the frame if the page is cached, the disk if not),
  every step is a step of `PageStore` or changes nothing in it. Eviction, write-back,
  `flush`, `close`, a failed `open` and a new process are stutters; `allocate` is
  `Allocate`, which requires that nobody owns the page.

* `FreeListStaysExact` (`Spec => []FreeListExact`): the free list of an open file ends,
  and lists each page nobody owns, once.

The invariant is `Sound`: `Structure`, `Coherence`, `PtrLive` (a caller keeps pointers
only to pages it owns) and `FreeSound`: there is an order of the pages nobody owns that
starts at the header's first free page and in which each links to the next and the last
to none. That is what `allocate` needs to hand out a page without an owner: it takes the
last element of that order away, and `deallocate` puts one on; whatever is evicted or
written back leaves it as it is, because links are read through the cache
(`Seen`). `FreeListExact` is stated by the walk `FreeChain`; `Sound` names the order the
walk finds.

`TableProofs` proves, for any tables, columns, declarations and values:

* `IndicesExact`: every index has exactly one entry per row, under the value the
  row shows;
* `ErasesFindEntries`: `index_manager::erase` always finds its entry;
* `TypeCorrect`;
* `RowsImplemented` (`Spec => ImplementsRows`): every step is a step of `ConstrainedRows`
  or shows nothing.

All assume `NullUpdates = FALSE` and `LateIndex = FALSE`, the two uses
section 5 shows to break them, and the first three otherwise only `TableAssumption`.
`RowsImplemented` also assumes `KeysApart` of the declarations: a column of a UNIQUE
or FOREIGN KEY is NOT NULL or has under its NULLs bytes that are no value stored (section 5: UNIQUE
takes a NULL for the bytes under it), and a foreign key refers to a column that has an
index from the beginning, a key. The declarations of both runs meet it.
`IndexExact` is not inductive: an insert adds the one entry the row needs only if
the new row id was never used (`Fresh`: ids in use are below `auto_inc`), and a new
index starts right only if the tree it opens is empty (`Unindexed`). With those,
`Inv` is inductive. The proof reduces each action to one index tree and one tree of
rows (`CountsInsert`, `CountsRemove`, `CountsModify`, `CountsOther`) and puts the
tables together again once (`InvOneTable`). The case that matters is
`InvModifyRecord`: the entry erased is the row's own exactly because `tmp_record`
was filled in the same call, which is where an UPDATE to NULL differs.

For the refinement `RowInv` adds that every row stored passed the checks of its bytes
(`RowsHeld`) and that a column declared as key keeps its index (`KeysIndexed`). What
`check_unique` and the foreign key check answer is the heart of it: they look up the first
entry from a value on, and may find the row's own or one of another value.
`UniqueByBytes` shows, by the least entry (`LeastEntry`, from `LeastNat`), that the answer is
whether another row has those bytes; `KeysApart` turns bytes into values.

`QueryProofs` proves, for any number of tables, contents, indices and statements:

* `NoRowLost` (`Spec => []NothingLost`): a combination of rows that WHERE accepts
  has been given to the callback or is still ahead of the loops, and never both;
* `EveryRowOnce`: the safety part of `RowsOnce` - one call for each combination
  WHERE accepts, none for another, and all before the end;
* `LoopsStaySound` (`Spec => []LoopsSound`): the loops run over an order of the tables,
  and a loop over an index has the key of the row the loop outside is at;
* `StatementsTakeEffect` (`Spec => []Effect`): when a DELETE has ended, exactly the rows WHERE
  accepted when it began are gone; when an UPDATE has, each of them has been written once,
  or is as it was if the constraints refused it, and no other row has changed;
* `AggregatesAreExact` (`Spec => []AggregateExact`): SUM, MIN and MAX over a column without
  NULLs are those of the rows WHERE accepts.

All assume `Computed = FALSE`, all but `NoRowLost` and `LoopsStaySound` also
`Residual = FALSE`; section 5 shows why. The strengthening `Inv` says what the planner leaves the loops (`Usable`: the
index condition of a loop compares its own table with the table of the loop
outside), that rows still to come are as they were (`Unchanged`: it is why an UPDATE
may write the table it walks), that no entry ahead is below the key (`NotBelow`), and
that the rows the outer loops are at are no longer ahead of them (in `Loops`).
Without `NotBelow` the interesting case fails: `NoneLeft` shows that when a loop
breaks off, the entry of any combination still ahead would equal the key, be greater
than the row that stopped the loop and yet not greater than it. `EntriesComplete` is
the other half: a loop that starts misses no row of the combinations ahead. That the
plan is fit (`UsableInit`) follows from what an order of tables is, not from its being
the longest path: any plan of that form would lose no row.

`Effect` follows from `Inv` and `Writing`: what is written so far is what the tuples given
to the callback say. That a row UPDATE wrote is not met again is in `Inv` (`Unchanged`).
`AggregateExact` follows from `Inv` and `Folding`: `val_i` is the aggregate of the
combinations given so far (`IsTotal`). For SUM that needs that a finite set has one sum
in whatever order its elements are chosen (`SumAdds`), for MIN and MAX that no value
lies beyond the one `val_i` starts with, which is why `WordAssumption` says that tables hold
words. The sum itself is not cut to a word in the model.

`CatalogProofs` proves, for any databases, tables and contents, and a process that may die
between any two file operations:

* `ObjectsStaySound` (`Spec => []ObjectsSound`): the two arrays of a database object agree,
  whatever is opened, and where no list is opened that is missing or cut off
  (`Unread = FALSE`) they name each table once;
* `ListsStayComplete` (`Spec => []ListedComplete`): a database nobody worked on when the
  process died lists only tables whose files are there, whole and of one age;
* `NothingOrphaned` (`Spec => []NoOrphans`): no file of a dropped table or database stays.

The first needs no more than the modules' assumptions. The other two assume
`Overwrite = FALSE`, `StaleShow = FALSE`, `Unread = FALSE` and `HomesApart`, that no two
databases have a table of one name: section 5 shows what each excludes, and `catalog_all`
has all four.

While a statement runs, nothing simple holds of the files: a header is cut and
written again, a list is damaged and restored. The invariant is therefore about where the
plan leads. `Leads(todo, E, v, x)` says that a file that holds `v` will hold `x` once
`todo` has run: a step of the plan sets it to `x` and none after that sets it otherwise, or none sets
it at all. This does not change when a step runs (`EndsKept`), so only the statements, which
make the plans, have to be looked at. `Openable` says what memory may hold and that a
database the plan opens will have a list by then; with it alone `ObjectsSound` is proved where
`Unread = FALSE`. Where it is TRUE a plan may open anything, and `Formed` is all that is
left: what the variables and the steps of a plan are, and that the arrays agree, for whatever `Read`
makes of a file.
`Healthy` says that what the files of each database will hold is good: a list, and for each
table of its own whole files if it is listed and none if it is not, with the part that
memory still owes for the database in use. `PlanFits` says what plans there are: nothing but an
opening comes after a `leave` (`LeavesLast`), only databases the death of the process harms
are worked on (`Quiet`), and SHOW DATABASE does not meet a table it does not know in memory
(`TurnsFit`). A database that is not exposed has no step in the plan
(`Unexposed`), so there what will be is what is.

Its second part proves, under the same four conditions, the refinement:

* `CatalogImplemented` (`Spec => ImplementsDatabases`): every file operation, statement and
  death of the process is a step of `Databases` or changes nothing that a statement would find.

`Databases` has statements happen at once; the code has them happen file by file, so
that the step of the plan at which they have happened must be found. `Found` says what a
statement would find: memory for the database in use, the files for the others, and in
between what the plan is about to make of them. The heart of the proof is that it does not
matter where one looks. `Mapped` is the invariant for it: the files of the database in use
hold what memory has unless memory is marked changed (`CurFits`), and will hold it once a
plan that closes it has run (`WillShow`), and so for the second object of SHOW and DROP DATABASE
(`SecondFits`). Unlike `Healthy` it says this of harmed databases too, since statements
find something there as well. `FoundThere` restates `Found` by what the files will hold at the
end of the plan, which its steps do not change. With it each
action is one step: closing, opening and the end of a plan are stutters (`ShownLeft`,
`ShownEnd`, `ShownOpened`) because what memory held is what the files hold by then,
eviction is one since memory still has the pages, CREATE, DROP and the row
statements change the one table of the one database (`AsNewTable`, `AsOldTable`,
`AsChange`), and the death of the process loses at most what is exposed (`AsDeath`).

`VariantPageProofs` proves, for any size of page, lengths of items, number of pages and
places where items go:

* `LayoutKept` (`Spec => []Layout`): in every page blocks, free blocks and slots lie apart,
  the blocks end where the page ends, `free_size` is exactly what is left, and the links
  lead to pages of the chain;
* `MergeAlwaysFits` (`Spec => []MergeFits`): when a page underflows and its neighbour cannot
  lend, the two fit in one, whatever the sizes of their blocks. It is the sum of three
  limits: an underflow leaves three quarters of a page less 17 bytes, a page that
  cannot lend a half less 14, and a page of any use has more than 44 bytes;
* `SplitAlwaysMakesRoom` (`FourFit`, then `Spec => []SplitMakesRoom`): a page of blocks of one
  size that refuses another has the four blocks `split()` needs, and both its parts
  take it. `FourFit` says that four blocks and their slots go into a page, which
  `PAGE_BLOCK_MAX_SIZE` fails to guarantee for blocks of 1018 and 1019 bytes (section 5);
* `ChainsAreOwned` (`Spec => []ChainsOwned`): every overflow page in use is in the chain of one
  block of one page, once, however the blocks have moved;
* `ItemListsImplemented` (`Spec => ImplementsItemLists`): the chain of pages implements
  `ItemLists`. An item reads back with the length it was inserted with, at the place it
  was inserted, whatever is packed, split, merged and moved after it and whatever
  overflow pages its chain has.

They assume `VariantAssumption` alone, and that at least one page can be in use is part of it.
The invariant of the first three is `IInv`. For each page `PageOK`: the
blocks and the free blocks are pairwise apart and in the bottom, the slots end before
it begins, and free size, blocks, slots and header add up to the page. For the chain
`Linked`: `next` and `prev` are inverse to each other and some rank grows along `next`, so
that a page is never its own neighbour - without it `merge()` of a page with itself
could not be excluded. Each function of the code has a lemma on one page: `AllocateFinds` (the
place `allocate()` gives lies apart from everything and leaves two bytes for the slot, on each
of its three paths), `DefragmentKeeps`, `InsertedKeeps`, `ErasedKeeps`, `LowerKeeps` and
`UpperKeeps` for `split()`, `MergedKeeps`; `LinkedIn` and `LinkedOut` put the chain together again.
Two places are delicate. `defragment()` moves blocks in the order of their offsets,
so that where a block goes is the sum of the sizes at its offset or above
(`SizesFrom`); that these sums lie apart rests on the blocks having lain apart before
(`FromBlocks`). And `split()` gives the upper page a bottom that counts its slots: that this
does not run into them is `LowerNumFits`, from the half of the used bytes it stops at.
The chains have an invariant of their own on top of it, `ChainsKept`: the blocks of all pages
name heads of chains, each another one, and there is a function `c` from pages to chains such
that those of the heads have no page in common, repeat none and have every page in use
(`Owned`). `c` is not the recursive `Chain`, which it equals (`ChainIs`): that it exists is part
of the invariant, so that no induction over the length of a chain is needed, and each step
says how it changes. `Insert` adds a chain of pages that were unused, as many as the rest of
the item fills (`WrittenChain`, `ChainAdded`); `Erase` frees one chain whole (`FreedChain`,
`ChainRemoved`). `Split`, `Merge` and the two moves touch no overflow page: one lemma about
a page each (`SplitOv`, `MergedOv`, `InsertedOv`, `ErasedOv`) says where the names of the
chains go, and `TwoPages` that the two pages of a step name the same heads before and after.

For the refinement the state is mapped by `InOrder`: the pages in the order of their links,
each as the lengths its blocks read back with. The invariant adds `Listed` to the two
above. Its first part says that the pages are in a row: there is a sequence `s` that has
each page once, with `next` and `prev` leading to its neighbours (`InRow`). That such a row
exists is all the proof needs of it. `InOrder` picks its first page and follows `next`, and
comes to the lists of the row in turn (`OrderIs`), from which `ListsAre` and `ListsThen` state
a step's lists before and after by two rows; linking a page in or out changes the row by one
place (`RowIn`, `RowOut`). Its second part, `Measured`, says that the size of a block, which
`Room` and `Underflow` go by, is what an item of its length needs: without it nothing would tie
`free_size` to the lists. The length of an item adds up along its chain of overflow pages
(`Weighs`), so each step has to leave the chains of the other blocks alone (`LengthStays`,
`ItemsStay`), which is what `ChainsKept` gives, and `LengthWritten` says that the chain
`insert()` writes has the length that was asked for.
`InsertLists`, `EraseLists`, `SplitLists`, `MergeLists` and `MoveLists` map each step to
the one of `ItemLists` that bears its name, a move to either `Take`.

Sums over the blocks of a page are recursive functions; `RunningUnique` and
`RecursionExists` say that they are what their equations say.

`ColumnCacheProofs` proves for any tables, columns and rows, where no UPDATE turns a NULL
into a value and no column is read of a table that has none of the name (section 5 says what
happens otherwise):

* `ColumnsFound` (`CacheSpec => []CacheExact`): a condition that names a column with its table
  finds the value in the row the table is at; one that names it alone finds it if no other
  table of the statement has a column of the name; anything else throws.

The invariant speaks of the whole cache and not of a search in it: there is an entry for every
column of every row that is cached, and no other entry. It is needed because a search does not
stop at the end of a name: an entry left behind for a table that is not there any more would
answer for another column. `Expr` evaluates with this cache; its steps change `buf` and `cache`
as those of `ColumnCache` do. That the tables of one statement are finitely many is assumed
(`ColumnAssumption`): the multimap counts the entries of a name.

Only model-checked: that a statement ends (liveness); what a condition of `Expr`
evaluates to, which is recursive, and `BTree`, whose searches and chains are recursive
operators.

## 5. What the models found

One run ends in a counterexample:

* `btree_borrow` (`btree/btree.cpp:245`): a page that borrows from its left sibling
  leaves that sibling's key in the parent too large; `lower_bound` and `erase` miss
  the key that moved.

The models show these too, each in the cfg named, with the constant changed that is
named, if one is, and the property checked alone; the passing runs keep clear
of them or do not claim the property:

* `fs/page_fs.cpp:63`: `close()` leaves the clean frames of the file in the cache
  under its id, and the id stack hands the same id to the next file, which then reads
  them (`ImplementsPageStore` in `PageFs_files.cfg` with `Reopen = TRUE`).
* `database/dbms.cpp:136`: with an index on `a`, WHERE a = 1 AND b = 2 is answered,
  and deleted, by `a = 1` alone (`ImplementsRowsOnce` in `Query_all.cfg` with
  `Residual = TRUE`).
* `btree/btree.cpp:253`: leaves are merged whoever their parents are, and the parent of one
  erases a slot it does not have (294), although `fixed_page.h:94` asserts that it does
  (`ErasedSlotIsThere` in `BTree_three.cfg`).
* `defs.h:15`: rows of 1018 and 1019 bytes fill a page with three, which `split()`
  refuses, although `btree.cpp:165` asserts that the insert after it succeeds; the caller goes
  on with page 0 (`SplitMakesRoom` in `BTree_rows.cfg` with `Block = 1019`).
* `table/table.cpp:467`: an UPDATE to NULL erases the index entry of whatever
  `tmp_record` holds, and the real one stays (`ErasesFind` in `Table_unique.cfg`
  with `NullUpdates = TRUE`).
* `database/dbms.cpp:100`: a condition with an index whose other side is an
  expression, such as a negative number, leaves the key unset and finds nothing
  (`NothingLost` in `Query_all.cfg` with `Computed = TRUE`).
* `table/table.cpp:507`: CREATE INDEX does not enter the rows that exist
  (`IndexExact` in `Table_unique.cfg` with `LateIndex = TRUE`).
* `table/table.cpp:453`: an UPDATE of a NULL leaves the null mark set (`ImplementsRows`
  in `Table_unique.cfg` with `NullUpdates = TRUE`).
* `table/table.cpp:569`: UNIQUE takes a NULL for the bytes under it (`ImplementsRows`
  in `Table_unique.cfg` with 0 in `Stored`).
* `database/database.cpp:32`: CREATE DATABASE over one that exists writes an empty
  list over its list; its files stay behind and show again when a table of the name is
  created (`NoOrphans` and `ImplementsDatabases` in `Catalog_all.cfg` with
  `Overwrite = TRUE`).
* `database/dbms.cpp:482`: SHOW DATABASE opens the tables of the database in use a
  second time and writes its list and headers back; after DROP TABLE it creates the
  dropped table's files again (`NoOrphans` with `StaleShow = TRUE`).
* `database/database.cpp:22`: `open()` reads a list that is missing, or was cut off by the
  death of the process, into a struct it has not initialised and does not ask how
  much it got; USE, SHOW and DROP DATABASE go on with whatever tables it names, and write them to
  the list at `close()` (`ListedComplete`, `NoOrphans` and `ImplementsDatabases` in
  `Catalog_all.cfg` with `Unread = TRUE`). Only that the two arrays of the object agree
  holds there, too (`ObjectsStaySound`, section 4; TLC has `ObjectsSound` with
  `Unread = TRUE`, `Home <- Shared`, `Value = {v1}` and `SYMMETRY Symmetry`).
* `table/table.cpp:142`: files are named for the table alone, so two databases with a
  table of one name share its files (`ListedComplete` with one name in both of `Home`).
* `expression/expression.cpp:66`: the search for a column's table runs on past the
  entries of the name; a table without the column answers with another of its columns
  or throws, as the hash has it (`CacheExact` in `Expr_all.cfg` with `Stray = TRUE`).
* `expression/expression.cpp:263`: an int divided by 0 ends the process, in a WHERE, a CHECK
  or a SET; README.md:59 of the repository has the four operations work on integers and floats, and
  `testcase/test_check.sql:28` divides a column (`DivisionRuns` in `Expr_all.cfg`).
* `expression/expression.cpp:493`: a string compared with a literal in the form of a date throws;
  README.md:35 of the repository says such a literal is the same as a string
  (`DatesAreStrings` in `Expr_all.cfg`).
* `expression/serialization.cpp:22`: a CHECK with a string of two words, a DATE or
  FALSE is not the same after the table is opened again (`CheckKept` with
  `Unstorable = TRUE`; `Conditions <- Blanks` for strings alone).
* `expression/serialization.cpp:19`: a float of more than six digits in a CHECK, as in
  `CHECK (f < 1234567.0)`, is another number after the table is opened again (`CheckKept` with
  `Unstorable = TRUE`, `Conditions <- Longs` and `Datum <- LongData`).
* `expression/expression.cpp:438`: IN compares strings exactly where `=` (line 360)
  ignores case (`WhereAgrees` with `Conditions <- CaseLists`).
* `table/table.cpp:453`, seen from the cache: after an UPDATE of a NULL the cache of
  columns has the value and the row is still NULL (`CacheExact` with
  `NullUpdates = TRUE`).
* README.md:64 of the repository lists NOT among the operators; it throws for every
  operand (`TypeOf` in `Expr` therefore counts it as ill-typed).

## 6. Plan and limits

In this order: 1. recency order, paged file system with its proofs (done);
2. B+ tree (done); 3. tables with their indices and constraints, and their
proofs (done); 4. queries: the scan, the index path, the order of nested loops,
UPDATE, DELETE and aggregates, and their proofs (done); 5. the layout of variant
pages with their overflow chains (done); 6. the catalog with the death of the process
between file writes (done); 7. expressions, the cache of columns and stored CHECKs
(done). Then:

8. `Records`: the cursor of `record_manager` across a chain of overflow pages, and the
   b-tree iterator over pages that change under it.
9. `fixed_page.h` byte by byte, as `VariantPage` does it for rows; WHERE with OR and
   NOT in `Query`.

Theorems to come: UNIQUE for every table without NULLs (from `IndexExact`), and the capacity lemmas of `BTree` pages.

Not modelled: the parser and `main` (generated code and dispatch), the regular
expression behind LIKE, the wording of results (`to_string`), the cursor of
`record_manager`, C++ array bounds and memory management. An I/O error other than a
failed `fopen` is not modelled either: the code tests none.
