-------------------------------- MODULE BTree ---------------------------------
(***************************************************************************)
(* The B+ tree: src/src/btree/btree.cpp over the page layouts fixed_page,  *)
(* index_leaf_page and variant_page (src/src/page).  A call is a stack of  *)
(* frames, one per interior page it went down through; every action is one *)
(* handler of that recursion, from its first read of a page to its return. *)
(*                                                                         *)
(* A page is its list of items, a key and a child each (0 in a leaf), and  *)
(* the links to its siblings.  Sizes are the code's: a fixed page holds    *)
(* 4080 \div (FieldSize + 4) items, a data page as many blocks of Block    *)
(* bytes (their block_header included) and two-byte slots as fit in 4076.  *)
(* Keys are distinct: an index key ends with the row id.                   *)
(***************************************************************************)
EXTENDS Integers, Sequences, FiniteSets, SequencesExt

CONSTANTS
    FieldSize,   \* field_size, the bytes of a key in a fixed page
    Block,       \* bytes of a block in a data page; 0 in an index tree
    MaxKey,      \* bound: the greatest key
    Touch,       \* bound: the keys of the calls that follow Script
    MaxPage,     \* bound: pages of the file, never reached
    AfterBorrow, \* bound: are there calls once borrowed is TRUE?
    Script,      \* the calls a behaviour begins with
    Free,        \* a page on the pager's free list
    NoRet,       \* the call has not reached its leaf
    NoKey        \* lower_bound() returned { 0, 0 }

ASSUME BTreeAssumption ==
    /\ FieldSize \in Nat \ {0}
    /\ Block \in Nat
    /\ MaxKey \in Nat
    /\ Touch \subseteq 1 .. MaxKey
    /\ MaxPage \in Nat \ {0}
    /\ AfterBorrow \in BOOLEAN

VARIABLES
    pages,      \* the pages of the file
    root,       \* root_page_id
    op,         \* the running call, or "idle"
    key,        \* its key
    now,        \* the page it goes down to
    stack,      \* its frames above now: page and ch_pos
    ret,        \* what the handler below returned
    reply,      \* the answer of the last call
    todo,       \* what is left of Script
    issued,     \* the last row id given to a row (data tree)
    borrowed,   \* history: a page took an element from its prev_page
    broken      \* history: a slot out of range or a null page was accessed

callVars == <<op, key, now, stack, ret>>
vars == <<pages, root, callVars, reply, todo, issued, borrowed, broken>>

Key    == 1 .. MaxKey
PageId == 1 .. MaxPage
DataTree == Block # 0

(* The key a freed page shows, its field_size overwritten: any bytes.      *)
Junk == {0, MaxKey + 1}

Item == [key : Key \cup Junk, child : 0 .. MaxPage]
NewPage(leaf) == [leaf |-> leaf, items |-> <<>>, next |-> 0, prev |-> 0]

Init ==
    /\ pages = [p \in PageId |-> IF p = 1 THEN NewPage(TRUE) ELSE Free]
    /\ root = 1
    /\ op = "idle" /\ key = 0 /\ now = 0 /\ stack = <<>> /\ ret = NoRet
    /\ reply = NoKey
    /\ todo = Script
    /\ issued = 0
    /\ borrowed = FALSE
    /\ broken = FALSE

-----------------------------------------------------------------------------
(* Page capacities *)

MinNum == 4                                   \* PAGE_BLOCK_MIN_NUM
FreeSpaceMax == 3072                          \* PAGE_FREE_SPACE_MAX
Capacity == 4080 \div (FieldSize + 4)         \* fixed_page::capacity()
FreeSize(n) == 4076 - n * (Block + 2)         \* variant_page::free_size()

Size(nd) == Len(nd.items)
IsData(nd) == nd.leaf /\ DataTree

(* insert() has no room for one more item. *)
Full(nd) ==
    IF IsData(nd) THEN FreeSize(Size(nd)) < Block + 2
    ELSE Size(nd) = Capacity

Underflow(nd) ==
    IF IsData(nd) THEN FreeSize(Size(nd)) > FreeSpaceMax \/ Size(nd) < MinNum \div 2
    ELSE Size(nd) < Capacity \div 2 - 1

(* underflow_if_remove().  Mutant: what the page holds before the removal  *)
(* is tested.                                                              *)
LendsLast(nd) == Underflow(nd)

UnderflowIfRemove(nd) ==
    IF IsData(nd)
    THEN FreeSize(Size(nd)) - Block - 2 > FreeSpaceMax \/ Size(nd) - 1 < MinNum \div 2
    ELSE Size(nd) < Capacity \div 2

(* The items split() leaves in the lower page. *)
LowerSize(nd) ==
    LET n == Size(nd)
        even == ((n * Block) \div 2) \div (Block + 2)
        moved == Min({n - MinNum \div 2, Max({MinNum \div 2, even})})
    IN  IF IsData(nd) THEN n - moved ELSE n \div 2

-----------------------------------------------------------------------------
(* Searching: the binary search of algo/search.h, from position 1, and the *)
(* test the B-tree gives it.  Mutant: an equal key passes the test.        *)

BelowOrEqual(item, k) == item.key <= k

Below(item, k) == item.key < k

LowerBound(items, k) ==
    LET n == Len(items)
        search[lo \in 1 .. n, hi \in 1 .. n] ==
            LET mid == lo + (hi - lo) \div 2 IN
            IF lo >= hi THEN lo
            ELSE IF Below(items[mid], k) THEN search[mid + 1, hi]
            ELSE search[lo, mid]
        least == search[1, n]
    IN  IF n = 0 THEN 1
        ELSE IF Below(items[least], k) THEN n + 1 ELSE least

(* The child an interior page sends a key to. *)
ChildPos(nd, k) == Min({Size(nd), LowerBound(nd.items, k)})

LastKey(nd) == nd.items[Size(nd)].key

FreshPage == Min({p \in PageId : pages[p] = Free})

-----------------------------------------------------------------------------
(* Inserting an item at position at of page p, which is nd by now.  A full *)
(* page is split first: the item joins the lower half when ch, the slot of *)
(* the child or key, is there.                                             *)

SplitLower(nd, q) ==
    [nd EXCEPT !.items = SubSeq(@, 1, LowerSize(nd)), !.next = q]

(* Mutant of SplitUpper: an item stays in both halves. *)
SplitUpperTwice(nd, p) ==
    [nd EXCEPT !.items = SubSeq(@, LowerSize(nd), Size(nd)), !.prev = p]

SplitUpper(nd, p) ==
    [nd EXCEPT !.items = SubSeq(@, LowerSize(nd) + 1, Size(nd)), !.prev = p]

(* The old successor's prev_page after split().  Mutant: not updated. *)
RelinkedNot(nd, q) == nd

Relinked(nd, q) == [nd EXCEPT !.prev = q]

JoinsLower(nd, ch) == ch <= LowerSize(nd)

Added(nd, at, item) == [nd EXCEPT !.items = InsertAt(@, at, item)]

AddedSplit(p, nd, at, item, ch) ==
    LET q == FreshPage
        m == LowerSize(nd)
        lower == SplitLower(nd, q)
        upper == SplitUpper(nd, p)
    IN  [r \in PageId |->
            IF r = p
            THEN IF JoinsLower(nd, ch) THEN Added(lower, at, item) ELSE lower
            ELSE IF r = q
            THEN IF JoinsLower(nd, ch) THEN upper ELSE Added(upper, at - m, item)
            ELSE IF r = nd.next THEN Relinked(pages[r], q)
            ELSE pages[r]]

(* split() refuses a page of fewer than MinNum items; the caller goes on   *)
(* with a null page.                                                       *)
Add(p, nd, at, item, ch) ==
    \/ /\ ~Full(nd)
       /\ pages' = [pages EXCEPT ![p] = Added(nd, at, item)]
       /\ ret' = [split |-> FALSE, upper |-> 0]
       /\ UNCHANGED broken
    \/ /\ Full(nd)
       /\ Size(nd) >= MinNum
       /\ pages' = AddedSplit(p, nd, at, item, ch)
       /\ ret' = [split |-> TRUE, upper |-> FreshPage]
       /\ UNCHANGED broken
    \/ /\ Full(nd)
       /\ Size(nd) < MinNum
       /\ broken' = TRUE
       /\ UNCHANGED <<pages, ret>>

-----------------------------------------------------------------------------
(* Calls.  A behaviour runs Script first, then calls of the environment's  *)
(* choosing on the keys of Touch.  A data tree is keyed by row ids, which  *)
(* grow; an index gets no key it has.                                      *)

Leaves == {p \in PageId : pages[p] # Free /\ pages[p].leaf}
Stored == UNION {{it.key : it \in ToSet(pages[p].items)} : p \in Leaves}

MayCall(o, k) ==
    IF todo # <<>> THEN Head(todo) = <<o, k>>
    ELSE /\ k \in Touch
         /\ o = "insert" => IF DataTree THEN k = issued + 1 ELSE k \notin Stored

Call(o, k) ==
    /\ op = "idle"
    /\ ~broken
    /\ borrowed => AfterBorrow
    /\ MayCall(o, k)
    /\ op' = o /\ key' = k /\ now' = root /\ stack' = <<>> /\ ret' = NoRet
    /\ todo' = IF todo # <<>> THEN Tail(todo) ELSE todo
    /\ issued' = IF DataTree /\ o = "insert" THEN k ELSE issued
    /\ UNCHANGED <<pages, root, reply, borrowed, broken>>

AtLeaf(o) ==
    /\ op = o
    /\ ret = NoRet
    /\ ~broken
    /\ pages[now].leaf

(* insert_interior(), erase() and lower_bound() on an interior page, down  *)
(* to the call for its child.                                              *)
Descend ==
    /\ op # "idle"
    /\ ret = NoRet
    /\ ~broken
    /\ ~pages[now].leaf
    /\ LET pos == ChildPos(pages[now], key) IN
       /\ now' = pages[now].items[pos].child
       /\ stack' = Append(stack, [page |-> now, pos |-> pos])
    /\ UNCHANGED <<pages, root, op, key, ret, reply, todo, issued, borrowed,
                   broken>>

(* The call returns to its caller. *)
Return ==
    /\ op' = "idle" /\ key' = 0 /\ now' = 0 /\ stack' = <<>> /\ ret' = NoRet

(* The handler of the page on top of the stack is over. *)
Pop ==
    /\ stack' = Front(stack)
    /\ UNCHANGED <<op, key, now>>

(* lower_bound() on a leaf page; the calls above return what it returns. *)
FindLeaf ==
    LET nd == pages[now]
        pos == LowerBound(nd.items, key)
    IN  /\ AtLeaf("find")
        /\ reply' = IF pos > Size(nd) THEN NoKey ELSE nd.items[pos].key
        /\ Return
        /\ UNCHANGED <<pages, root, todo, issued, borrowed, broken>>

(* insert_leaf() *)
InsertLeaf ==
    LET nd == pages[now]
        pos == LowerBound(nd.items, key)
    IN  /\ AtLeaf("insert")
        /\ Add(now, nd, pos, [key |-> key, child |-> 0], pos)
        /\ UNCHANGED <<root, op, key, now, stack, reply, todo, issued, borrowed>>

(* The interior page after its child's largest key changed.  Mutant: the   *)
(* key of the page is left as it was.                                      *)
KeyNotSet(nd, pos, k) == nd

KeySet(nd, pos, k) == [nd EXCEPT !.items[pos].key = k]

(* insert_post_process() *)
InsertPost ==
    LET f == Last(stack)
        nd == pages[f.page]
        lower == pages[nd.items[f.pos].child]
        keyed == KeySet(nd, f.pos, LastKey(lower))
    IN  /\ op = "insert" /\ ret # NoRet /\ stack # <<>> /\ ~broken
        /\ IF ret.split
           THEN Add(f.page, keyed, f.pos + 1,
                    [key |-> LastKey(pages[ret.upper]), child |-> ret.upper],
                    f.pos)
           ELSE /\ pages' = [pages EXCEPT ![f.page] = keyed]
                /\ UNCHANGED <<ret, broken>>
        /\ Pop
        /\ UNCHANGED <<root, reply, todo, issued, borrowed>>

(* insert() with insert_split_root(): a split root gets a new page above.  *)
InsertDone ==
    LET q == FreshPage
        item(p) == [key |-> LastKey(pages[p]), child |-> p]
    IN  /\ op = "insert" /\ ret # NoRet /\ stack = <<>> /\ ~broken
        /\ IF ret.split
           THEN /\ pages' = [pages EXCEPT ![q] =
                       [NewPage(FALSE) EXCEPT !.items =
                           <<item(root), item(ret.upper)>>]]
                /\ root' = q
           ELSE UNCHANGED <<pages, root>>
        /\ Return
        /\ UNCHANGED <<reply, todo, issued, borrowed, broken>>

-----------------------------------------------------------------------------
(* erase_try_merge() on page p, which is nd by now, and the return of the  *)
(* erase() around it.                                                      *)

(* merge() refuses what does not fit; its caller frees page q all the same. *)
Fits(nd, other) ==
    IF IsData(nd) THEN 4076 - FreeSize(Size(other)) <= FreeSize(Size(nd))
    ELSE Size(nd) + Size(other) <= Capacity

Joined(nd, other) == [nd EXCEPT !.items = @ \o other.items, !.next = other.next]

(* Page p, which is nd by now, takes the items of its next page q, which   *)
(* the caller frees.                                                       *)
Merged(p, nd, q, other) ==
    [r \in PageId |->
        IF r = p THEN IF Fits(nd, other) THEN Joined(nd, other) ELSE nd
        ELSE IF r = q THEN Free
        ELSE IF r = other.next /\ Fits(nd, other) THEN Relinked(pages[r], p)
        ELSE pages[r]]

NoMerge == [left |-> FALSE, right |-> FALSE, page |-> 0]

MergedLeft(p) == [left |-> TRUE, right |-> FALSE, page |-> p]

MergedRight(p) == [left |-> FALSE, right |-> TRUE, page |-> p]

EraseRet(merge, largest) ==
    [found |-> TRUE, merge |-> merge, largest |-> largest]

(* The key erase() reports as the largest of page p after merge_left freed *)
(* p: a data page still shows its last key, a fixed page anything.         *)
FreedLast(nd) == IF IsData(nd) THEN {LastKey(nd)} ELSE Junk

(* Which sibling may lend is asked first of the next page, then of the     *)
(* previous one. *)
CanLend(q) == q # 0 /\ ~UnderflowIfRemove(pages[q])

BorrowNext(p, nd) ==
    LET next == pages[nd.next] IN
    /\ Underflow(nd)
    /\ CanLend(nd.next)
    /\ pages' = [pages EXCEPT
                    ![p] = [nd EXCEPT !.items = Append(@, Head(next.items))],
                    ![nd.next].items = Tail(@)]
    /\ ret' = EraseRet(NoMerge, Head(next.items).key)
    /\ UNCHANGED borrowed

BorrowPrev(p, nd) ==
    LET prev == pages[nd.prev] IN
    /\ Underflow(nd)
    /\ ~CanLend(nd.next)
    /\ CanLend(nd.prev)
    /\ pages' = [pages EXCEPT
                    ![p] = [nd EXCEPT !.items = <<Last(prev.items)>> \o @],
                    ![nd.prev].items = Front(@)]
    /\ ret' = EraseRet(NoMerge, Last(<<Last(prev.items)>> \o nd.items).key)
    /\ borrowed' = TRUE

MergeNext(p, nd) ==
    LET next == pages[nd.next] IN
    /\ Underflow(nd)
    /\ nd.next # 0
    /\ ~CanLend(nd.next)
    /\ ~CanLend(nd.prev)
    /\ pages' = Merged(p, nd, nd.next, next)
    /\ ret' = EraseRet(MergedRight(p), Last(nd.items \o next.items).key)
    /\ UNCHANGED borrowed

MergePrev(p, nd) ==
    /\ Underflow(nd)
    /\ nd.next = 0
    /\ nd.prev # 0
    /\ ~CanLend(nd.prev)
    /\ pages' = Merged(nd.prev, pages[nd.prev], p, nd)
    /\ \E largest \in FreedLast(nd) :
          ret' = EraseRet(MergedLeft(nd.prev), largest)
    /\ UNCHANGED borrowed

NeitherMerged(p, nd) ==
    /\ ~Underflow(nd) \/ (nd.next = 0 /\ nd.prev = 0)
    /\ pages' = [pages EXCEPT ![p] = nd]
    /\ ret' = EraseRet(NoMerge, IF nd.items = <<>> THEN 0 ELSE LastKey(nd))
    /\ UNCHANGED borrowed

TryMerge(p, nd) ==
    \/ BorrowNext(p, nd)
    \/ BorrowPrev(p, nd)
    \/ MergeNext(p, nd)
    \/ MergePrev(p, nd)
    \/ NeitherMerged(p, nd)

NotFound == [found |-> FALSE, merge |-> NoMerge, largest |-> 0]

Removed(nd, pos) == [nd EXCEPT !.items = RemoveAt(@, pos)]

(* erase() on a leaf page *)
EraseLeaf ==
    LET nd == pages[now]
        pos == LowerBound(nd.items, key)
        found == pos <= Size(nd) /\ nd.items[pos].key = key
    IN  /\ AtLeaf("erase")
        /\ IF found THEN TryMerge(now, Removed(nd, pos))
           ELSE ret' = NotFound /\ UNCHANGED <<pages, borrowed>>
        /\ reply' = IF found THEN key ELSE NoKey
        /\ UNCHANGED <<root, op, key, now, stack, todo, issued, broken>>

(* erase() on an interior page, after the call for its child returned. *)
Reslotted(nd, at, k, child) ==
    [nd EXCEPT !.items[at] = [key |-> k, child |-> child]]

EraseInterior ==
    LET f == Last(stack)
        nd == pages[f.page]
        m == ret.merge
    IN  /\ op = "erase" /\ ret # NoRet /\ stack # <<>> /\ ~broken
        /\ \/ /\ ~ret.found
              /\ UNCHANGED <<pages, ret, borrowed, broken>>
           \/ /\ ret.found /\ m.right /\ f.pos < Size(nd)
              /\ TryMerge(f.page, Reslotted(Removed(nd, f.pos + 1), f.pos,
                                            ret.largest, m.page))
              /\ UNCHANGED broken
           \/ /\ ret.found /\ m.left /\ f.pos > 1
              /\ TryMerge(f.page, Reslotted(Removed(nd, f.pos), f.pos - 1,
                                            ret.largest, m.page))
              /\ UNCHANGED broken
           \/ /\ ret.found /\ ~m.left /\ ~m.right
              /\ TryMerge(f.page, KeySet(nd, f.pos, ret.largest))
              /\ UNCHANGED broken
           \/ /\ ret.found
              /\ IF m.right THEN f.pos = Size(nd) ELSE m.left /\ f.pos = 1
              /\ broken' = TRUE
              /\ UNCHANGED <<pages, ret, borrowed>>
        /\ Pop
        /\ UNCHANGED <<root, reply, todo, issued>>

(* erase() on the tree: an interior root with one child gives way to it. *)
EraseDone ==
    LET nd == pages[root] IN
    /\ op = "erase" /\ ret # NoRet /\ stack = <<>> /\ ~broken
    /\ IF ~nd.leaf /\ Size(nd) = 1
       THEN /\ pages' = [pages EXCEPT ![root] = Free]
            /\ root' = nd.items[1].child
       ELSE UNCHANGED <<pages, root>>
    /\ Return
    /\ UNCHANGED <<reply, todo, issued, borrowed, broken>>

Next ==
    \/ \E o \in {"insert", "erase", "find"}, k \in Key : Call(o, k)
    \/ Descend
    \/ FindLeaf
    \/ InsertLeaf
    \/ InsertPost
    \/ InsertDone
    \/ EraseLeaf
    \/ EraseInterior
    \/ EraseDone

Spec == Init /\ [][Next]_vars
-----------------------------------------------------------------------------
(* The shape of the tree: its levels from the root down, and the leaf      *)
(* chain that iterators follow.                                            *)

Children(p) ==
    IF pages[p].leaf THEN {} ELSE {it.child : it \in ToSet(pages[p].items)}

Depth == 0 .. 4

Level ==
    LET l[d \in Depth] ==
          IF d = 0 THEN {root} ELSE UNION {Children(p) : p \in l[d - 1]}
    IN  l

Reachable == UNION {Level[d] : d \in Depth}

FirstLeaf == CHOOSE p \in Leaves : pages[p].prev = 0

(* The pages of the chain from page p on, at most MaxPage of them. *)
Chain(p) ==
    LET c[n \in 1 .. MaxPage] ==
          LET q == IF n = 1 THEN p ELSE c[n - 1]
          IN  IF n = 1 \/ q = 0 THEN q ELSE pages[q].next
    IN  SelectSeq(c, LAMBDA q : q # 0)

KeysOf(p) == [i \in 1 .. Size(pages[p]) |-> pages[p].items[i].key]

ChainKeys ==
    FoldLeft(LAMBDA keys, p : keys \o KeysOf(p), <<>>, Chain(FirstLeaf))

Idle == op = "idle" /\ ~broken

NodeOK(nd) ==
    /\ nd.leaf \in BOOLEAN
    /\ \A n \in 1 .. Size(nd) : nd.items[n] \in Item /\ (nd.items[n].child = 0 <=> nd.leaf)
    /\ IF IsData(nd) THEN FreeSize(Size(nd)) >= 0 ELSE Size(nd) <= Capacity
    /\ nd.next \in 0 .. MaxPage
    /\ nd.prev \in 0 .. MaxPage

TypeOK ==
    /\ \A p \in PageId : pages[p] = Free \/ NodeOK(pages[p])
    /\ root \in PageId
    /\ op \in {"idle", "insert", "erase", "find"}
    /\ key \in 0 .. MaxKey
    /\ now \in 0 .. MaxPage
    /\ \A n \in 1 .. Len(stack) :
          stack[n] \in [page : PageId, pos : 1 .. Size(pages[stack[n].page])]
    /\ reply \in Key \cup {NoKey}
    /\ issued \in 0 .. MaxKey
    /\ borrowed \in BOOLEAN
    /\ broken \in BOOLEAN

(* Iterators walk the leaves by next_page and prev_page (btree/iterator.h), *)
(* so the links of each level are inverse to each other after every call,  *)
(* through splits, loans and merges, and no leaf is left out of the chain. *)
LinksInverse ==
    Idle =>
        /\ \A p \in PageId : pages[p] # Free =>
              LET nd == pages[p] IN
              /\ nd.next # 0 => pages[nd.next] # Free /\ pages[nd.next].prev = p
              /\ nd.prev # 0 => pages[nd.prev] # Free /\ pages[nd.prev].next = p
        /\ ToSet(Chain(FirstLeaf)) = Leaves

(* As long as no page borrowed from its prev_page, the chain visits the    *)
(* stored keys in increasing order, each once.                             *)
ChainSorted ==
    Idle /\ ~borrowed =>
        LET keys == ChainKeys IN
        \A n \in 2 .. Len(keys) : keys[n - 1] < keys[n]

(* No page is leaked and none is used after it was freed: between calls    *)
(* the pages the file has in use are the pages of the tree, each hanging   *)
(* from one place only, and every leaf is as deep as any other.            *)
PagesExact ==
    Idle =>
        /\ Reachable = {p \in PageId : pages[p] # Free}
        /\ \A p \in Reachable :
              Cardinality({<<q, i>> \in Reachable \X Key :
                  /\ ~pages[q].leaf
                  /\ i <= Size(pages[q])
                  /\ pages[q].items[i].child = p})
              = IF p = root THEN 0 ELSE 1
        /\ \A d \in Depth : \A p, q \in Level[d] : pages[p].leaf = pages[q].leaf

(* Every page but the root keeps at least the items underflow() asks for   *)
(* and is never empty, whichever sibling lent to it or merged with it.     *)
Occupied ==
    Idle => \A p \in Reachable \ {root} :
        pages[p].items # <<>> /\ ~Underflow(pages[p])

(* Splits, loans and merges leave a tree: its pages are linked both ways,  *)
(* belong to it once, and none is too empty.                               *)
Shape == TypeOK /\ LinksInverse /\ PagesExact /\ Occupied

(* btree.h:13: the key of a page element is the largest element of its     *)
(* children, apart from the last key on the right edge of a level, which a *)
(* merge may leave wrong and no search depends on.  It holds until a page  *)
(* borrowed from its prev_page.                                            *)
LargestBelow(p) == Max({0} \cup {it.key : it \in ToSet(pages[p].items)})

SeparatorsExact ==
    Idle /\ ~borrowed =>
        \A p \in Reachable : ~pages[p].leaf =>
            \A i \in 1 .. Size(pages[p]) :
                LET it == pages[p].items[i] IN
                \/ it.key = LastKey(pages[it.child])
                \/ i = Size(pages[p]) /\ pages[p].next = 0

(* A parent drops and rewrites slots it has (fixed_page.h:94: 0 <= pos &&  *)
(* pos < size()): two pages are merged only if both are children of the    *)
(* page that drops one of them.                                            *)
ErasedSlotIsThere == broken => op # "erase"

(* A page that was full takes the new element once it is split             *)
(* (btree.cpp:165 and :169: succ_ins): split() never refuses.              *)
SplitMakesRoom == broken => op # "insert"

(* The tree is the set of its keys, and answers erase() and lower_bound()  *)
(* as that set would.                                                      *)
Set == INSTANCE OrderedSet WITH contents <- Stored, reply <- reply

ImplementsOrderedSet == Set!SetSpec

(* The same as long as no page borrowed from its prev_page. *)
ImplementsUntilBorrow ==
    Set!SetInit /\ [][borrowed' \/ broken' \/ Set!SetNext]_<<Stored, reply>>
=============================================================================
