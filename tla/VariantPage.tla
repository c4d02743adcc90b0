------------------------------ MODULE VariantPage ------------------------------
(***************************************************************************)
(* The layout of variant pages (src/src/page/variant_page.cpp): items are  *)
(* blocks that grow from the bottom of the page up, slots with their       *)
(* offsets grow from the top down, blocks that were freed form a list, and *)
(* what an item has beyond the page goes to a chain of overflow pages.     *)
(*                                                                         *)
(* A block is kept with the slot that points to it, a free block with its  *)
(* place in the list; that they lie apart in the page is what Disjoint     *)
(* says.  The bytes of an item are abstracted to their number.             *)
(***************************************************************************)
EXTENDS SequencesExt, FiniteSetsExt, Integers

CONSTANTS
    PageSize,   \* PAGE_SIZE
    Keep,       \* PAGE_OV_KEEP_SIZE
    FreeMin,    \* PAGE_FREE_BLOCK_MIN_SIZE
    Trees,      \* sets of the lengths the items of one tree have
    MaxPage,    \* bound: pages of the chain
    MaxOv,      \* bound: overflow pages
    MaxItems(_,_),  \* bound: items in the pages of a tree, by their number
    Places(_)       \* bound: where items go in a page of some items

HeaderSize  == 20               \* variant_page::header_size()
BlockHeader == 8                \* sizeof(block_header)
SlotSize    == 2
MinNum      == 4                \* PAGE_BLOCK_MIN_NUM
MaxBlock    == (PageSize - 12) \div MinNum - 2      \* PAGE_BLOCK_MAX_SIZE
FreeMax     == (PageSize \div 4) * 3                \* PAGE_FREE_SPACE_MAX
OvSize      == PageSize - 8     \* overflow_page::block_size()

(* Keep: the assertion of data_page, and what move_from() relies on.       *)
(* MaxPage: a tree begins with a page.                                     *)
ASSUME VariantAssumption ==
    /\ {PageSize, Keep, FreeMin, MaxPage, MaxOv} \subseteq Nat
    /\ FreeMin # 0 /\ MaxPage # 0
    /\ Keep \in BlockHeader + 1 .. MaxBlock
    /\ \A t \in Trees : t # {} /\ t \subseteq Nat \ {0}

VARIABLES
    data,       \* the lengths items have in this tree
    page,       \* the pages of the chain; NoPage where there is none
    ov          \* overflow pages; Unused where there is none

vars == <<data, page, ov>>

NoPage == [slots |-> <<>>]
Unused == [size |-> 0, next |-> 0]
Live   == {p \in 1 .. MaxPage : page[p] # NoPage}

(* init() *)
NewPage == [slots |-> <<>>, free |-> <<>>, freeSize |-> PageSize - HeaderSize,
            bottom |-> 0, next |-> 0, prev |-> 0]

Init ==
    /\ data \in Trees
    /\ page = [p \in 1 .. MaxPage |-> IF p = 1 THEN NewPage ELSE NoPage]
    /\ ov = [o \in 1 .. MaxOv |-> Unused]

-----------------------------------------------------------------------------
(* Overflow chains *)

SizesOf(blocks) ==
    LET sum[n \in 0 .. Len(blocks)] == IF n = 0 THEN 0 ELSE sum[n - 1] + blocks[n].size
    IN  sum[Len(blocks)]

(* ... of those that lie at some place or above. *)
SizesFrom(blocks, at) ==
    LET sum[n \in 0 .. Len(blocks)] ==
            IF n = 0 THEN 0
            ELSE IF blocks[n].at >= at THEN sum[n - 1] + blocks[n].size
            ELSE sum[n - 1]
    IN  sum[Len(blocks)]

Overflows(d)     == d + BlockHeader > MaxBlock
SizeRequired(d)  == IF Overflows(d) THEN Keep ELSE d + BlockHeader

(* What insert() leaves for overflow pages, and how many it takes. *)
Remain(d)  == IF Overflows(d) THEN d - (Keep - BlockHeader) ELSE 0
OvPages(d) == (Remain(d) + OvSize - 1) \div OvSize

FreeOv == {o \in 1 .. MaxOv : ov[o] = Unused}

(* new_page(): which pages of the file they are makes no difference here. *)
Fresh(d) == CHOOSE s \in Injection(1 .. OvPages(d), FreeOv) : TRUE

WithChain(d) ==
    [o \in DOMAIN ov |->
        IF o \in Range(Fresh(d))
        THEN LET i == CHOOSE j \in 1 .. OvPages(d) : Fresh(d)[j] = o
             IN  [size |-> Min({OvSize, Remain(d) - (i - 1) * OvSize}),
                  next |-> IF i < OvPages(d) THEN Fresh(d)[i + 1] ELSE 0]
        ELSE ov[o]]

FirstOv(d) == IF Overflows(d) THEN Fresh(d)[1] ELSE 0

Chain(first) ==
    LET from[n \in 0 .. MaxOv] == IF n = 0 THEN <<>> ELSE <<n>> \o from[ov[n].next]
    IN  from[first]

(* free_overflow_page() *)
(* Mutant: not recursive. *)
FirstFreed(first) == [o \in DOMAIN ov |-> IF o = first THEN Unused ELSE ov[o]]

ChainFreed(first) ==
    [o \in DOMAIN ov |-> IF o \in Range(Chain(first)) THEN Unused ELSE ov[o]]

-----------------------------------------------------------------------------
(* Room in a page *)

Unallocated(p) == PageSize - (HeaderSize + SlotSize * Len(p.slots) + p.bottom)
UsedSize(p) == PageSize - p.freeSize - SlotSize * Len(p.slots) - HeaderSize

(* defragment(): blocks go to the bottom in the order of their offsets. *)
Defragment(p) ==
    [p EXCEPT !.slots = [i \in DOMAIN p.slots |->
                            [p.slots[i] EXCEPT !.at =
                                PageSize - SizesFrom(p.slots, p.slots[i].at)]],
              !.free = <<>>,
              !.bottom = SizesOf(p.slots)]

HeadFits(p, sz) == p.free # <<>> /\ Head(p.free).size >= sz

(* Mutant: the slot of the new item is forgotten. *)
NeedsPackingNoSlot(p, sz) == ~HeadFits(p, sz) /\ Unallocated(p) < sz

NeedsPacking(p, sz) ==
    \/ Unallocated(p) < SlotSize
    \/ ~HeadFits(p, sz) /\ Unallocated(p) - SlotSize < sz

(* What stays of the head of the free list; too small a rest is lost until *)
(* the page is packed.                                                     *)
RestOfHead(head, sz) ==
    IF head.size - sz < FreeMin THEN <<>>
    ELSE << [at |-> head.at + sz, size |-> head.size - sz] >>

(* allocate(): the page and the offset. *)
Allocate(unpacked, sz) ==
    LET p == IF NeedsPacking(unpacked, sz) THEN Defragment(unpacked) ELSE unpacked
    IN  IF HeadFits(p, sz)
        THEN [at |-> Head(p.free).at,
              page |-> [p EXCEPT !.free = RestOfHead(Head(@), sz) \o Tail(@),
                                 !.freeSize = @ - sz]]
        ELSE [at |-> PageSize - (p.bottom + sz),
              page |-> [p EXCEPT !.bottom = @ + sz, !.freeSize = @ - sz]]

Accepts(p, sz) == p.freeSize >= sz + SlotSize

(* insert(), and the header move_from() puts into the block. *)
Inserted(p, pos, block) ==
    LET a == Allocate(p, block.size)
    IN  [a.page EXCEPT !.slots = InsertAt(@, pos, [at |-> a.at, size |-> block.size, ov |-> block.ov]),
                       !.freeSize = @ - SlotSize]

(* set_freeblock() *)
SetFree(p, b) ==
    IF b.at + p.bottom = PageSize
    THEN [p EXCEPT !.bottom = @ - b.size]
    ELSE [p EXCEPT !.free = <<[at |-> b.at, size |-> b.size]>> \o @]

(* erase() without the overflow pages. *)
Erased(p, pos) ==
    SetFree([p EXCEPT !.slots = RemoveAt(@, pos),
                      !.freeSize = @ + SlotSize + p.slots[pos].size],
            p.slots[pos])
-----------------------------------------------------------------------------
Count == MapThenSumSet(LAMBDA p : Len(page[p].slots), 1 .. MaxPage)

Insert(p, pos, d) ==
    /\ Count < MaxItems(data, Cardinality(Live))
    /\ OvPages(d) <= Cardinality(FreeOv)
    /\ Accepts(page[p], SizeRequired(d))
    /\ page' = [page EXCEPT ![p] =
                    Inserted(@, pos, [size |-> SizeRequired(d), ov |-> FirstOv(d)])]
    /\ ov' = WithChain(d)
    /\ UNCHANGED data

Erase(p, pos) ==
    /\ page' = [page EXCEPT ![p] = Erased(@, pos)]
    /\ ov' = ChainFreed(page[p].slots[pos].ov)
    /\ UNCHANGED data

(* split(): from the last block on, while a half of the used bytes is not  *)
(* passed or the upper page has too few, at most down to the third block.  *)
Suffix(p, k) == SizesOf(SubSeq(p.slots, k + 1, Len(p.slots)))
                    + SlotSize * (Len(p.slots) - k)

StopsAt(p, k) ==
    \/ k = MinNum \div 2
    \/ /\ Len(p.slots) - k >= MinNum \div 2
       /\ Suffix(p, k - 1) > UsedSize(p) \div 2

LowerNum(p) == Max({k \in MinNum \div 2 .. Len(p.slots) - 1 : StopsAt(p, k)})

(* Mutant: the bytes of the blocks that leave are not given back. *)
LowerKeepingFree(p, k) == [p EXCEPT !.slots = SubSeq(@, 1, k)]

Lower(p, k) ==
    LET left[n \in 0 .. Len(p.slots) - k] ==
            IF n = 0 THEN p
            ELSE LET q == left[n - 1] IN Erased(q, Len(q.slots))
    IN  left[Len(p.slots) - k]

(* Mutant: the slots are not reversed. *)
UpperReversed(p, k) ==
    [NewPage EXCEPT
        !.slots = [i \in 1 .. Len(p.slots) - k |->
                    [p.slots[Len(p.slots) + 1 - i] EXCEPT !.at =
                        PageSize - SizesOf(SubSeq(p.slots, Len(p.slots) + 1 - i, Len(p.slots)))]],
        !.freeSize = @ - Suffix(p, k),
        !.bottom = Suffix(p, k)]

(* The bottom of the upper page counts the slots, too. *)
Upper(p, k) ==
    [NewPage EXCEPT
        !.slots = [i \in 1 .. Len(p.slots) - k |->
                    [p.slots[k + i] EXCEPT !.at =
                        PageSize - SizesOf(SubSeq(p.slots, k + i, Len(p.slots)))]],
        !.freeSize = @ - Suffix(p, k),
        !.bottom = Suffix(p, k)]

LinkedBack(pages, next, prev) ==
    IF next = 0 THEN pages ELSE [pages EXCEPT ![next].prev = prev]

Split(p) ==
    /\ \E d \in data : ~Accepts(page[p], SizeRequired(d))      \* insert_leaf()
    /\ Len(page[p].slots) >= MinNum
    /\ Live # 1 .. MaxPage
    /\ LET new == Min((1 .. MaxPage) \ Live)
           k == LowerNum(page[p])
       IN  page' = [LinkedBack(page, page[p].next, new) EXCEPT
                        ![new] = [Upper(page[p], k) EXCEPT !.next = page[p].next, !.prev = p],
                        ![p] = [Lower(page[p], k) EXCEPT !.next = new]]
    /\ UNCHANGED <<data, ov>>

(* The conditions under which btree::erase_try_merge() moves a block, or   *)
(* merges if no neighbour can lend.                                        *)
Underflow(p) == p.freeSize > FreeMax \/ Len(p.slots) < MinNum \div 2

(* Mutant: the least number of blocks is not halved. *)
UnderflowIfRemoveWhole(p, pos) ==
    \/ p.freeSize - p.slots[pos].size - SlotSize > FreeMax
    \/ Len(p.slots) - 1 < MinNum

UnderflowIfRemove(p, pos) ==
    \/ p.freeSize - p.slots[pos].size - SlotSize > FreeMax
    \/ Len(p.slots) - 1 < MinNum \div 2

CanLend(p, pos) == p.slots # <<>> /\ ~UnderflowIfRemove(p, pos)

NeedsMerge(p, q) ==
    \/ Underflow(page[p]) /\ ~CanLend(page[q], 1)
    \/ Underflow(page[q]) /\ ~CanLend(page[p], Len(page[p].slots))

SpaceReq(q) == PageSize - q.freeSize - HeaderSize

Merged(p, q) ==
    LET d == Defragment(p)
    IN  [d EXCEPT !.slots = @ \o [i \in DOMAIN q.slots |->
                                    [q.slots[i] EXCEPT !.at =
                                        PageSize - d.bottom - SizesOf(SubSeq(q.slots, 1, i))]],
                  !.bottom = @ + SizesOf(q.slots),
                  !.freeSize = @ - SpaceReq(q),
                  !.next = q.next]

(* merge() of p with the page after it, which the caller then frees. *)
Merge(p) ==
    /\ page[p].next # 0
    /\ LET q == page[p].next IN
          /\ NeedsMerge(p, q)
          /\ SpaceReq(page[q]) <= page[p].freeSize
          /\ page' = [LinkedBack(page, page[q].next, p) EXCEPT
                        ![p] = Merged(page[p], page[q]),
                        ![q] = NoPage]
    /\ UNCHANGED <<data, ov>>

(* move_from() *)
MoveFrom(q, src, p, dest) ==
    LET b == page[q].slots[src]
    IN  /\ page' = [page EXCEPT
                      ![p] = Inserted(@, dest, [size |-> b.size, ov |-> b.ov]),
                      ![q] = Erased(@, src)]
        /\ UNCHANGED <<data, ov>>

TakeNext(p) ==
    /\ page[p].next # 0
    /\ Underflow(page[p])
    /\ CanLend(page[page[p].next], 1)
    /\ MoveFrom(page[p].next, 1, p, Len(page[p].slots) + 1)

TakePrev(p) ==
    /\ page[p].prev # 0
    /\ Underflow(page[p])
    /\ LET q == page[p].prev IN
          /\ CanLend(page[q], Len(page[q].slots))
          /\ MoveFrom(q, Len(page[q].slots), p, 1)

Next ==
    \E p \in Live :
        \/ \E pos \in Places(Len(page[p].slots)) \cap 1 .. Len(page[p].slots) + 1, d \in data : Insert(p, pos, d)
        \/ \E pos \in DOMAIN page[p].slots : Erase(p, pos)
        \/ Split(p) \/ Merge(p) \/ TakeNext(p) \/ TakePrev(p)

Spec == Init /\ [][Next]_vars
-----------------------------------------------------------------------------
Apart(b, c) == b.at + b.size <= c.at \/ c.at + c.size <= b.at

(* What lies in a page besides its header: blocks, free blocks and, one    *)
(* for each block, slots.                                                  *)
Parts(p) ==
    [i \in DOMAIN p.slots |-> [at |-> HeaderSize + SlotSize * (i - 1), size |-> SlotSize]]
        \o p.slots \o p.free

TypeOK ==
    /\ data \in Trees
    /\ \A p \in Live :
          /\ \A b \in Range(page[p].slots) : b.size \in BlockHeader + 1 .. MaxBlock /\ b.ov \in 0 .. MaxOv
          /\ page[p].freeSize \in 0 .. PageSize - HeaderSize
          /\ page[p].bottom \in 0 .. PageSize - HeaderSize
          /\ {page[p].next, page[p].prev} \subseteq Live \cup {0}
    /\ ov \in [1 .. MaxOv -> [size : 0 .. OvSize, next : 0 .. MaxOv]]

(* Nothing in a page overlaps: not two blocks, nor a block and one on the  *)
(* free list, nor the slots and the lowest of them; and blocks lie at the  *)
(* bottom, which ends where the page ends.                                 *)
Disjoint ==
    \A p \in Live : LET parts == Parts(page[p]) IN
        /\ \A i, j \in DOMAIN parts : i < j => Apart(parts[i], parts[j])
        /\ \A b \in Range(page[p].slots \o page[p].free) :
              /\ b.at >= PageSize - page[p].bottom
              /\ b.at + b.size <= PageSize

(* free_size is the page less header, slots and blocks, whatever the free  *)
(* list has lost: the assertion at the end of defragment().                *)
FreeSizeExact ==
    \A p \in Live :
        page[p].freeSize = PageSize - HeaderSize - SizesOf(page[p].slots)
                                - SlotSize * Len(page[p].slots)

(* What is in a page lies apart, and what is left of it is known.          *)
Layout == TypeOK /\ Disjoint /\ FreeSizeExact

Blocks == UNION {{p} \X DOMAIN page[p].slots : p \in Live}

ChainAt(b) == Chain(page[b[1]].slots[b[2]].ov)

(* Every overflow page in use is in the chain of one item and is there     *)
(* once.                                                                   *)
ChainsOwned ==
    \A o \in 1 .. MaxOv : ov[o] # Unused =>
        \E b \in Blocks :
            /\ Cardinality({i \in DOMAIN ChainAt(b) : ChainAt(b)[i] = o}) = 1
            /\ \A c \in Blocks \ {b} : o \notin Range(ChainAt(c))

(* When a page underflows and its neighbour cannot lend, the two fit in    *)
(* one: the assertion after merge() in erase_try_merge().                  *)
MergeFits ==
    \A p \in Live : LET q == page[p].next IN
        q # 0 /\ NeedsMerge(p, q) => SpaceReq(page[q]) <= page[p].freeSize

(* In a tree of blocks of one size a page that refuses a row can be split,   *)
(* and either part then takes it: the assertions of insert_leaf().         *)
SplitMakesRoom ==
    \A d \in data, p \in Live :
        Cardinality({SizeRequired(e) : e \in data}) = 1 /\ ~Accepts(page[p], SizeRequired(d)) =>
            /\ Len(page[p].slots) >= MinNum
            /\ LET k == LowerNum(page[p]) IN
                  /\ Accepts(Lower(page[p], k), SizeRequired(d))
                  /\ Accepts(Upper(page[p], k), SizeRequired(d))

-----------------------------------------------------------------------------
(* The length an item reads back with. *)
Length(b) == LET chain == Chain(b.ov)
             IN  b.size - BlockHeader + SizesOf([i \in DOMAIN chain |-> ov[chain[i]]])

Items(p) == [i \in DOMAIN page[p].slots |-> Length(page[p].slots[i])]

(* The lists of the pages in the order of the chain. *)
InOrder ==
    LET from[p \in Live \cup {0}] ==
            IF p = 0 THEN <<>> ELSE <<Items(p)>> \o from[page[p].next]
    IN  from[CHOOSE p \in Live : page[p].prev = 0]

Lists == INSTANCE ItemLists WITH
    Data   <- UNION Trees,
    Room   <- PageSize - HeaderSize,
    Cost   <- LAMBDA d : SizeRequired(d) + SlotSize,
    lists  <- InOrder

(* A chain of variant pages is a sequence of lists: what was inserted      *)
(* reads back as long as it was and where it was put, through packing,     *)
(* splits, merges and moves, and a page takes an item exactly when its     *)
(* bytes leave room.                                                       *)
ImplementsItemLists == Lists!ListsSpec
=============================================================================
