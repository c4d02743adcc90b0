-------------------------------- MODULE PageFs --------------------------------
(***************************************************************************)
(* The paged file system: page_fs, fid_manager and page_file               *)
(* (src/src/fs).  Several files share one write-back cache of Capacity     *)
(* frames; the recency order is LruOrder's age (LruRing is the linked ring *)
(* behind it).  A page's content is abstracted to the two words the code   *)
(* tells apart: its magic and the word after it, which links free pages.   *)
(*                                                                         *)
(* The callers (B-trees, records) are the environment.  They reach pages   *)
(* only through the raw pointers read() and read_for_write() return and    *)
(* keep one across further calls; ptr is such a pointer.  live holds the   *)
(* pages of a file its callers own: allocated and not yet freed.           *)
(***************************************************************************)
EXTENDS LruOrder, Sequences

CONSTANTS
    MaxFid,     \* MAX_FILE_ID
    MaxPage,    \* bound: pages per file
    File,       \* file names
    Value,      \* magics of pages in use
    Zero,       \* the magic of a page of zero bytes
    FreeBlock,  \* PAGE_FREEBLOCK
    NoFile,     \* no open FILE*
    Absent,     \* a name with no file on disk
    NoPtr,      \* the callers hold no pointer
    Reopen,     \* may a file be opened after another one was closed?
    Restarts,   \* bound: is the process started again after its end?
    Flushes     \* bound: do callers use flush()?  None in src/ does.

ASSUME PageFsAssumption ==
    /\ MaxFid \in Nat \ {0}
    /\ MaxPage \in Nat \ {0}
    /\ Zero \in Value
    /\ FreeBlock \notin Value
    /\ NoFile \notin File
    /\ Reopen \in BOOLEAN
    /\ Restarts \in BOOLEAN
    /\ Flushes \in BOOLEAN

VARIABLES
    freeFids,    \* fid_manager::free, the stack of file ids; its top is last
    used,        \* fid_manager::used
    fileOf,      \* page_fs::files
    fileInfo,    \* page_fs::file_info
    disk,        \* the files: header page, pages before the end
    page2index,  \* page_fs::page2index
    index2page,  \* page_fs::index2page
    dirty,       \* page_fs::dirty
    buffer,      \* page_fs::buffer
    live,        \* per name, the pages its callers own
    ptr,         \* the pointer the callers hold
    closed       \* a file has been closed in this process

fidVars   == <<freeFids, used, fileOf>>
cacheVars == <<age, page2index, index2page, dirty, buffer>>
vars == <<fidVars, cacheVars, fileInfo, disk, live, ptr, closed>>

Fid    == 1 .. MaxFid
PageId == 1 .. MaxPage
Key    == Fid \X PageId
NoKey  == <<0, 0>>
NoFrame == -1
Page   == [magic : Value \cup {FreeBlock}, next : 0 .. MaxPage]
Header == [page_num : 0 .. MaxPage, first_freepage : 0 .. MaxPage]
Disk   == [hdr : Header, extent : SUBSET PageId, pages : [PageId -> Page]]

ZeroPage    == [magic |-> Zero, next |-> 0]
EmptyHeader == [page_num |-> 0, first_freepage |-> 0]
NewFile     == [hdr |-> EmptyHeader, extent |-> {},
                pages |-> [p \in PageId |-> ZeroPage]]

ASSUME AbsentAssumption == Absent \notin Disk

IsOpen(f) == \E h \in used : fileOf[h] = f
Opened(h) == h \in used /\ fileOf[h] # NoFile

Init ==
    /\ freeFids = [i \in Fid |-> MaxFid + 1 - i]
    /\ used = {}
    /\ fileOf = [h \in Fid |-> NoFile]
    /\ fileInfo = [h \in Fid |-> EmptyHeader]
    /\ disk = [f \in File |-> Absent]
    /\ LruInit
    /\ page2index = [k \in Key |-> NoFrame]
    /\ index2page = [i \in Frame |-> NoKey]
    /\ dirty = [i \in Frame |-> FALSE]
    /\ buffer = [i \in Frame |-> ZeroPage]
    /\ live = [f \in File |-> {}]
    /\ ptr = NoPtr
    /\ closed = FALSE

-----------------------------------------------------------------------------
(* read() and read_for_write(): find page k in the cache, or evict the     *)
(* least recently used frame (writing it back when dirty) and load k into  *)
(* it from d, the disk as the caller leaves it.  w marks the frame dirty;  *)
(* new is what the caller stores through the pointer at once.              *)

Keep == [magic |-> FreeBlock, next |-> -1]    \* stores nothing

WriteFrame(d, i) ==
    LET f == fileOf[index2page[i][1]]
        p == index2page[i][2]
    IN  [d EXCEPT ![f].pages[p] = buffer[i], ![f].extent = @ \cup 1 .. p]

(* write_page_to_file() called by free_last_cache().                       *)
(* Mutant: the dirty page is dropped without being written.                *)
EvictedUnwritten(d) == d

Evicted(d) ==
    IF index2page[Victim] # NoKey /\ dirty[Victim]
    THEN WriteFrame(d, Victim) ELSE d

Written(old, new) == IF new = Keep THEN old ELSE new

(* fread() of page k into frame i; past the end of the file it reads       *)
(* nothing and the frame keeps what it held.                               *)
Loaded(d, k, i) ==
    LET file == d[fileOf[k[1]]]
    IN  IF k[2] \in file.extent THEN file.pages[k[2]] ELSE buffer[i]

(* page2index once frame i holds page k instead of what it held.           *)
(* Mutant: the page that leaves the frame is not erased.                   *)
RemappedKeepingOld(k, i) == [page2index EXCEPT ![k] = i]

Remapped(k, i) ==
    [q \in Key |-> IF q = k THEN i
                   ELSE IF q = index2page[i] THEN NoFrame
                   ELSE page2index[q]]

Hit(k, d, w, new) ==
    LET i == page2index[k] IN
    /\ i # NoFrame
    /\ age' = Touched(i)
    /\ dirty' = [dirty EXCEPT ![i] = @ \/ w]
    /\ buffer' = [buffer EXCEPT ![i] = Written(@, new)]
    /\ disk' = d
    /\ UNCHANGED <<page2index, index2page>>

Miss(k, d, w, new) ==
    LET i  == Victim
        d2 == Evicted(d)
    IN  /\ page2index[k] = NoFrame
        /\ age' = Touched(i)
        /\ dirty' = [dirty EXCEPT ![i] = w]
        /\ page2index' = Remapped(k, i)
        /\ index2page' = [index2page EXCEPT ![i] = k]
        /\ disk' = d2
        /\ buffer' = [buffer EXCEPT ![i] = Written(Loaded(d2, k, i), new)]

Access(k, d, w, new) == Hit(k, d, w, new) \/ Miss(k, d, w, new)

(* ptr.since counts the accesses to other pages since ptr was taken, up to *)
(* Capacity.                                                               *)
AgedPtr(k) ==
    IF ptr = NoPtr \/ ptr.key = k \/ ptr.since = Capacity THEN ptr
    ELSE [ptr EXCEPT !.since = @ + 1]

PtrAfterDrop(gone) ==    \* callers forget pointers to pages they gave up
    IF ptr # NoPtr /\ ptr.key \in gone THEN NoPtr ELSE ptr
-----------------------------------------------------------------------------
(* open(): a new file gets a zeroed header page, an old one's is read.     *)
(* The other outcomes of the call, a failed fopen and no file id left, are *)
(* OpenFails and no step at all.                                           *)
Open(f) ==
    /\ Reopen \/ ~closed
    /\ freeFids # <<>>
    /\ ~IsOpen(f)
    /\ LET h == freeFids[Len(freeFids)]
           header == IF disk[f] = Absent THEN EmptyHeader ELSE disk[f].hdr
       IN  /\ freeFids' = SubSeq(freeFids, 1, Len(freeFids) - 1)
           /\ used' = used \cup {h}
           /\ fileOf' = [fileOf EXCEPT ![h] = f]
           /\ fileInfo' = [fileInfo EXCEPT ![h] = header]
    /\ disk' = IF disk[f] # Absent THEN disk
               ELSE [disk EXCEPT ![f] = NewFile]
    /\ UNCHANGED <<cacheVars, live, ptr, closed>>

(* open() when fopen fails: the file id it took is not given back. *)
OpenFails ==
    /\ freeFids # <<>>
    /\ LET h == freeFids[Len(freeFids)]
       IN  /\ freeFids' = SubSeq(freeFids, 1, Len(freeFids) - 1)
           /\ used' = used \cup {h}
    /\ UNCHANGED <<fileOf, fileInfo, disk, cacheVars, live, ptr, closed>>

(* writeback(): the dirty frames of the file go to disk and leave the      *)
(* cache, the clean ones stay where they are, and the header is written.   *)
Flushed(h) == {i \in Frame : index2page[i][1] = h /\ dirty[i]}

(* The frames that leave the cache.  Mutant: they are written and kept.    *)
DroppedNone(h) == {}

Dropped(h) == Flushed(h)

Writeback(h) ==
    LET f == fileOf[h]
        keys == {index2page[i] : i \in Flushed(h)}
        pageOf(p) == buffer[page2index[<<h, p>>]]
    IN  /\ disk' = [disk EXCEPT
               ![f] = [hdr |-> fileInfo[h],
                       extent |-> @.extent \cup UNION {1 .. k[2] : k \in keys},
                       pages |-> [p \in PageId |->
                                    IF <<h, p>> \in keys THEN pageOf(p)
                                    ELSE @.pages[p]]]]
        /\ page2index' = [k \in Key |->
                            IF \E i \in Dropped(h) : index2page[i] = k
                            THEN NoFrame ELSE page2index[k]]
        /\ index2page' = [i \in Frame |-> IF i \in Dropped(h) THEN NoKey
                                          ELSE index2page[i]]
        /\ UNCHANGED <<age, dirty, buffer>>

(* page_file::flush() *)
Flush(h) ==
    /\ Flushes
    /\ Opened(h)
    /\ Writeback(h)
    /\ ptr' = PtrAfterDrop({h} \X PageId)
    /\ UNCHANGED <<fidVars, fileInfo, live, closed>>

Close(h) ==
    /\ Opened(h)
    /\ Writeback(h)
    /\ freeFids' = Append(freeFids, h)
    /\ used' = used \ {h}
    /\ fileOf' = [fileOf EXCEPT ![h] = NoFile]
    /\ ptr' = PtrAfterDrop({h} \X PageId)
    /\ closed' = TRUE
    /\ UNCHANGED <<fileInfo, live>>

(* The process ends, every file closed, and a new one starts with an empty *)
(* cache.                                                                  *)
Restart ==
    /\ Restarts
    /\ used = {}
    /\ freeFids' = [i \in Fid |-> MaxFid + 1 - i]
    /\ fileInfo' = [h \in Fid |-> EmptyHeader]
    /\ age' = [i \in Frame |-> i]
    /\ page2index' = [k \in Key |-> NoFrame]
    /\ index2page' = [i \in Frame |-> NoKey]
    /\ dirty' = [i \in Frame |-> FALSE]
    /\ buffer' = [i \in Frame |-> ZeroPage]
    /\ closed' = FALSE
    /\ UNCHANGED <<used, fileOf, disk, live, ptr>>

(* std::remove on a table's data file, once table_manager::drop closed it. *)
Remove(f) ==
    /\ ~IsOpen(f)
    /\ disk[f] # Absent
    /\ disk' = [disk EXCEPT ![f] = Absent]
    /\ live' = [live EXCEPT ![f] = {}]
    /\ UNCHANGED <<fidVars, fileInfo, cacheVars, ptr, closed>>
-----------------------------------------------------------------------------
(* read() without keeping the pointer: a plain access. *)
ReadPage(h, p) ==
    /\ Opened(h)
    /\ p \in live[fileOf[h]]
    /\ Access(<<h, p>>, disk, FALSE, Keep)
    /\ ptr' = AgedPtr(<<h, p>>)
    /\ UNCHANGED <<fidVars, fileInfo, live, closed>>

(* read(), or read_for_write() when w: the caller keeps the pointer.       *)
TakePtr(h, p, w) ==
    /\ Opened(h)
    /\ p \in live[fileOf[h]]
    /\ Access(<<h, p>>, disk, w, Keep)
    /\ ptr' = [key |-> <<h, p>>, frame |-> page2index'[<<h, p>>],
               w |-> w, since |-> 0]
    /\ UNCHANGED <<fidVars, fileInfo, live, closed>>

(* mark_dirty().  Mutant: the call is forgotten. *)
NotMarked(k) == dirty

Marked(k) == [dirty EXCEPT ![page2index[k]] = TRUE]

(* The caller stores through its pointer; a pointer from read() is followed *)
(* by mark_dirty() (record_manager::write, erase_try_merge).  The callers   *)
(* keep a pointer only while they access fewer than Capacity other pages.   *)
WritePtr(v) ==
    /\ ptr # NoPtr
    /\ ptr.since < Capacity
    /\ buffer' = [buffer EXCEPT ![ptr.frame] = [magic |-> v, next |-> 0]]
    /\ dirty' = IF ptr.w THEN dirty ELSE Marked(ptr.key)
    /\ UNCHANGED <<fidVars, fileInfo, disk, age, page2index, index2page,
                   live, ptr, closed>>

(* allocate(): append a zero page, or take the head of the free list, whose *)
(* successor is read from the page through the cache.                       *)
AllocateNew(h) ==
    LET f == fileOf[h]
        p == fileInfo[h].page_num + 1
    IN  /\ Opened(h)
        /\ fileInfo[h].first_freepage = 0
        /\ p <= MaxPage
        /\ fileInfo' = [fileInfo EXCEPT ![h].page_num = p]
        /\ \E end \in PageId :
              /\ disk[f].extent = 1 .. end - 1
              /\ Access(<<h, p>>,
                        [disk EXCEPT ![f].extent = 1 .. end,
                                     ![f].pages[end] = ZeroPage],
                        FALSE, Keep)
        /\ live' = [live EXCEPT ![f] = @ \cup {p}]
        /\ ptr' = AgedPtr(<<h, p>>)
        /\ UNCHANGED <<fidVars, closed>>

AllocateFree(h) ==
    LET f == fileOf[h]
        p == fileInfo[h].first_freepage
    IN  /\ Opened(h)
        /\ p # 0
        /\ Access(<<h, p>>, disk, FALSE, Keep)
        /\ fileInfo' = [fileInfo EXCEPT ![h].first_freepage =
                          buffer'[page2index'[<<h, p>>]].next]
        /\ live' = [live EXCEPT ![f] = @ \cup {p}]
        /\ ptr' = AgedPtr(<<h, p>>)
        /\ UNCHANGED <<fidVars, closed>>

(* The two words deallocate() stores in a page.  Mutant: the rest of the   *)
(* free list is dropped.                                                   *)
FreeLinkLast(h) == [magic |-> FreeBlock, next |-> 0]

FreeLink(h) == [magic |-> FreeBlock, next |-> fileInfo[h].first_freepage]

(* deallocate(): link the page in front of the free list. *)
Deallocate(h, p) ==
    LET f == fileOf[h] IN
    /\ Opened(h)
    /\ p \in live[f]
    /\ Access(<<h, p>>, disk, TRUE, FreeLink(h))
    /\ fileInfo' = [fileInfo EXCEPT ![h].first_freepage = p]
    /\ live' = [live EXCEPT ![f] = @ \ {p}]
    /\ ptr' = IF ptr # NoPtr /\ ptr.key = <<h, p>> THEN NoPtr
              ELSE AgedPtr(<<h, p>>)
    /\ UNCHANGED <<fidVars, closed>>

PageNext ==
    \E h \in Fid :
        \/ Flush(h)
        \/ Close(h)
        \/ AllocateNew(h)
        \/ AllocateFree(h)
        \/ \E p \in PageId :
              \/ ReadPage(h, p)
              \/ \E w \in BOOLEAN : TakePtr(h, p, w)
              \/ Deallocate(h, p)

Next ==
    \/ \E f \in File : Open(f) \/ Remove(f)
    \/ OpenFails
    \/ Restart
    \/ PageNext
    \/ \E v \in Value \ {Zero} : WritePtr(v)

Spec == Init /\ [][Next]_vars
-----------------------------------------------------------------------------
PtrType == [key : Key, frame : Frame, w : BOOLEAN, since : 0 .. Capacity]

TypeOK ==
    /\ age \in [Frame -> Frame]
    /\ freeFids \in Seq(Fid)
    /\ used \in SUBSET Fid
    /\ fileOf \in [Fid -> File \cup {NoFile}]
    /\ fileInfo \in [Fid -> Header]
    /\ disk \in [File -> Disk \cup {Absent}]
    /\ page2index \in [Key -> Frame \cup {NoFrame}]
    /\ index2page \in [Frame -> Key \cup {NoKey}]
    /\ dirty \in [Frame -> BOOLEAN]
    /\ buffer \in [Frame -> Page]
    /\ live \in [File -> SUBSET PageId]
    /\ ptr \in PtrType \cup {NoPtr}
    /\ closed \in BOOLEAN

(* page2index and index2page stay inverse to each other through every      *)
(* eviction, close and reload, so a page is never in two frames and the    *)
(* find() results the code erases without a test always exist.             *)
MapsInverse ==
    /\ \A k \in Key : page2index[k] # NoFrame => index2page[page2index[k]] = k
    /\ \A i \in Frame : index2page[i] # NoKey => page2index[index2page[i]] = i

(* free_last_cache() and writeback() write dirty frames through            *)
(* files[key.first] at page key.second; write_page_to_file() asserts the   *)
(* file id is in use and the page exists.  Every dirty frame satisfies it. *)
DirtyWritable ==
    \A i \in Frame : index2page[i] # NoKey /\ dirty[i] =>
        /\ Opened(index2page[i][1])
        /\ index2page[i][2] \in 1 .. fileInfo[index2page[i][1]].page_num

(* The unpinned-pointer contract: while a caller has accessed fewer than   *)
(* Capacity other pages since it took a pointer, the pointer still points  *)
(* into the frame of its page, and that frame will be written back if the  *)
(* pointer came from read_for_write().                                     *)
PtrInWindow ==
    ptr # NoPtr /\ ptr.since < Capacity =>
        /\ page2index[ptr.key] = ptr.frame
        /\ ptr.w => dirty[ptr.frame]

(* The structure the maps, the ids and the recency order keep whatever is   *)
(* opened, closed or reused: the inductive invariant behind TypeOK,        *)
(* MapsInverse and PtrInWindow.                                            *)
AgePerm ==      \* the recency order is a permutation of the frames
    /\ \A a \in Frame : \E i \in Frame : age[i] = a
    /\ \A i, j \in Frame : age[i] = age[j] => i = j

FidStack ==     \* a free file id is free once, and not in use
    /\ \A m, n \in 1 .. Len(freeFids) : freeFids[m] = freeFids[n] => m = n
    /\ \A m \in 1 .. Len(freeFids) : freeFids[m] \notin used

OpenFiles ==    \* a file is open once, and it is there
    \A h \in Fid : fileOf[h] # NoFile =>
        /\ h \in used
        /\ disk[fileOf[h]] # Absent
        /\ \A g \in Fid : fileOf[g] = fileOf[h] => g = h

DirtyOpen ==    \* free_last_cache() never writes through a closed FILE*
    \A i \in Frame : index2page[i] # NoKey /\ dirty[i] =>
        Opened(index2page[i][1])

PtrAge ==       \* why the pointer survives: its frame cannot be the victim
    ptr # NoPtr =>
        /\ Opened(ptr.key[1])
        /\ ptr.since < Capacity =>
              /\ page2index[ptr.key] = ptr.frame
              /\ age[ptr.frame] <= ptr.since
              /\ ptr.w => dirty[ptr.frame]

Structure ==
    /\ TypeOK
    /\ AgePerm
    /\ MapsInverse
    /\ FidStack
    /\ OpenFiles
    /\ DirtyOpen
    /\ PtrAge

(* The pages a caller would see, and the free list as it would see it.     *)
View(h, p) ==
    LET i == page2index[<<h, p>>] IN
    IF i # NoFrame THEN buffer[i] ELSE disk[fileOf[h]].pages[p]

(* Coherence: a clean cached page of an open file is the page on disk.     *)
CleanIsOnDisk ==
    \A i \in Frame :
        index2page[i] # NoKey /\ ~dirty[i] /\ Opened(index2page[i][1]) =>
            LET f == fileOf[index2page[i][1]]
                p == index2page[i][2]
            IN  p \in disk[f].extent /\ buffer[i] = disk[f].pages[p]

FreeChain(h) ==
    LET c[n \in 1 .. MaxPage] ==
          LET p == IF n = 1 THEN fileInfo[h].first_freepage ELSE c[n - 1]
          IN  IF n = 1 \/ p = 0 THEN p ELSE View(h, p).next
    IN  c

(* The free list of an open file holds exactly the pages its callers do    *)
(* not own, each once: no page is lost, none is handed out twice.          *)
FreeListExact ==
    \A h \in Fid : Opened(h) =>
        LET free == {p \in PageId : \E n \in PageId : FreeChain(h)[n] = p}
            owned == live[fileOf[h]]
        IN  /\ free \cap owned = {}
            /\ free \cup owned = 1 .. fileInfo[h].page_num
            /\ \A m, n \in PageId :
                  m # n /\ FreeChain(h)[m] # 0 => FreeChain(h)[m] # FreeChain(h)[n]

(* The store the callers see, through the cache while a file is open and   *)
(* on disk once it is closed, behaves like one with no cache at all: every *)
(* step changes only what its operation is for, eviction, flush, close and *)
(* restart change nothing.                                                 *)
HandleOf(f) == CHOOSE h \in used : fileOf[h] = f

Seen(f, p) == IF IsOpen(f) THEN View(HandleOf(f), p) ELSE disk[f].pages[p]

Store == INSTANCE PageStore WITH
    Content <- Value \cup {FreeBlock},
    Stored  <- Value \ {Zero},
    content <- [f \in File |-> [p \in live[f] |-> Seen(f, p).magic]]

ImplementsPageStore == Store!StoreSpec
=============================================================================
