----------------------------- MODULE PageFsProofs -----------------------------
(***************************************************************************)
(* Proofs about the paged file system, for any number of frames, file ids, *)
(* pages and files.                                                        *)
(*                                                                         *)
(* First its structure: the maps between frames and pages, the file ids,   *)
(* the callers' pointers.  Then what the cache holds: a clean page is the  *)
(* page on disk, and a dirty one can be written.  The second part assumes  *)
(* that no file is opened once another was closed (Reopen = FALSE), since  *)
(* the frames of the closed file stay in the cache under its id.           *)
(***************************************************************************)
EXTENDS PageFs, SequenceTheorems, Induction

(* The victim exists: a permutation of the frames has a last one. *)
LEMMA VictimExists ==
    ASSUME age \in [Frame -> Frame], AgePerm
    PROVE  Victim \in Frame /\ age[Victim] = Capacity - 1
<1>1. Capacity - 1 \in Frame
    BY CapacityAssumption DEF Frame
<1>2. \E i \in Frame : age[i] = Capacity - 1
    BY <1>1 DEF AgePerm
<1>. QED
    BY <1>2 DEF Victim

(* access(i) leaves a permutation, with i in front and every other frame   *)
(* at most one place further back.                                         *)
LEMMA TouchedIsPermutation ==
    ASSUME age \in [Frame -> Frame], AgePerm,
           NEW i \in Frame, age' = Touched(i)
    PROVE  /\ age' \in [Frame -> Frame]
           /\ AgePerm'
           /\ age'[i] = 0
           /\ \A j \in Frame : age'[j] <= age[j] + 1
<1>. USE CapacityAssumption
<1>0. /\ \A j \in Frame : age[j] \in 0 .. Capacity - 1
      /\ 0 \in Frame
    BY DEF Frame
<1>1. \A j \in Frame :
          age'[j] = IF j = i THEN 0
                    ELSE IF age[j] < age[i] THEN age[j] + 1 ELSE age[j]
    BY DEF Touched
<1>2. /\ age' = [j \in Frame |-> age'[j]]
      /\ age'[i] = 0
      /\ \A j \in Frame : age'[j] <= age[j] + 1
      /\ \A j \in Frame : age'[j] \in 0 .. Capacity - 1
    BY <1>0, <1>1 DEF Touched
<1>3. ASSUME NEW a \in Frame PROVE \E j \in Frame : age'[j] = a
    <2>0. a \in Int /\ a >= 0
        BY DEF Frame
    <2>1. CASE a = 0
        BY <2>1, <1>2
    <2>2. CASE a # 0 /\ a <= age[i]
        <3>1. a - 1 \in Frame
            BY <2>2 DEF Frame
        <3>2. PICK j \in Frame : age[j] = a - 1
            BY <3>1 DEF AgePerm
        <3>3. j # i /\ age[j] < age[i]
            BY <3>2, <2>2, <2>0, <1>0
        <3>4. age'[j] = a
            BY <3>2, <3>3, <1>1, <2>0
        <3>. QED
            BY <3>4
    <2>3. CASE a > age[i]
        <3>1. PICK j \in Frame : age[j] = a
            BY DEF AgePerm
        <3>2. j # i /\ ~(age[j] < age[i])
            BY <3>1, <2>3, <2>0, <1>0
        <3>3. age'[j] = a
            BY <3>1, <3>2, <1>1
        <3>. QED
            BY <3>3
    <2>. QED
        BY <2>1, <2>2, <2>3, <2>0, <1>0
<1>4. ASSUME NEW j \in Frame, NEW l \in Frame, age'[j] = age'[l]
      PROVE  j = l
    <2>1. age[j] = age[l] => j = l
        BY DEF AgePerm
    <2>2. age[j] = age[i] => j = i
        BY DEF AgePerm
    <2>3. age[l] = age[i] => l = i
        BY DEF AgePerm
    <2>. QED
        BY <2>1, <2>2, <2>3, <1>4, <1>0, <1>1
<1>. QED
    BY <1>2, <1>3, <1>4 DEF AgePerm, Frame

-----------------------------------------------------------------------------
(* What an access keeps of the parts of Structure it can disturb. *)
CacheType ==
    /\ age \in [Frame -> Frame]
    /\ page2index \in [Key -> Frame \cup {NoFrame}]
    /\ index2page \in [Frame -> Key \cup {NoKey}]
    /\ dirty \in [Frame -> BOOLEAN]
    /\ buffer \in [Frame -> Page]

DiskType(d) ==
    /\ d \in [File -> Disk \cup {Absent}]
    /\ \A f \in File : disk[f] # Absent => d[f] # Absent

(* The values that stand for no frame, no page and no store are none.       *)
LEMMA NullFacts ==
    /\ NoFrame \notin Frame
    /\ NoKey \notin Key
    /\ Keep \notin Page
BY DEF NoFrame, Frame, NoKey, Key, Fid, Keep, Page

(* Writing a dirty victim back gives a disk again: its file is open, hence *)
(* there.                                                                  *)
LEMMA EvictedIsDisk ==
    ASSUME Structure, NEW d, DiskType(d)
    PROVE  DiskType(Evicted(d))
<1>1. Victim \in Frame
    BY VictimExists DEF Structure, TypeOK
<1>2. CASE index2page[Victim] # NoKey /\ dirty[Victim]
    <2> DEFINE h == index2page[Victim][1]
               p == index2page[Victim][2]
               f == fileOf[h]
    <2>1. h \in Fid /\ p \in PageId
        BY <1>1, <1>2 DEF Structure, TypeOK, Key
    <2>2. f # NoFile /\ f \in File
        BY <1>1, <1>2, <2>1 DEF Structure, DirtyOpen, Opened, TypeOK
    <2>3. d[f] \in Disk
        BY <2>1, <2>2 DEF Structure, OpenFiles, DiskType
    <2>4. buffer[Victim] \in Page
        BY <1>1 DEF Structure, TypeOK
    <2>5. 1 .. p \in SUBSET PageId
        BY <2>1, PageFsAssumption DEF PageId
    <2> DEFINE e == [d[f] EXCEPT !.pages[p] = buffer[Victim],
                                 !.extent = @ \cup 1 .. p]
    <2>6. e \in Disk
        BY <2>1, <2>3, <2>4, <2>5 DEF Disk
    <2>7. WriteFrame(d, Victim) = [d EXCEPT ![f] = e]
        BY <2>2, <2>3 DEF WriteFrame, DiskType, Disk
    <2>8. e # Absent
        BY <2>6, AbsentAssumption
    <2>. QED
        BY <1>2, <2>2, <2>6, <2>7, <2>8 DEF Evicted, DiskType
<1>3. CASE ~(index2page[Victim] # NoKey /\ dirty[Victim])
    BY <1>3 DEF Evicted
<1>. QED
    BY <1>2, <1>3

(* A frame whose page is not the victim's page keeps it. *)
PageKept(k, q) ==
    LET i == page2index[q] IN
    i \in Frame /\ (q = k \/ age[i] # Capacity - 1) =>
        /\ page2index'[q] = i
        /\ age'[i] <= age[i] + 1
        /\ q = k => age'[i] = 0
        /\ dirty[i] => dirty'[i]

(* read() and read_for_write(), in the cache or not, keep the cache's      *)
(* structure, put page k in front, and move no page but the victim's.      *)
LEMMA AccessKeepsStructure ==
    ASSUME Structure, UNCHANGED fidVars,
           NEW k \in Key, Opened(k[1]),
           NEW d, DiskType(d), NEW w \in BOOLEAN, NEW new \in Page \cup {Keep},
           Access(k, d, w, new)
    PROVE  /\ CacheType'
           /\ DiskType(disk')
           /\ AgePerm' /\ MapsInverse' /\ DirtyOpen'
           /\ page2index'[k] \in Frame
           /\ age'[page2index'[k]] = 0
           /\ w => dirty'[page2index'[k]]
           /\ \A q \in Key : PageKept(k, q)
<1>. USE NullFacts
<1>0. CacheType /\ AgePerm /\ MapsInverse /\ DirtyOpen
    BY DEF Structure, TypeOK, CacheType
<1>1. CASE Hit(k, d, w, new)
    <2> DEFINE i == page2index[k]
    <2>1. i \in Frame
        BY <1>0, <1>1 DEF Hit, CacheType
    <2>2. age' = Touched(i)
        BY <1>1 DEF Hit
    <2>3. /\ age' \in [Frame -> Frame] /\ AgePerm' /\ age'[i] = 0
          /\ \A j \in Frame : age'[j] <= age[j] + 1
        BY <1>0, <2>1, <2>2, TouchedIsPermutation DEF CacheType
    <2>4. /\ buffer' \in [Frame -> Page] /\ dirty' \in [Frame -> BOOLEAN]
          /\ \A j \in Frame : dirty[j] => dirty'[j]
          /\ w => dirty'[i]
          /\ \A j \in Frame : dirty'[j] => dirty[j] \/ j = i
        BY <1>0, <1>1, <2>1 DEF Hit, CacheType, Written
    <2>5. page2index' = page2index /\ index2page' = index2page /\ disk' = d
        BY <1>1 DEF Hit
    <2>6. index2page[i] = k
        BY <1>0, <2>1 DEF MapsInverse
    <2>7. DirtyOpen'
        BY <1>0, <2>1, <2>4, <2>5, <2>6 DEF DirtyOpen, Opened, fidVars, CacheType
    <2>. QED
        BY <1>0, <2>1, <2>3, <2>4, <2>5, <2>7
        DEF CacheType, MapsInverse, PageKept, DiskType
<1>2. CASE Miss(k, d, w, new)
    <2> DEFINE i == Victim
    <2>1. i \in Frame /\ age[i] = Capacity - 1
        BY <1>0, VictimExists DEF CacheType
    <2>2. age' = Touched(i) /\ page2index[k] = NoFrame
        BY <1>2 DEF Miss
    <2>3. /\ age' \in [Frame -> Frame] /\ AgePerm' /\ age'[i] = 0
          /\ \A j \in Frame : age'[j] <= age[j] + 1
        BY <1>0, <2>1, <2>2, TouchedIsPermutation DEF CacheType
    <2>4. disk' = Evicted(d) /\ DiskType(disk')
        BY <1>2, EvictedIsDisk DEF Miss
    <2>5. Loaded(disk', k, i) \in Page
        <3>1. fileOf[k[1]] \in File /\ k[2] \in PageId /\ k[1] \in Fid
            BY DEF Opened, Structure, TypeOK, Key
        <3>2. disk'[fileOf[k[1]]] \in Disk
            BY <2>4, <3>1 DEF DiskType, Structure, OpenFiles, Opened
        <3>. QED
            BY <1>0, <2>1, <3>1, <3>2 DEF Loaded, Disk, CacheType
    <2>6. /\ buffer' \in [Frame -> Page] /\ dirty' \in [Frame -> BOOLEAN]
          /\ \A j \in Frame : j # i => dirty'[j] = dirty[j]
          /\ w => dirty'[i]
        BY <1>0, <1>2, <2>1, <2>4, <2>5 DEF Miss, CacheType, Written
    <2>7. /\ page2index' = Remapped(k, i)
          /\ index2page' = [index2page EXCEPT ![i] = k]
        BY <1>2 DEF Miss
    <2>8. /\ page2index' \in [Key -> Frame \cup {NoFrame}]
          /\ index2page' \in [Frame -> Key \cup {NoKey}]
        BY <1>0, <2>1, <2>7 DEF CacheType, Remapped
    <2>9. MapsInverse'
        BY <1>0, <2>1, <2>2, <2>7, <2>8 DEF MapsInverse, CacheType, Remapped
    <2>10. DirtyOpen'
        BY <1>0, <2>1, <2>6, <2>7 DEF DirtyOpen, Opened, fidVars, CacheType
    <2>11. ASSUME NEW q \in Key PROVE PageKept(k, q)
        <3>1. page2index[q] \in Frame /\ age[page2index[q]] # Capacity - 1
              => index2page[i] # q /\ page2index[q] # i
            BY <1>0, <2>1 DEF MapsInverse, CacheType
        <3>. QED
            BY <1>0, <2>1, <2>2, <2>3, <2>6, <2>7, <3>1
            DEF PageKept, Remapped, CacheType
    <2>12. page2index'[k] = i
        BY <2>7 DEF Remapped
    <2>. QED
        BY <2>1, <2>3, <2>4, <2>6, <2>8, <2>9, <2>10, <2>11, <2>12 DEF CacheType
<1>. QED
    BY <1>1, <1>2 DEF Access

(* The pointer a caller holds while another page is accessed. *)
LEMMA PtrOutlivesAccess ==
    ASSUME Structure, UNCHANGED fidVars,
           NEW k \in Key, \A q \in Key : PageKept(k, q),
           CacheType', ptr' = AgedPtr(k)
    PROVE  PtrAge' /\ ptr' \in PtrType \cup {NoPtr}
<1>0. ptr # NoPtr => /\ ptr \in PtrType
                     /\ ptr.key \in Key /\ ptr.frame \in Frame
                     /\ ptr.since \in 0 .. Capacity
    BY DEF Structure, TypeOK, PtrType
<1>1. CASE ptr = NoPtr
    BY <1>1 DEF AgedPtr, PtrAge
<1>2. CASE ptr # NoPtr /\ (ptr.key = k \/ ptr.since = Capacity)
    <2>1. ptr' = ptr
        BY <1>2 DEF AgedPtr
    <2>2. ptr.since < Capacity => PageKept(k, ptr.key) /\ ptr.key = k
        BY <1>0, <1>2, CapacityAssumption
    <2>. QED
        BY <1>0, <1>2, <2>1, <2>2 DEF PtrAge, PageKept, Structure, Opened, fidVars
<1>3. CASE ptr # NoPtr /\ ptr.key # k /\ ptr.since # Capacity
    <2>1. ptr' = [ptr EXCEPT !.since = ptr.since + 1]
        BY <1>3 DEF AgedPtr
    <2>2. /\ ptr' \in PtrType
          /\ ptr'.key = ptr.key /\ ptr'.frame = ptr.frame
          /\ ptr'.w = ptr.w /\ ptr'.since = ptr.since + 1
        BY <1>0, <1>3, <2>1, CapacityAssumption DEF PtrType
    <2>3. /\ page2index[ptr.key] = ptr.frame
          /\ age[ptr.frame] <= ptr.since
          /\ ptr.w => dirty[ptr.frame]
          /\ Opened(ptr.key[1])
        <3>1. ptr.since < Capacity
            BY <1>0, <1>3, CapacityAssumption
        <3>. QED
            BY <1>3, <3>1 DEF Structure, PtrAge
    <2>4. age[ptr.frame] \in Int /\ age'[ptr.frame] \in Int
        <3>1. age \in [Frame -> Frame] /\ age' \in [Frame -> Frame]
            BY DEF Structure, TypeOK, CacheType
        <3>2. age[ptr.frame] \in Frame /\ age'[ptr.frame] \in Frame
            BY <1>0, <1>3, <3>1
        <3>. QED
            BY <3>2 DEF Frame
    <2>5. ptr'.since < Capacity =>
              /\ page2index'[ptr.key] = ptr.frame
              /\ age'[ptr.frame] <= age[ptr.frame] + 1
              /\ dirty[ptr.frame] => dirty'[ptr.frame]
        BY <1>0, <1>3, <2>2, <2>3, <2>4, CapacityAssumption DEF PageKept
    <2>6. Opened(ptr.key[1])'
        BY <2>2, <2>3 DEF Opened, fidVars
    <2>7. age[ptr.frame] <= ptr.since /\ ptr.since \in Int
        BY <1>0, <1>3, <2>3
    <2>8. ptr'.since < Capacity => age'[ptr.frame] <= ptr'.since
        BY <2>2, <2>4, <2>5, <2>7
    <2>. QED
        BY <2>2, <2>3, <2>5, <2>6, <2>8 DEF PtrAge, Opened
<1>. QED
    BY <1>1, <1>2, <1>3

(* Every action that accesses a page, ages or replaces the pointer and     *)
(* leaves the file ids alone keeps the structure.                          *)
LEMMA AccessStep ==
    ASSUME Structure, UNCHANGED <<fidVars, closed>>,
           NEW k \in Key, Opened(k[1]),
           NEW d, DiskType(d), NEW w \in BOOLEAN, NEW new \in Page \cup {Keep},
           Access(k, d, w, new),
           \/ ptr' = AgedPtr(k)
           \/ ptr' = NoPtr
           \/ ptr' = [key |-> k, frame |-> page2index'[k], w |-> w, since |-> 0],
           fileInfo' \in [Fid -> Header], live' \in [File -> SUBSET PageId]
    PROVE  Structure'
<1>1. /\ CacheType' /\ DiskType(disk') /\ AgePerm' /\ MapsInverse' /\ DirtyOpen'
      /\ page2index'[k] \in Frame
      /\ age'[page2index'[k]] = 0
      /\ w => dirty'[page2index'[k]]
      /\ \A q \in Key : PageKept(k, q)
    BY AccessKeepsStructure
<1>2. PtrAge' /\ ptr' \in PtrType \cup {NoPtr}
    <2>1. CASE ptr' = AgedPtr(k)
        BY <1>1, <2>1, PtrOutlivesAccess
    <2>2. CASE ptr' = NoPtr
        BY <2>2 DEF PtrAge
    <2>3. CASE ptr' = [key |-> k, frame |-> page2index'[k], w |-> w, since |-> 0]
        BY <1>1, <2>3, CapacityAssumption DEF PtrAge, PtrType, Opened, fidVars
    <2>. QED
        BY <2>1, <2>2, <2>3
<1>3. TypeOK'
    BY <1>1, <1>2 DEF Structure, TypeOK, CacheType, DiskType, fidVars
<1>4. FidStack'
    BY DEF Structure, FidStack, fidVars
<1>5. OpenFiles'
    BY <1>1 DEF Structure, OpenFiles, fidVars, DiskType, TypeOK
<1>. QED
    BY <1>1, <1>2, <1>3, <1>4, <1>5 DEF Structure

-----------------------------------------------------------------------------
(* read() without keeping the pointer keeps the structure. *)
LEMMA ReadPageStep ==
    ASSUME Structure, NEW h \in Fid, NEW p \in PageId, ReadPage(h, p)
    PROVE  Structure'
<1>1. <<h, p>> \in Key /\ <<h, p>>[1] = h /\ Keep \in Page \cup {Keep}
    BY DEF Key
<1>2. DiskType(disk) /\ fileInfo' \in [Fid -> Header]
      /\ live' \in [File -> SUBSET PageId]
    BY DEF ReadPage, DiskType, Structure, TypeOK
<1>. QED
    BY <1>1, <1>2, AccessStep DEF ReadPage

(* read() and read_for_write(), keeping the pointer, keep the structure. *)
LEMMA TakePtrStep ==
    ASSUME Structure, NEW h \in Fid, NEW p \in PageId, NEW w \in BOOLEAN,
           TakePtr(h, p, w)
    PROVE  Structure'
<1>1. <<h, p>> \in Key /\ <<h, p>>[1] = h /\ Keep \in Page \cup {Keep}
    BY DEF Key
<1>2. DiskType(disk) /\ fileInfo' \in [Fid -> Header]
      /\ live' \in [File -> SUBSET PageId]
    BY DEF TakePtr, DiskType, Structure, TypeOK
<1>. QED
    BY <1>1, <1>2, AccessStep DEF TakePtr

(* deallocate() keeps the structure. *)
LEMMA DeallocateStep ==
    ASSUME Structure, NEW h \in Fid, NEW p \in PageId, Deallocate(h, p)
    PROVE  Structure'
<1>1. <<h, p>> \in Key /\ <<h, p>>[1] = h
    BY DEF Key
<1>2. FreeLink(h) \in Page
    BY DEF FreeLink, Page, Structure, TypeOK, Header
<1>3. fileInfo' \in [Fid -> Header] /\ live' \in [File -> SUBSET PageId]
    <2>1. /\ fileInfo \in [Fid -> Header] /\ live \in [File -> SUBSET PageId]
          /\ p \in 0 .. MaxPage
        BY PageFsAssumption DEF Structure, TypeOK, PageId
    <2>2. [fileInfo[h] EXCEPT !.first_freepage = p] \in Header
        BY <2>1 DEF Header
    <2>3. fileInfo' = [fileInfo EXCEPT
                          ![h] = [fileInfo[h] EXCEPT !.first_freepage = p]]
        BY <2>1 DEF Deallocate
    <2>4. live' \in [File -> SUBSET PageId]
        BY <2>1 DEF Deallocate
    <2>. QED
        BY <2>1, <2>2, <2>3, <2>4
<1>4. DiskType(disk)
    BY DEF DiskType, Structure, TypeOK
<1>. QED
    BY <1>1, <1>2, <1>3, <1>4, AccessStep DEF Deallocate

(* allocate() from the free list keeps the structure. *)
LEMMA AllocateFreeStep ==
    ASSUME Structure, NEW h \in Fid, AllocateFree(h)
    PROVE  Structure'
<1> DEFINE p == fileInfo[h].first_freepage
           k == <<h, p>>
<1>1. k \in Key /\ k[1] = h /\ Keep \in Page \cup {Keep}
    <2>1. p \in 0 .. MaxPage /\ p # 0
        BY DEF AllocateFree, Structure, TypeOK, Header
    <2>. QED
        BY <2>1, PageFsAssumption DEF Key, PageId
<1>2. DiskType(disk)
    BY DEF DiskType, Structure, TypeOK
<1>3. CacheType' /\ page2index'[k] \in Frame
    BY <1>1, <1>2, AccessKeepsStructure DEF AllocateFree
<1>4. fileInfo' \in [Fid -> Header]
    <2>1. buffer'[page2index'[k]].next \in 0 .. MaxPage
        BY <1>3 DEF CacheType, Page
    <2>. QED
        BY <2>1 DEF AllocateFree, Structure, TypeOK, Header
<1>5. live' \in [File -> SUBSET PageId]
    BY <1>1 DEF AllocateFree, Structure, TypeOK, Key
<1>. QED
    BY <1>1, <1>2, <1>4, <1>5, AccessStep DEF AllocateFree

(* allocate() at the end of the file keeps the structure. *)
LEMMA AllocateNewStep ==
    ASSUME Structure, NEW h \in Fid, AllocateNew(h)
    PROVE  Structure'
<1> DEFINE f == fileOf[h]
           p == fileInfo[h].page_num + 1
           k == <<h, p>>
<1>1. p \in PageId /\ k \in Key /\ k[1] = h /\ Keep \in Page \cup {Keep}
    <2>1. fileInfo[h].page_num \in 0 .. MaxPage /\ p <= MaxPage
        BY DEF AllocateNew, Structure, TypeOK, Header
    <2>. QED
        BY <2>1, PageFsAssumption DEF Key, PageId
<1>2. f \in File /\ disk[f] \in Disk
    BY DEF AllocateNew, Opened, Structure, TypeOK, OpenFiles
<1>3. PICK end \in PageId :
          Access(k, [disk EXCEPT ![f].extent = 1 .. end, ![f].pages[end] = ZeroPage],
                 FALSE, Keep)
    BY DEF AllocateNew
<1> DEFINE e == [disk[f] EXCEPT !.extent = 1 .. end, !.pages[end] = ZeroPage]
           d == [disk EXCEPT ![f].extent = 1 .. end, ![f].pages[end] = ZeroPage]
<1>4. e \in Disk /\ e # Absent
    <2>1. 1 .. end \in SUBSET PageId
        BY PageFsAssumption DEF PageId
    <2>2. ZeroPage \in Page
        BY PageFsAssumption DEF ZeroPage, Page
    <2>3. e \in Disk
        BY <1>2, <2>1, <2>2 DEF Disk
    <2>. QED
        BY <2>3, AbsentAssumption
<1>5. d = [disk EXCEPT ![f] = e]
    BY <1>2 DEF Structure, TypeOK
<1>6. DiskType(d)
    BY <1>2, <1>4, <1>5 DEF DiskType, Structure, TypeOK
<1>7. fileInfo' \in [Fid -> Header]
    BY <1>1 DEF AllocateNew, Structure, TypeOK, Header, PageId
<1>8. live' \in [File -> SUBSET PageId]
    BY <1>1 DEF AllocateNew, Structure, TypeOK
<1>. QED
    BY <1>1, <1>3, <1>6, <1>7, <1>8, AccessStep DEF AllocateNew

-----------------------------------------------------------------------------
(* writeback(h): no dirty frame of file h is left, the other files keep    *)
(* their frames, and the file is a file again.                             *)
LEMMA WritebackKeepsStructure ==
    ASSUME Structure, NEW h \in Fid, Opened(h), Writeback(h)
    PROVE  /\ CacheType' /\ DiskType(disk') /\ AgePerm' /\ MapsInverse'
           /\ \A i \in Frame : index2page'[i] # NoKey /\ dirty'[i] =>
                  index2page'[i] = index2page[i] /\ dirty[i] /\ index2page[i][1] # h
           /\ \A q \in Key : q[1] # h => page2index'[q] = page2index[q]
           /\ UNCHANGED <<age, dirty>>
<1>. USE NullFacts
<1> DEFINE f == fileOf[h]
           keys == {index2page[i] : i \in Flushed(h)}
<1>1. UNCHANGED <<age, dirty, buffer>>
    BY DEF Writeback
<1>2. AgePerm'
    BY <1>1 DEF Structure, AgePerm
<1>3. ASSUME NEW i \in Flushed(h)
      PROVE  /\ i \in Frame /\ index2page[i] \in Key /\ index2page[i][1] = h
             /\ page2index[index2page[i]] = i
    BY DEF Flushed, Structure, TypeOK, NoKey, Fid, MapsInverse
<1>4. /\ page2index' = [k \in Key |->
                            IF \E i \in Flushed(h) : index2page[i] = k
                            THEN NoFrame ELSE page2index[k]]
      /\ index2page' = [i \in Frame |-> IF i \in Flushed(h) THEN NoKey
                                        ELSE index2page[i]]
    BY DEF Writeback, Dropped
<1>5. CacheType'
    BY <1>1, <1>4 DEF CacheType, Structure, TypeOK
<1>6. MapsInverse'
    BY <1>3, <1>4 DEF MapsInverse, Structure, TypeOK
<1>7. \A i \in Frame : index2page'[i] # NoKey /\ dirty'[i] =>
          index2page'[i] = index2page[i] /\ dirty[i] /\ index2page[i][1] # h
    BY <1>1, <1>4 DEF Flushed
<1>8. \A q \in Key : q[1] # h => page2index'[q] = page2index[q]
    BY <1>3, <1>4
<1>9. DiskType(disk')
    <2> DEFINE extent == disk[f].extent \cup UNION {1 .. k[2] : k \in keys}
               pages == [p \in PageId |->
                            IF <<h, p>> \in keys THEN buffer[page2index[<<h, p>>]]
                            ELSE disk[f].pages[p]]
               e == [hdr |-> fileInfo[h], extent |-> extent, pages |-> pages]
    <2>1. f \in File /\ disk[f] \in Disk
        BY DEF Opened, Structure, TypeOK, OpenFiles
    <2>2. extent \in SUBSET PageId
        <3>1. \A k \in keys : k[2] \in PageId
            BY <1>3 DEF Key
        <3>2. \A k \in keys : 1 .. k[2] \subseteq PageId
            BY <3>1, PageFsAssumption DEF PageId
        <3>. QED
            BY <2>1, <3>2 DEF Disk
    <2>3. pages \in [PageId -> Page]
        <3>1. \A k \in keys : buffer[page2index[k]] \in Page
            BY <1>3 DEF Structure, TypeOK
        <3>. QED
            BY <2>1, <3>1 DEF Disk
    <2>4. e \in Disk
        BY <2>2, <2>3 DEF Disk, Structure, TypeOK
    <2>5. disk' = [disk EXCEPT ![f] = e]
        BY DEF Writeback
    <2>6. e # Absent
        BY <2>4, AbsentAssumption
    <2>. QED
        BY <2>1, <2>4, <2>5, <2>6 DEF DiskType, Structure, TypeOK
<1>. QED
    BY <1>1, <1>2, <1>5, <1>6, <1>7, <1>8, <1>9

(* flush() keeps the structure. *)
LEMMA FlushStep ==
    ASSUME Structure, NEW h \in Fid, Flush(h)
    PROVE  Structure'
<1>1. Opened(h) /\ Writeback(h) /\ UNCHANGED <<fidVars, fileInfo, live, closed>>
      /\ ptr' = PtrAfterDrop({h} \X PageId)
    BY DEF Flush
<1>2. /\ CacheType' /\ DiskType(disk') /\ AgePerm' /\ MapsInverse'
      /\ \A i \in Frame : index2page'[i] # NoKey /\ dirty'[i] =>
             index2page'[i] = index2page[i] /\ dirty[i] /\ index2page[i][1] # h
      /\ \A q \in Key : q[1] # h => page2index'[q] = page2index[q]
      /\ UNCHANGED <<age, dirty>>
    BY <1>1, WritebackKeepsStructure
<1>3. DirtyOpen'
    BY <1>1, <1>2 DEF DirtyOpen, Structure, Opened, fidVars
<1>4. PtrAge' /\ ptr' \in PtrType \cup {NoPtr}
    <2>1. CASE ptr' = NoPtr
        BY <2>1 DEF PtrAge
    <2>2. CASE ptr' # NoPtr
        <3>1. ptr' = ptr /\ ptr \in PtrType /\ ptr.key \notin {h} \X PageId
            BY <1>1, <2>2 DEF PtrAfterDrop, Structure, TypeOK
        <3>2. ptr.key \in Key /\ ptr.key[1] # h
            BY <3>1 DEF PtrType, Key
        <3>. QED
            BY <1>1, <1>2, <2>2, <3>1, <3>2
            DEF PtrAge, Structure, Opened, fidVars
    <2>. QED
        BY <2>1, <2>2
<1>5. TypeOK' /\ FidStack' /\ OpenFiles'
    BY <1>1, <1>2, <1>4
    DEF Structure, TypeOK, CacheType, DiskType, FidStack, OpenFiles, fidVars
<1>. QED
    BY <1>2, <1>3, <1>4, <1>5 DEF Structure

(* close() keeps the structure: the id it frees labels clean frames only. *)
LEMMA CloseStep ==
    ASSUME Structure, NEW h \in Fid, Close(h)
    PROVE  Structure'
<1>1. /\ Opened(h) /\ Writeback(h) /\ UNCHANGED <<fileInfo, live>>
      /\ ptr' = PtrAfterDrop({h} \X PageId)
      /\ freeFids' = Append(freeFids, h)
      /\ used' = used \ {h}
      /\ fileOf' = [fileOf EXCEPT ![h] = NoFile]
      /\ closed' = TRUE
    BY DEF Close
<1>2. /\ CacheType' /\ DiskType(disk') /\ AgePerm' /\ MapsInverse'
      /\ \A i \in Frame : index2page'[i] # NoKey /\ dirty'[i] =>
             index2page'[i] = index2page[i] /\ dirty[i] /\ index2page[i][1] # h
      /\ \A q \in Key : q[1] # h => page2index'[q] = page2index[q]
      /\ UNCHANGED <<age, dirty>>
    BY <1>1, WritebackKeepsStructure
<1>3. \A g \in Fid : g # h /\ Opened(g) => Opened(g)'
    BY <1>1 DEF Opened, Structure, TypeOK
<1>4. DirtyOpen'
    <2>. SUFFICES ASSUME NEW i \in Frame, index2page'[i] # NoKey, dirty'[i]
                  PROVE  Opened(index2page[i][1])'
        BY DEF DirtyOpen
    <2>1. index2page'[i] = index2page[i] /\ dirty[i] /\ index2page[i][1] # h
        BY <1>2
    <2>2. index2page[i] \in Key
        BY <2>1 DEF Structure, TypeOK
    <2>3. index2page[i][1] \in Fid /\ Opened(index2page[i][1])
        BY <2>1, <2>2 DEF Structure, DirtyOpen, Key
    <2>. QED
        BY <1>3, <2>1, <2>3 DEF Opened
<1>5. PtrAge' /\ ptr' \in PtrType \cup {NoPtr}
    <2>1. CASE ptr' = NoPtr
        BY <2>1 DEF PtrAge
    <2>2. CASE ptr' # NoPtr
        <3>1. ptr' = ptr /\ ptr \in PtrType /\ ptr.key \notin {h} \X PageId
            BY <1>1, <2>2 DEF PtrAfterDrop, Structure, TypeOK
        <3>2. ptr.key \in Key /\ ptr.key[1] # h /\ ptr.key[1] \in Fid
            BY <3>1 DEF PtrType, Key
        <3>3. Opened(ptr.key[1]) /\ Opened(ptr.key[1])'
            BY <1>3, <2>2, <3>1, <3>2 DEF Structure, PtrAge, Opened
        <3>. QED
            BY <1>2, <2>2, <3>1, <3>2, <3>3 DEF PtrAge, Structure, Opened
    <2>. QED
        BY <2>1, <2>2
<1>6. FidStack'
    BY <1>1 DEF Structure, FidStack, TypeOK, Opened
<1>7. OpenFiles'
    BY <1>1, <1>2 DEF Structure, OpenFiles, DiskType, TypeOK
<1>8. TypeOK'
    BY <1>1, <1>2, <1>5 DEF Structure, TypeOK, CacheType, DiskType
<1>. QED
    BY <1>2, <1>4, <1>5, <1>6, <1>7, <1>8 DEF Structure

-----------------------------------------------------------------------------
(* The top of the id stack is a fresh id, and what is under it stays a     *)
(* stack.                                                                  *)
LEMMA TopOfStack ==
    ASSUME NEW s \in Seq(Fid), s # <<>>,
           \A m, n \in 1 .. Len(s) : s[m] = s[n] => m = n,
           NEW t, t = SubSeq(s, 1, Len(s) - 1)
    PROVE  /\ s[Len(s)] \in Fid
           /\ t \in Seq(Fid)
           /\ Len(t) = Len(s) - 1
           /\ \A m \in 1 .. Len(t) : t[m] = s[m] /\ t[m] # s[Len(s)]
<1>1. Len(s) \in Nat \ {0} /\ Len(s) \in 1 .. Len(s)
    BY EmptySeq
<1>2. \A m \in 1 .. Len(s) : s[m] \in Fid
    BY ElementOfSeq
<1>3. \A m \in 1 .. Len(s) - 1 : m \in 1 .. Len(s) /\ m # Len(s)
    BY <1>1
<1>4. t \in Seq(Fid) /\ Len(t) = Len(s) - 1
      /\ \A m \in 1 .. Len(s) - 1 : t[m] = s[m]
    <2>1. \A m \in 1 .. Len(s) - 1 : s[m] \in Fid
        BY <1>2, <1>3
    <2>2. Len(s) - 1 \in Int /\ (Len(s) - 1) - 1 + 1 = Len(s) - 1
        BY <1>1
    <2>3. /\ SubSeq(s, 1, Len(s) - 1) \in Seq(Fid)
          /\ Len(SubSeq(s, 1, Len(s) - 1))
             = IF 1 <= Len(s) - 1 THEN (Len(s) - 1) - 1 + 1 ELSE 0
          /\ \A m \in 1 .. (Len(s) - 1) - 1 + 1 :
                 SubSeq(s, 1, Len(s) - 1)[m] = s[1 + m - 1]
        BY <2>1, <2>2, SubSeqProperties
    <2>. QED
        BY <1>1, <2>2, <2>3
<1>. QED
    BY <1>1, <1>2, <1>3, <1>4

(* open() keeps the structure: the id on top of the stack was not in use. *)
LEMMA OpenStep ==
    ASSUME Structure, NEW f \in File, Open(f)
    PROVE  Structure'
<1> DEFINE h == freeFids[Len(freeFids)]
<1>1. /\ freeFids' = SubSeq(freeFids, 1, Len(freeFids) - 1)
      /\ used' = used \cup {h}
      /\ fileOf' = [fileOf EXCEPT ![h] = f]
      /\ UNCHANGED <<cacheVars, live, ptr, closed>>
      /\ freeFids # <<>> /\ ~IsOpen(f)
    BY DEF Open
<1>2. /\ h \in Fid /\ freeFids' \in Seq(Fid)
      /\ Len(freeFids') = Len(freeFids) - 1
      /\ \A m \in 1 .. Len(freeFids') : freeFids'[m] = freeFids[m] /\ freeFids'[m] # h
      /\ Len(freeFids) \in Nat \ {0}
    <2>1. freeFids \in Seq(Fid)
        BY DEF Structure, TypeOK
    <2>2. \A m, n \in 1 .. Len(freeFids) : freeFids[m] = freeFids[n] => m = n
        BY DEF Structure, FidStack
    <2>3. Len(freeFids) \in Nat \ {0}
        BY <1>1, <2>1, EmptySeq
    <2>. QED
        BY <1>1, <2>1, <2>2, <2>3, TopOfStack
<1>3. FidStack'
    BY <1>1, <1>2 DEF Structure, FidStack
<1>4. h \notin used /\ fileOf[h] = NoFile
    <2>1. h \notin used
        BY <1>2 DEF Structure, FidStack
    <2>. QED
        BY <2>1, <1>2 DEF Structure, OpenFiles
<1>5. /\ disk' \in [File -> Disk \cup {Absent}]
      /\ \A g \in File : disk[g] # Absent => disk'[g] # Absent
      /\ disk'[f] # Absent
    <2>1. NewFile \in Disk
        BY PageFsAssumption
        DEF NewFile, Disk, Header, EmptyHeader, ZeroPage, Page
    <2>. QED
        BY <2>1, AbsentAssumption DEF Open, Structure, TypeOK
<1>6. fileInfo' \in [Fid -> Header]
    <2>1. EmptyHeader \in Header
        BY PageFsAssumption DEF EmptyHeader, Header
    <2>. QED
        BY <2>1, <1>2 DEF Open, Structure, TypeOK, Disk
<1>7. TypeOK'
    BY <1>1, <1>2, <1>5, <1>6 DEF Structure, TypeOK, cacheVars
<1>8. OpenFiles'
    <2>1. \A g \in Fid : fileOf[g] # f
        BY <1>1, PageFsAssumption DEF IsOpen, Structure, OpenFiles
    <2>. QED
        BY <1>1, <1>2, <1>4, <1>5, <2>1 DEF Structure, OpenFiles, TypeOK
<1>9. \A g \in Fid : Opened(g) => Opened(g)'
    BY <1>1, <1>2, <1>4 DEF Opened, Structure, TypeOK
<1>10. DirtyOpen'
    BY <1>1, <1>9 DEF Structure, DirtyOpen, TypeOK, Key, cacheVars
<1>11. PtrAge'
    BY <1>1, <1>9 DEF Structure, PtrAge, TypeOK, PtrType, Key, cacheVars
<1>12. AgePerm' /\ MapsInverse'
    BY <1>1 DEF Structure, AgePerm, MapsInverse, cacheVars
<1>. QED
    BY <1>3, <1>7, <1>8, <1>10, <1>11, <1>12 DEF Structure

(* open() keeps the structure when fopen fails. *)
LEMMA OpenFailsStep ==
    ASSUME Structure, OpenFails
    PROVE  Structure'
<1> DEFINE h == freeFids[Len(freeFids)]
<1>1. /\ freeFids' = SubSeq(freeFids, 1, Len(freeFids) - 1)
      /\ used' = used \cup {h}
      /\ UNCHANGED <<fileOf, fileInfo, disk, cacheVars, live, ptr, closed>>
      /\ freeFids # <<>>
    BY DEF OpenFails
<1>2. /\ h \in Fid /\ freeFids' \in Seq(Fid)
      /\ Len(freeFids') = Len(freeFids) - 1
      /\ \A m \in 1 .. Len(freeFids') : freeFids'[m] = freeFids[m] /\ freeFids'[m] # h
      /\ Len(freeFids) \in Nat \ {0}
    <2>1. freeFids \in Seq(Fid)
        BY DEF Structure, TypeOK
    <2>2. \A m, n \in 1 .. Len(freeFids) : freeFids[m] = freeFids[n] => m = n
        BY DEF Structure, FidStack
    <2>3. Len(freeFids) \in Nat \ {0}
        BY <1>1, <2>1, EmptySeq
    <2>. QED
        BY <1>1, <2>1, <2>2, <2>3, TopOfStack
<1>3. FidStack'
    BY <1>1, <1>2 DEF Structure, FidStack
<1>4. TypeOK'
    BY <1>1, <1>2 DEF Structure, TypeOK, cacheVars
<1>5. OpenFiles'
    BY <1>1 DEF Structure, OpenFiles
<1>6. DirtyOpen' /\ PtrAge'
    BY <1>1 DEF Structure, DirtyOpen, PtrAge, Opened, cacheVars
<1>7. AgePerm' /\ MapsInverse'
    BY <1>1 DEF Structure, AgePerm, MapsInverse, cacheVars
<1>. QED
    BY <1>3, <1>4, <1>5, <1>6, <1>7 DEF Structure

(* The id stack of a new process. *)
LEMMA FreshStack ==
    ASSUME NEW s, s = [i \in Fid |-> MaxFid + 1 - i]
    PROVE  /\ s \in Seq(Fid)
           /\ \A m, n \in 1 .. Len(s) : s[m] = s[n] => m = n
<1>1. MaxFid \in Nat /\ Fid = 1 .. MaxFid
    BY PageFsAssumption DEF Fid
<1>2. s \in [1 .. MaxFid -> Fid]
    BY <1>1
<1>3. s \in Seq(Fid)
    BY <1>1, <1>2, SeqDef
<1>4. Len(s) = MaxFid
    BY <1>1, <1>2, <1>3, LenProperties
<1>. QED
    BY <1>1, <1>3, <1>4

(* The recency order of a new process. *)
LEMMA FreshOrder ==
    ASSUME NEW a, a = [i \in Frame |-> i]
    PROVE  /\ a \in [Frame -> Frame]
           /\ \A b \in Frame : \E i \in Frame : a[i] = b
           /\ \A i, j \in Frame : a[i] = a[j] => i = j
OBVIOUS

(* A new process has the structure. *)
LEMMA RestartStep ==
    ASSUME Structure, Restart
    PROVE  Structure'
<1>. USE NullFacts
<1>1. freeFids' \in Seq(Fid) /\ FidStack'
    BY FreshStack DEF Restart, FidStack
<1>2. age' \in [Frame -> Frame] /\ AgePerm'
    BY FreshOrder DEF Restart, AgePerm
<1>3. ZeroPage \in Page /\ EmptyHeader \in Header
    BY PageFsAssumption DEF ZeroPage, Page, EmptyHeader, Header
<1>4. ptr' = NoPtr
    BY DEF Restart, Structure, PtrAge, Opened
<1>5. TypeOK'
    BY <1>1, <1>2, <1>3 DEF Restart, Structure, TypeOK
<1>6. OpenFiles'
    BY DEF Restart, Structure, OpenFiles
<1>7. MapsInverse' /\ DirtyOpen'
    BY DEF Restart, MapsInverse, DirtyOpen
<1>8. PtrAge'
    BY <1>4 DEF PtrAge
<1>. QED
    BY <1>1, <1>2, <1>5, <1>6, <1>7, <1>8 DEF Structure

(* Removing the file of a dropped table keeps the structure. *)
LEMMA RemoveStep ==
    ASSUME Structure, NEW f \in File, Remove(f)
    PROVE  Structure'
<1>1. UNCHANGED <<fidVars, fileInfo, cacheVars, ptr, closed>>
    BY DEF Remove
<1>2. /\ disk' \in [File -> Disk \cup {Absent}]
      /\ \A g \in File : g # f => disk'[g] = disk[g]
      /\ live' \in [File -> SUBSET PageId]
    BY DEF Remove, Structure, TypeOK
<1>3. TypeOK'
    BY <1>1, <1>2 DEF Structure, TypeOK, cacheVars, fidVars
<1>4. OpenFiles'
    <2>1. \A g \in Fid : fileOf[g] # NoFile => fileOf[g] # f
        BY DEF Remove, IsOpen, Structure, OpenFiles
    <2>. QED
        BY <1>1, <1>2, <2>1 DEF Structure, OpenFiles, TypeOK, fidVars
<1>5. FidStack' /\ AgePerm' /\ MapsInverse' /\ DirtyOpen' /\ PtrAge'
    BY <1>1 DEF Structure, FidStack, AgePerm, MapsInverse, DirtyOpen, PtrAge,
                Opened, cacheVars, fidVars
<1>. QED
    BY <1>3, <1>4, <1>5 DEF Structure

(* The store through a pointer in its window hits the frame of its page;   *)
(* a page it marks dirty is a page of an open file.                        *)
LEMMA WritePtrStep ==
    ASSUME Structure, NEW v \in Value, WritePtr(v)
    PROVE  Structure'
<1>1. /\ ptr # NoPtr /\ ptr.since < Capacity
      /\ buffer' = [buffer EXCEPT ![ptr.frame] = [magic |-> v, next |-> 0]]
      /\ dirty' = IF ptr.w THEN dirty ELSE [dirty EXCEPT ![page2index[ptr.key]] = TRUE]
      /\ UNCHANGED <<fidVars, fileInfo, disk, age, page2index, index2page,
                     live, ptr, closed>>
    BY DEF WritePtr, Marked
<1>2. /\ ptr.key \in Key /\ ptr.frame \in Frame
      /\ Opened(ptr.key[1]) /\ page2index[ptr.key] = ptr.frame
      /\ index2page[ptr.frame] = ptr.key
    <2>1. /\ ptr.key \in Key /\ ptr.frame \in Frame
          /\ Opened(ptr.key[1]) /\ page2index[ptr.key] = ptr.frame
        BY <1>1 DEF Structure, TypeOK, PtrType, PtrAge
    <2>. QED
        BY <2>1, NullFacts DEF Structure, MapsInverse
<1>3. TypeOK'
    <2>1. [magic |-> v, next |-> 0] \in Page
        BY PageFsAssumption DEF Page
    <2>2. buffer' \in [Frame -> Page] /\ dirty' \in [Frame -> BOOLEAN]
        BY <1>1, <1>2, <2>1 DEF Structure, TypeOK
    <2>. QED
        BY <1>1, <2>2 DEF Structure, TypeOK, fidVars
<1>4. \A i \in Frame : dirty'[i] => dirty[i] \/ i = ptr.frame
    BY <1>1, <1>2 DEF Structure, TypeOK
<1>5. DirtyOpen'
    BY <1>1, <1>2, <1>4 DEF Structure, DirtyOpen, Opened, fidVars
<1>6. PtrAge'
    BY <1>1, <1>2 DEF Structure, PtrAge, Opened, fidVars, TypeOK
<1>7. FidStack' /\ OpenFiles' /\ AgePerm' /\ MapsInverse'
    BY <1>1 DEF Structure, FidStack, OpenFiles, AgePerm, MapsInverse, fidVars
<1>. QED
    BY <1>3, <1>5, <1>6, <1>7 DEF Structure

(* The first process starts with the structure. *)
LEMMA StructureInit == Init => Structure
<1>. SUFFICES ASSUME Init PROVE Structure
    OBVIOUS
<1>. USE NullFacts DEF Init
<1>1. freeFids \in Seq(Fid) /\ FidStack
    BY FreshStack DEF FidStack
<1>2. age \in [Frame -> Frame] /\ AgePerm
    BY FreshOrder DEF AgePerm, LruInit
<1>3. ZeroPage \in Page /\ EmptyHeader \in Header
    BY PageFsAssumption DEF ZeroPage, Page, EmptyHeader, Header
<1>4. TypeOK
    BY <1>1, <1>2, <1>3 DEF TypeOK
<1>5. OpenFiles /\ MapsInverse /\ DirtyOpen /\ PtrAge
    BY DEF OpenFiles, MapsInverse, DirtyOpen, PtrAge
<1>. QED
    BY <1>1, <1>2, <1>4, <1>5 DEF Structure

(* Every step keeps the structure. *)
LEMMA StructureNext == Structure /\ [Next]_vars => Structure'
<1>. SUFFICES ASSUME Structure, [Next]_vars PROVE Structure'
    OBVIOUS
<1>1. CASE UNCHANGED vars
    BY <1>1 DEF Structure, TypeOK, AgePerm, MapsInverse, FidStack, OpenFiles,
                DirtyOpen, PtrAge, Opened, vars, fidVars, cacheVars
<1>2. ASSUME NEW f \in File, Open(f) \/ Remove(f) PROVE Structure'
    BY <1>2, OpenStep, RemoveStep
<1>3. CASE OpenFails
    BY <1>3, OpenFailsStep
<1>4. CASE Restart
    BY <1>4, RestartStep
<1>5. ASSUME NEW h \in Fid, Flush(h) \/ Close(h) \/ AllocateNew(h) \/ AllocateFree(h)
      PROVE  Structure'
    BY <1>5, FlushStep, CloseStep, AllocateNewStep, AllocateFreeStep
<1>6. ASSUME NEW h \in Fid, NEW p \in PageId,
             \/ ReadPage(h, p)
             \/ \E w \in BOOLEAN : TakePtr(h, p, w)
             \/ Deallocate(h, p)
      PROVE  Structure'
    BY <1>6, ReadPageStep, TakePtrStep, DeallocateStep
<1>7. ASSUME NEW v \in Value \ {Zero}, WritePtr(v) PROVE Structure'
    BY <1>7, WritePtrStep
<1>. QED
    BY <1>1, <1>2, <1>3, <1>4, <1>5, <1>6, <1>7 DEF Next, PageNext

(* The structure of cache, ids and pointer is invariant, whatever is       *)
(* opened, closed or reused, for every size of cache.                      *)
THEOREM StructureInvariant == Spec => []Structure
BY StructureInit, StructureNext, PTL DEF Spec

(* Type correctness of page_fs: every index it stores is a frame, a page   *)
(* or a file id of its arrays.                                             *)
THEOREM TypeCorrect == Spec => []TypeOK
<1>1. Structure => TypeOK
    BY DEF Structure
<1>. QED
    BY <1>1, StructureInvariant, PTL

(* page2index and index2page are inverse to each other in every reachable  *)
(* state.                                                                  *)
THEOREM MapsStayInverse == Spec => []MapsInverse
<1>1. Structure => MapsInverse
    BY DEF Structure
<1>. QED
    BY <1>1, StructureInvariant, PTL

(* A pointer from read() or read_for_write() stays in its page's frame     *)
(* while fewer than Capacity other pages are accessed, and the frame stays *)
(* dirty if it was taken for writing.                                      *)
THEOREM PointerIsStable == Spec => []PtrInWindow
<1>1. Structure => PtrInWindow
    BY DEF Structure, PtrAge, PtrInWindow
<1>. QED
    BY <1>1, StructureInvariant, PTL

-----------------------------------------------------------------------------
(* The pages of a file are the ones its header counts: they are on disk,   *)
(* they link to each other and to no other page, and callers own no more.  *)
DiskFits(file, hdr) ==
    /\ file.extent = 1 .. hdr.page_num
    /\ \A p \in PageId : file.pages[p].next \in 0 .. hdr.page_num

HeaderFits(pages, hdr) ==
    /\ hdr.first_freepage \in 0 .. hdr.page_num
    /\ pages \subseteq 1 .. hdr.page_num

(* Frame contents b under key k with dirty bit w, of a file on disk.       *)
FrameFits(k, w, b, file, hdr) ==
    /\ k[2] \in 1 .. hdr.page_num
    /\ b.next \in 0 .. hdr.page_num
    /\ ~w => b = file.pages[k[2]]

DisksFit(d, info) ==
    \A h \in Fid : fileOf[h] # NoFile => DiskFits(d[fileOf[h]], info[h])

FramesFit(d, info) ==
    \A i \in Frame : index2page[i] # NoKey /\ fileOf[index2page[i][1]] # NoFile =>
        FrameFits(index2page[i], dirty[i], buffer[i],
                  d[fileOf[index2page[i][1]]], info[index2page[i][1]])

OpenFit ==
    \A h \in Fid : fileOf[h] # NoFile => HeaderFits(live[fileOf[h]], fileInfo[h])

ClosedFit ==
    \A f \in File : (\A h \in Fid : fileOf[h] # f) =>
        IF disk[f] = Absent THEN live[f] = {}
        ELSE DiskFits(disk[f], disk[f].hdr) /\ HeaderFits(live[f], disk[f].hdr)

(* While no file was closed, nothing of a file that is not open is cached. *)
CachedOpen ==
    ~closed => \A i \in Frame : index2page[i] # NoKey => fileOf[index2page[i][1]] # NoFile

Coherence ==
    /\ DisksFit(disk, fileInfo)
    /\ FramesFit(disk, fileInfo)
    /\ OpenFit
    /\ ClosedFit
    /\ CachedOpen

-----------------------------------------------------------------------------
(* Writing the victim back leaves every other frame as it was on disk and  *)
(* every file as long as its header says.                                  *)
LEMMA EvictedFits ==
    ASSUME Structure, NEW d, DiskType(d), NEW info \in [Fid -> Header],
           DisksFit(d, info), FramesFit(d, info)
    PROVE  /\ DisksFit(Evicted(d), info)
           /\ \A f \in File : (\A h \in Fid : fileOf[h] # f) => Evicted(d)[f] = d[f]
           /\ \A i \in Frame :
                  i # Victim /\ index2page[i] # NoKey /\ fileOf[index2page[i][1]] # NoFile =>
                      FrameFits(index2page[i], dirty[i], buffer[i],
                          Evicted(d)[fileOf[index2page[i][1]]], info[index2page[i][1]])
<1>1. Victim \in Frame
    BY VictimExists DEF Structure, TypeOK
<1>2. CASE index2page[Victim] # NoKey /\ dirty[Victim]
    <2> DEFINE h == index2page[Victim][1]
               p == index2page[Victim][2]
               f == fileOf[h]
               e == [d[f] EXCEPT !.pages[p] = buffer[Victim],
                                 !.extent = @ \cup 1 .. p]
    <2>1. h \in Fid /\ p \in PageId /\ index2page[Victim] = <<h, p>>
        BY <1>1, <1>2 DEF Structure, TypeOK, Key
    <2>2. f # NoFile /\ f \in File /\ d[f] \in Disk
        BY <1>1, <1>2, <2>1 DEF Structure, DirtyOpen, Opened, TypeOK, OpenFiles, DiskType
    <2>3. p \in 1 .. info[h].page_num /\ buffer[Victim].next \in 0 .. info[h].page_num
        BY <1>1, <1>2, <2>1, <2>2 DEF FramesFit, FrameFits
    <2>4. Evicted(d) = [d EXCEPT ![f] = e]
        BY <1>2, <2>2 DEF Evicted, WriteFrame, DiskType, Disk
    <2>5. \A g \in Fid : fileOf[g] = f => g = h
        BY <2>1, <2>2 DEF Structure, OpenFiles
    <2>6. Evicted(d)[f] = e /\ \A g \in File : g # f => Evicted(d)[g] = d[g]
        BY <2>2, <2>4 DEF DiskType
    <2>7. /\ e.extent = d[f].extent \cup 1 .. p
          /\ \A q \in PageId : e.pages[q] = IF q = p THEN buffer[Victim] ELSE d[f].pages[q]
        BY <2>1, <2>2 DEF Disk
    <2>. HIDE DEF e
    <2>8. DiskFits(e, info[h])
        <3>1. info[h].page_num \in Nat
            BY <2>1, PageFsAssumption DEF Header
        <3>2. 1 .. info[h].page_num \cup 1 .. p = 1 .. info[h].page_num
            BY <2>3, <3>1
        <3>3. DiskFits(d[f], info[h])
            BY <2>1, <2>2 DEF DisksFit
        <3>4. e.extent = 1 .. info[h].page_num
            BY <2>7, <3>2, <3>3 DEF DiskFits
        <3>. QED
            BY <2>3, <2>7, <3>3, <3>4 DEF DiskFits
    <2>9. DisksFit(Evicted(d), info)
        <3>. SUFFICES ASSUME NEW g \in Fid, fileOf[g] # NoFile
                      PROVE  DiskFits(Evicted(d)[fileOf[g]], info[g])
            BY DEF DisksFit
        <3>1. fileOf[g] \in File
            BY DEF Structure, TypeOK
        <3>. QED
            BY <2>5, <2>6, <2>8, <3>1 DEF DisksFit
    <2>10. ASSUME NEW i \in Frame, i # Victim, index2page[i] # NoKey,
                  fileOf[index2page[i][1]] # NoFile
           PROVE  FrameFits(index2page[i], dirty[i], buffer[i],
                      Evicted(d)[fileOf[index2page[i][1]]], info[index2page[i][1]])
        <3> DEFINE g == index2page[i][1]
                   q == index2page[i][2]
        <3>1. g \in Fid /\ q \in PageId /\ index2page[i] = <<g, q>>
            BY <2>10 DEF Structure, TypeOK, Key
        <3>2. fileOf[g] \in File
            BY <2>10, <3>1 DEF Structure, TypeOK
        <3>3. g = h => q # p
            BY <1>1, <1>2, <2>1, <2>10, <3>1 DEF Structure, MapsInverse
        <3>4. Evicted(d)[fileOf[g]].pages[q] = d[fileOf[g]].pages[q]
            BY <2>5, <2>6, <2>7, <3>1, <3>2, <3>3
        <3>5. FrameFits(index2page[i], dirty[i], buffer[i], d[fileOf[g]], info[g])
            BY <2>10 DEF FramesFit
        <3>. QED
            BY <3>4, <3>5 DEF FrameFits
    <2>. QED
        BY <2>1, <2>6, <2>9, <2>10
<1>3. CASE ~(index2page[Victim] # NoKey /\ dirty[Victim])
    BY <1>3 DEF Evicted, FramesFit
<1>. QED
    BY <1>2, <1>3

(* read() and read_for_write() show what is on disk or what was stored,    *)
(* whatever they evict.  info is the headers the caller leaves.            *)
LEMMA AccessFits ==
    ASSUME Structure, UNCHANGED fidVars,
           NEW d, DiskType(d), NEW info \in [Fid -> Header],
           DisksFit(d, info), FramesFit(d, info),
           NEW k \in Key, fileOf[k[1]] # NoFile, k[2] \in 1 .. info[k[1]].page_num,
           NEW w \in BOOLEAN, NEW new,
           new = Keep \/ (w /\ new \in Page /\ new.next \in 0 .. info[k[1]].page_num),
           Access(k, d, w, new)
    PROVE  /\ \A h \in Fid : fileOf[h] # NoFile => DiskFits(disk'[fileOf[h]], info[h])
           /\ \A f \in File : (\A h \in Fid : fileOf[h] # f) => disk'[f] = d[f]
           /\ \A i \in Frame :
                  index2page'[i] # NoKey /\ fileOf[index2page'[i][1]] # NoFile =>
                      FrameFits(index2page'[i], dirty'[i], buffer'[i],
                          disk'[fileOf[index2page'[i][1]]], info[index2page'[i][1]])
           /\ \A i \in Frame : index2page'[i] \in {index2page[i], k}
<1>. USE NullFacts
<1>0. /\ dirty \in [Frame -> BOOLEAN]
      /\ buffer \in [Frame -> Page]
      /\ index2page \in [Frame -> Key \cup {NoKey}]
      /\ page2index \in [Key -> Frame \cup {NoFrame}]
    BY DEF Structure, TypeOK
<1>1. CASE Hit(k, d, w, new)
    <2> DEFINE n == page2index[k]
    <2>1. n \in Frame /\ index2page[n] = k
        BY <1>0, <1>1 DEF Hit, Structure, MapsInverse
    <2>2. /\ index2page' = index2page /\ disk' = d
          /\ \A i \in Frame : i # n => dirty'[i] = dirty[i] /\ buffer'[i] = buffer[i]
          /\ dirty'[n] = (dirty[n] \/ w)
          /\ buffer'[n] = IF new = Keep THEN buffer[n] ELSE new
        BY <1>0, <1>1, <2>1 DEF Hit, Written
    <2>3. FrameFits(k, dirty'[n], buffer'[n], d[fileOf[k[1]]], info[k[1]])
        <3>1. FrameFits(k, dirty[n], buffer[n], d[fileOf[k[1]]], info[k[1]])
            BY <2>1 DEF FramesFit
        <3>. QED
            BY <2>2, <3>1 DEF FrameFits
    <2>4. ASSUME NEW i \in Frame, index2page'[i] # NoKey,
                 fileOf[index2page'[i][1]] # NoFile
          PROVE  FrameFits(index2page'[i], dirty'[i], buffer'[i],
                     disk'[fileOf[index2page'[i][1]]], info[index2page'[i][1]])
        <3>1. CASE i = n
            BY <2>1, <2>2, <2>3, <3>1
        <3>2. CASE i # n
            BY <2>2, <2>4, <3>2 DEF FramesFit
        <3>. QED
            BY <3>1, <3>2
    <2>. QED
        BY <2>2, <2>4 DEF DisksFit
<1>2. CASE Miss(k, d, w, new)
    <2> DEFINE n == Victim
               e == Evicted(d)
               file == e[fileOf[k[1]]]
    <2>1. n \in Frame
        BY VictimExists DEF Structure, TypeOK
    <2>2. /\ disk' = e
          /\ index2page' = [index2page EXCEPT ![n] = k]
          /\ dirty' = [dirty EXCEPT ![n] = w]
        BY <1>2 DEF Miss
    <2>3. buffer' = [buffer EXCEPT ![n] = Written(Loaded(e, k, n), new)]
        BY <1>2 DEF Miss
    <2>4. /\ DisksFit(e, info)
          /\ \A f \in File : (\A h \in Fid : fileOf[h] # f) => e[f] = d[f]
          /\ \A i \in Frame :
                 i # n /\ index2page[i] # NoKey /\ fileOf[index2page[i][1]] # NoFile =>
                     FrameFits(index2page[i], dirty[i], buffer[i],
                         e[fileOf[index2page[i][1]]], info[index2page[i][1]])
        BY EvictedFits
    <2>. HIDE DEF e
    <2>5. k[1] \in Fid /\ k[2] \in PageId
        BY DEF Key
    <2>6. DiskFits(file, info[k[1]])
        BY <2>4, <2>5 DEF DisksFit
    <2>7. Loaded(e, k, n) = file.pages[k[2]]
        BY <2>6 DEF Loaded, DiskFits
    <2>8. FrameFits(k, dirty'[n], buffer'[n], file, info[k[1]])
        <3>1. dirty'[n] = w
            BY <1>0, <2>1, <2>2
        <3>2. buffer'[n] = IF new = Keep THEN file.pages[k[2]] ELSE new
            BY <1>0, <2>1, <2>3, <2>7 DEF Written
        <3>3. file.pages[k[2]].next \in 0 .. info[k[1]].page_num
            BY <2>5, <2>6 DEF DiskFits
        <3>. QED
            BY <3>1, <3>2, <3>3 DEF FrameFits
    <2>9. ASSUME NEW i \in Frame, index2page'[i] # NoKey,
                 fileOf[index2page'[i][1]] # NoFile
          PROVE  FrameFits(index2page'[i], dirty'[i], buffer'[i],
                     disk'[fileOf[index2page'[i][1]]], info[index2page'[i][1]])
        <3>1. CASE i = n
            <4>1. index2page'[i] = k
                BY <1>0, <2>1, <2>2, <3>1
            <4>. QED
                BY <2>2, <2>8, <3>1, <4>1
        <3>2. CASE i # n
            <4>1. /\ index2page'[i] = index2page[i] /\ dirty'[i] = dirty[i]
                  /\ buffer'[i] = buffer[i]
                BY <1>0, <2>2, <2>3, <3>2
            <4>. QED
                BY <2>2, <2>4, <2>9, <3>2, <4>1
        <3>. QED
            BY <3>1, <3>2
    <2>. QED
        BY <1>0, <2>1, <2>2, <2>4, <2>9 DEF DisksFit
<1>. QED
    BY <1>1, <1>2 DEF Access

(* Every action that accesses a page of an open file keeps coherence, if   *)
(* the headers it leaves fit what its callers own.                         *)
LEMMA AccessKeepsCoherence ==
    ASSUME Structure, Coherence, UNCHANGED <<fidVars, closed>>,
           NEW d, DiskType(d),
           \A f \in File : (\A h \in Fid : fileOf[h] # f) => d[f] = disk[f],
           fileInfo' \in [Fid -> Header],
           DisksFit(d, fileInfo'), FramesFit(d, fileInfo'),
           NEW k \in Key, Opened(k[1]), k[2] \in 1 .. fileInfo'[k[1]].page_num,
           NEW w \in BOOLEAN, NEW new,
           new = Keep \/ (w /\ new \in Page /\ new.next \in 0 .. fileInfo'[k[1]].page_num),
           Access(k, d, w, new),
           \A h \in Fid : fileOf[h] # NoFile => HeaderFits(live'[fileOf[h]], fileInfo'[h]),
           \A f \in File : (\A h \in Fid : fileOf[h] # f) => live'[f] = live[f]
    PROVE  Coherence'
<1>0. UNCHANGED fidVars /\ UNCHANGED <<used, fileOf, closed>> /\ fileOf[k[1]] # NoFile
    BY DEF fidVars, Opened
<1>1. /\ \A h \in Fid : fileOf[h] # NoFile => DiskFits(disk'[fileOf[h]], fileInfo'[h])
      /\ \A f \in File : (\A h \in Fid : fileOf[h] # f) => disk'[f] = d[f]
      /\ \A i \in Frame :
             index2page'[i] # NoKey /\ fileOf[index2page'[i][1]] # NoFile =>
                 FrameFits(index2page'[i], dirty'[i], buffer'[i],
                     disk'[fileOf[index2page'[i][1]]], fileInfo'[index2page'[i][1]])
      /\ \A i \in Frame : index2page'[i] \in {index2page[i], k}
    BY <1>0, AccessFits
<1>2. DisksFit(disk, fileInfo)'
    BY <1>0, <1>1 DEF DisksFit
<1>3. FramesFit(disk, fileInfo)'
    BY <1>0, <1>1 DEF FramesFit
<1>4. OpenFit'
    BY <1>0 DEF OpenFit
<1>5. ClosedFit'
    BY <1>0, <1>1 DEF Coherence, ClosedFit
<1>6. CachedOpen'
    BY <1>0, <1>1 DEF Coherence, CachedOpen
<1>. QED
    BY <1>2, <1>3, <1>4, <1>5, <1>6 DEF Coherence

(* An access that changes no header and gives away no page. *)
LEMMA PlainAccess ==
    ASSUME Structure, Coherence, UNCHANGED <<fidVars, closed, fileInfo, live>>,
           NEW k \in Key, Opened(k[1]), k[2] \in live[fileOf[k[1]]],
           NEW w \in BOOLEAN, Access(k, disk, w, Keep)
    PROVE  Coherence'
<1>1. DiskType(disk) /\ fileInfo' \in [Fid -> Header]
    BY DEF DiskType, Structure, TypeOK
<1>2. k[1] \in Fid /\ fileOf[k[1]] # NoFile
    BY DEF Key, Opened
<1>3. k[2] \in 1 .. fileInfo'[k[1]].page_num
    BY <1>2 DEF Coherence, OpenFit, HeaderFits
<1>4. \A h \in Fid : fileOf[h] # NoFile => HeaderFits(live'[fileOf[h]], fileInfo'[h])
    BY DEF Coherence, OpenFit
<1>5. \A f \in File : (\A h \in Fid : fileOf[h] # f) => live'[f] = live[f]
    OBVIOUS
<1>6. DisksFit(disk, fileInfo') /\ FramesFit(disk, fileInfo')
    BY DEF Coherence
<1>7. Access(k, disk, w, Keep) /\ UNCHANGED <<fidVars, closed>>
    OBVIOUS
<1>. QED
    BY <1>1, <1>3, <1>4, <1>5, <1>6, <1>7, AccessKeepsCoherence

(* Reading a page, with or without keeping the pointer. *)
LEMMA ReadsKeepCoherence ==
    ASSUME Structure, Coherence, NEW h \in Fid, NEW p \in PageId,
           ReadPage(h, p) \/ \E w \in BOOLEAN : TakePtr(h, p, w)
    PROVE  Coherence'
<1>1. <<h, p>> \in Key /\ <<h, p>>[1] = h /\ <<h, p>>[2] = p
    BY DEF Key
<1>2. CASE ReadPage(h, p)
    BY <1>1, <1>2, PlainAccess DEF ReadPage
<1>3. ASSUME NEW w \in BOOLEAN, TakePtr(h, p, w) PROVE Coherence'
    BY <1>1, <1>3, PlainAccess DEF TakePtr
<1>. QED
    BY <1>2, <1>3

(* Disk and frames fit any header with the same number of pages. *)
LEMMA LengthsFit ==
    ASSUME Structure, Coherence, NEW info,
           \A g \in Fid : info[g].page_num = fileInfo[g].page_num
    PROVE  DisksFit(disk, info) /\ FramesFit(disk, info)
<1>1. \A j \in Frame : index2page[j] # NoKey => index2page[j][1] \in Fid
    BY DEF Structure, TypeOK, Key
<1>2. DisksFit(disk, info)
    BY DEF Coherence, DisksFit, DiskFits
<1>3. FramesFit(disk, info)
    BY <1>1 DEF Coherence, FramesFit, FrameFits
<1>. QED
    BY <1>2, <1>3

(* deallocate() stores a link to a page the file has. *)
LEMMA DeallocateKeepsCoherence ==
    ASSUME Structure, Coherence, NEW h \in Fid, NEW p \in PageId, Deallocate(h, p)
    PROVE  Coherence'
<1> DEFINE f == fileOf[h]
           k == <<h, p>>
<1>1. k \in Key /\ k[1] = h /\ k[2] = p
    BY DEF Key
<1>2. f # NoFile /\ f \in File /\ Opened(h)
    BY DEF Deallocate, Opened, Structure, TypeOK
<1>3. HeaderFits(live[f], fileInfo[h]) /\ p \in live[f]
    BY <1>2 DEF Coherence, OpenFit, Deallocate
<1>4. p \in 1 .. fileInfo[h].page_num
      /\ fileInfo[h].first_freepage \in 0 .. fileInfo[h].page_num
    BY <1>3 DEF HeaderFits
<1>5. FreeLink(h) \in Page /\ FreeLink(h).next = fileInfo[h].first_freepage
    BY DEF FreeLink, Page, Structure, TypeOK, Header
<1>6. fileInfo' \in [Fid -> Header] /\ DiskType(disk)
    <2>1. Structure'
        BY DeallocateStep
    <2>. QED
        BY <2>1 DEF Structure, TypeOK, DiskType
<1>7. /\ \A g \in Fid : fileInfo'[g].page_num = fileInfo[g].page_num
      /\ \A g \in Fid : g # h => fileInfo'[g] = fileInfo[g]
      /\ fileInfo'[h].first_freepage = p
    BY DEF Deallocate, Structure, TypeOK, Header
<1>8. /\ live'[f] = live[f] \ {p}
      /\ \A g \in File : g # f => live'[g] = live[g]
    BY <1>2 DEF Deallocate, Structure, TypeOK
<1>9. DisksFit(disk, fileInfo') /\ FramesFit(disk, fileInfo')
    BY <1>7, LengthsFit
<1>11. \A g \in Fid : fileOf[g] # NoFile => HeaderFits(live'[fileOf[g]], fileInfo'[g])
    <2>. SUFFICES ASSUME NEW g \in Fid, fileOf[g] # NoFile
                  PROVE  HeaderFits(live'[fileOf[g]], fileInfo'[g])
        OBVIOUS
    <2>1. fileOf[g] \in File /\ HeaderFits(live[fileOf[g]], fileInfo[g])
        BY DEF Structure, TypeOK, Coherence, OpenFit
    <2>2. fileOf[g] = f => g = h
        BY <1>2 DEF Structure, OpenFiles
    <2>3. CASE g = h
        BY <1>3, <1>4, <1>7, <1>8, <2>3 DEF HeaderFits
    <2>4. CASE g # h
        BY <1>7, <1>8, <2>1, <2>2, <2>4
    <2>. QED
        BY <2>3, <2>4
<1>12. \A g \in File : (\A i \in Fid : fileOf[i] # g) => live'[g] = live[g]
    BY <1>8
<1>13. Access(k, disk, TRUE, FreeLink(h)) /\ UNCHANGED <<fidVars, closed>>
    BY DEF Deallocate
<1>14. FreeLink(h).next \in 0 .. fileInfo'[k[1]].page_num
       /\ k[2] \in 1 .. fileInfo'[k[1]].page_num
    BY <1>1, <1>4, <1>5, <1>7
<1>. QED
    BY <1>1, <1>2, <1>5, <1>6, <1>9, <1>11, <1>12, <1>13, <1>14, AccessKeepsCoherence

(* allocate() from the free list: the link it follows is in the file. *)
LEMMA AllocateFreeKeepsCoherence ==
    ASSUME Structure, Coherence, NEW h \in Fid, AllocateFree(h)
    PROVE  Coherence'
<1> DEFINE f == fileOf[h]
           p == fileInfo[h].first_freepage
           k == <<h, p>>
           i == page2index'[k]
<1>1. f # NoFile /\ f \in File /\ Opened(h) /\ UNCHANGED <<fidVars, closed>>
    BY DEF AllocateFree, Opened, Structure, TypeOK
<1>2. HeaderFits(live[f], fileInfo[h]) /\ p # 0
    BY <1>1 DEF Coherence, OpenFit, AllocateFree
<1>3. p \in 1 .. fileInfo[h].page_num /\ fileInfo[h] \in Header
    BY <1>2 DEF HeaderFits, Structure, TypeOK, Header
<1>4. k \in Key /\ k[1] = h /\ k[2] = p
    BY <1>3, PageFsAssumption DEF Key, PageId, Header
<1>5. DiskType(disk) /\ fileInfo \in [Fid -> Header]
    BY DEF DiskType, Structure, TypeOK
<1>6. Access(k, disk, FALSE, Keep)
    BY DEF AllocateFree
<1>7. DisksFit(disk, fileInfo) /\ FramesFit(disk, fileInfo)
    BY DEF Coherence
<1>8. buffer'[i].next \in 0 .. fileInfo[h].page_num
    <2>1. i \in Frame /\ CacheType' /\ MapsInverse'
        BY <1>1, <1>4, <1>5, <1>6, AccessKeepsStructure
    <2>2. index2page'[i] = k
        BY <1>4, <2>1, NullFacts DEF MapsInverse
    <2>3. \A j \in Frame :
              index2page'[j] # NoKey /\ fileOf[index2page'[j][1]] # NoFile =>
                  FrameFits(index2page'[j], dirty'[j], buffer'[j],
                      disk'[fileOf[index2page'[j][1]]], fileInfo[index2page'[j][1]])
        BY <1>1, <1>3, <1>4, <1>5, <1>6, <1>7, AccessFits
    <2>. QED
        BY <1>1, <1>4, <2>1, <2>2, <2>3, NullFacts DEF FrameFits
<1>9. fileInfo' = [fileInfo EXCEPT ![h].first_freepage = buffer'[i].next]
    BY DEF AllocateFree
<1>10. /\ \A g \in Fid : fileInfo'[g].page_num = fileInfo[g].page_num
       /\ \A g \in Fid : g # h => fileInfo'[g] = fileInfo[g]
       /\ fileInfo'[h].first_freepage = buffer'[i].next
    BY <1>5, <1>9 DEF Header
<1>11. fileInfo' \in [Fid -> Header]
    <2>1. Structure'
        BY AllocateFreeStep
    <2>. QED
        BY <2>1 DEF Structure, TypeOK
<1>12. /\ live'[f] = live[f] \cup {p}
       /\ \A g \in File : g # f => live'[g] = live[g]
    BY <1>1 DEF AllocateFree, Structure, TypeOK
<1>13. DisksFit(disk, fileInfo') /\ FramesFit(disk, fileInfo')
    BY <1>10, LengthsFit
<1>15. \A g \in Fid : fileOf[g] # NoFile => HeaderFits(live'[fileOf[g]], fileInfo'[g])
    <2>. SUFFICES ASSUME NEW g \in Fid, fileOf[g] # NoFile
                  PROVE  HeaderFits(live'[fileOf[g]], fileInfo'[g])
        OBVIOUS
    <2>1. fileOf[g] \in File /\ HeaderFits(live[fileOf[g]], fileInfo[g])
        BY DEF Structure, TypeOK, Coherence, OpenFit
    <2>2. fileOf[g] = f => g = h
        BY <1>1 DEF Structure, OpenFiles
    <2>3. CASE g = h
        BY <1>2, <1>3, <1>8, <1>10, <1>12, <2>3 DEF HeaderFits
    <2>4. CASE g # h
        BY <1>10, <1>12, <2>1, <2>2, <2>4
    <2>. QED
        BY <2>3, <2>4
<1>16. \A g \in File : (\A j \in Fid : fileOf[j] # g) => live'[g] = live[g]
    BY <1>12
<1>17. k[2] \in 1 .. fileInfo'[k[1]].page_num
    BY <1>3, <1>4, <1>10
<1>. QED
    BY <1>1, <1>4, <1>5, <1>6, <1>11, <1>13, <1>15, <1>16, <1>17,
       AccessKeepsCoherence

(* allocate() at the end of the file: the page it adds is the next one of  *)
(* the file on disk, and no frame holds it.  d is the disk it leaves       *)
(* before the access.                                                      *)
Extended(f, p) == [disk EXCEPT ![f].extent = 1 .. p, ![f].pages[p] = ZeroPage]

AppendFits(h, f, p, d) ==
    /\ f # NoFile /\ f \in File /\ Opened(h) /\ UNCHANGED <<fidVars, closed>>
    /\ p \in PageId /\ <<h, p>> \in Key /\ p = fileInfo'[h].page_num
    /\ fileInfo[h].page_num \in Nat /\ p # 0
    /\ fileInfo' \in [Fid -> Header]
    /\ fileInfo[h].first_freepage = 0 /\ fileInfo'[h].first_freepage = 0
    /\ \A g \in Fid : g # h => fileInfo'[g] = fileInfo[g]
    /\ live'[f] = live[f] \cup {p}
    /\ \A g \in File : g # f => live'[g] = live[g]
    /\ DiskType(d)
    /\ \A g \in File : g # f => d[g] = disk[g]
    /\ \A q \in PageId : d[f].pages[q]
                         = IF q = p THEN ZeroPage ELSE disk[f].pages[q]
    /\ DisksFit(d, fileInfo') /\ FramesFit(d, fileInfo')
    /\ Access(<<h, p>>, d, FALSE, Keep)

(* Disk and frames fit the longer file. *)
LEMMA AllocateNewFits ==
    ASSUME Structure, Coherence, NEW h \in Fid, AllocateNew(h)
    PROVE  AppendFits(h, fileOf[h], fileInfo[h].page_num + 1,
               Extended(fileOf[h], fileInfo[h].page_num + 1))
<1>. SUFFICES ASSUME NEW f, f = fileOf[h],
                     NEW p, p = fileInfo[h].page_num + 1,
                     NEW d, d = Extended(f, p)
              PROVE  AppendFits(h, f, p, d)
    OBVIOUS
<1> DEFINE n == fileInfo[h].page_num
           k == <<h, p>>
<1>1. f # NoFile /\ f \in File /\ Opened(h) /\ UNCHANGED <<fidVars, closed>>
    BY DEF AllocateNew, Opened, Structure, TypeOK
<1>2. n \in Nat /\ p \in 1 .. MaxPage /\ fileInfo[h].first_freepage = 0
    BY PageFsAssumption DEF AllocateNew, Structure, TypeOK, Header
<1>3. k \in Key /\ k[1] = h /\ k[2] = p /\ p \in PageId
    BY <1>2 DEF Key, PageId
<1>4. disk[f] \in Disk /\ DiskFits(disk[f], fileInfo[h])
    BY <1>1 DEF Structure, TypeOK, OpenFiles, Coherence, DisksFit
<1>5. PICK end \in PageId :
          disk[f].extent = 1 .. end - 1 /\ Access(k, Extended(f, end), FALSE, Keep)
    BY DEF AllocateNew, Extended
<1>6. end = p
    <2>1. 1 .. end - 1 = 1 .. n
        BY <1>4, <1>5 DEF DiskFits
    <2>2. end \in Int /\ end - 1 \in Nat
        BY <1>5, PageFsAssumption DEF PageId
    <2>3. end - 1 <= n
        BY <1>2, <2>1, <2>2
    <2>4. n <= end - 1
        BY <1>2, <2>1, <2>2
    <2>. QED
        BY <1>2, <2>2, <2>3, <2>4
<1> DEFINE e == [disk[f] EXCEPT !.extent = 1 .. p, !.pages[p] = ZeroPage]
<1>7. /\ d = [disk EXCEPT ![f] = e]
      /\ d[f] = e
      /\ \A g \in File : g # f => d[g] = disk[g]
    BY <1>1 DEF Structure, TypeOK, Extended
<1>8. /\ e.extent = 1 .. p
      /\ \A q \in PageId : e.pages[q] = IF q = p THEN ZeroPage ELSE disk[f].pages[q]
    BY <1>3, <1>4 DEF Disk
<1>9. DiskType(d)
    <2>1. 1 .. p \in SUBSET PageId
        BY <1>2, PageFsAssumption DEF PageId
    <2>2. ZeroPage \in Page
        BY PageFsAssumption DEF ZeroPage, Page
    <2>3. e \in Disk
        BY <1>4, <2>1, <2>2 DEF Disk
    <2>. QED
        BY <1>1, <1>7, <2>3, AbsentAssumption DEF DiskType, Structure, TypeOK
<1>10. Access(k, d, FALSE, Keep)
    BY <1>5, <1>6
<1>11. /\ fileInfo' \in [Fid -> Header]
       /\ fileInfo'[h].page_num = p /\ fileInfo'[h].first_freepage = 0
       /\ \A g \in Fid : g # h => fileInfo'[g] = fileInfo[g]
    <2>1. fileInfo' = [fileInfo EXCEPT ![h].page_num = p]
        BY DEF AllocateNew
    <2>2. fileInfo \in [Fid -> Header] /\ p \in 0 .. MaxPage
        BY <1>2 DEF Structure, TypeOK
    <2>. QED
        BY <1>2, <2>1, <2>2 DEF Header
<1>12. /\ live'[f] = live[f] \cup {p}
       /\ \A g \in File : g # f => live'[g] = live[g]
    BY <1>1 DEF AllocateNew, Structure, TypeOK
<1>13. \A g \in Fid : fileOf[g] = f => g = h
    BY <1>1 DEF Structure, OpenFiles
<1>. HIDE DEF e
<1>14. DisksFit(d, fileInfo')
    <2>. SUFFICES ASSUME NEW g \in Fid, fileOf[g] # NoFile
                  PROVE  DiskFits(d[fileOf[g]], fileInfo'[g])
        BY DEF DisksFit
    <2>1. fileOf[g] \in File /\ DiskFits(disk[fileOf[g]], fileInfo[g])
        BY DEF Structure, TypeOK, Coherence, DisksFit
    <2>2. CASE g = h
        <3>1. \A q \in PageId : e.pages[q].next \in 0 .. p
            BY <1>2, <1>4, <1>8 DEF DiskFits, ZeroPage
        <3>. QED
            BY <1>7, <1>8, <1>11, <2>2, <3>1 DEF DiskFits
    <2>3. CASE g # h
        BY <1>7, <1>11, <1>13, <2>1, <2>3
    <2>. QED
        BY <2>2, <2>3
<1>15. FramesFit(d, fileInfo')
    <2>. SUFFICES ASSUME NEW j \in Frame, index2page[j] # NoKey,
                         fileOf[index2page[j][1]] # NoFile
                  PROVE  FrameFits(index2page[j], dirty[j], buffer[j],
                             d[fileOf[index2page[j][1]]], fileInfo'[index2page[j][1]])
        BY DEF FramesFit
    <2> DEFINE g == index2page[j][1]
               q == index2page[j][2]
    <2>1. g \in Fid /\ q \in PageId /\ fileOf[g] \in File
        BY DEF Structure, TypeOK, Key
    <2>2. FrameFits(index2page[j], dirty[j], buffer[j], disk[fileOf[g]], fileInfo[g])
        BY DEF Coherence, FramesFit
    <2>3. CASE g = h
        <3>1. q \in 1 .. n /\ buffer[j].next \in 0 .. n /\ q # p
            BY <1>2, <2>2, <2>3 DEF FrameFits
        <3>2. d[fileOf[g]].pages[q] = disk[fileOf[g]].pages[q]
            BY <1>7, <1>8, <2>1, <2>3, <3>1
        <3>3. q \in 1 .. p /\ buffer[j].next \in 0 .. p
            BY <1>2, <3>1
        <3>. QED
            BY <1>11, <2>2, <2>3, <3>2, <3>3 DEF FrameFits
    <2>4. CASE g # h
        BY <1>7, <1>11, <1>13, <2>1, <2>2, <2>4
    <2>. QED
        BY <2>3, <2>4
<1>16. \A q \in PageId : d[f].pages[q] = IF q = p THEN ZeroPage ELSE disk[f].pages[q]
    BY <1>7, <1>8
<1>17. p # 0 /\ p = fileInfo'[h].page_num
    BY <1>2, <1>11
<1>. QED
    BY <1>1, <1>2, <1>3, <1>7, <1>9, <1>10, <1>11, <1>12, <1>14, <1>15, <1>16, <1>17
    DEF AppendFits

(* allocate() at the end of the file keeps coherence. *)
LEMMA AllocateNewKeepsCoherence ==
    ASSUME Structure, Coherence, NEW h \in Fid, AllocateNew(h)
    PROVE  Coherence'
<1> DEFINE n == fileInfo[h].page_num
<1>1. PICK f, p, d : /\ f = fileOf[h] /\ p = fileInfo[h].page_num + 1
                     /\ d = Extended(f, p)
    OBVIOUS
<1>2. AppendFits(h, f, p, d)
    BY <1>1, AllocateNewFits
<1>. USE DEF AppendFits
<1>3. \A g \in Fid : fileOf[g] # NoFile => HeaderFits(live'[fileOf[g]], fileInfo'[g])
    <2>. SUFFICES ASSUME NEW g \in Fid, fileOf[g] # NoFile
                  PROVE  HeaderFits(live'[fileOf[g]], fileInfo'[g])
        OBVIOUS
    <2>1. fileOf[g] \in File /\ HeaderFits(live[fileOf[g]], fileInfo[g])
        BY DEF Structure, TypeOK, Coherence, OpenFit
    <2>2. CASE g = h
        BY <1>1, <1>2, <2>1, <2>2 DEF HeaderFits
    <2>3. CASE g # h
        <3>1. fileOf[g] # f
            BY <1>1, <1>2, <2>3 DEF Structure, OpenFiles
        <3>. QED
            BY <1>2, <2>1, <2>3, <3>1
    <2>. QED
        BY <2>2, <2>3
<1>4. \A g \in File : (\A j \in Fid : fileOf[j] # g) =>
          live'[g] = live[g] /\ d[g] = disk[g]
    BY <1>1, <1>2
<1>5. <<h, p>>[1] = h /\ <<h, p>>[2] \in 1 .. fileInfo'[h].page_num
    BY <1>1, <1>2
<1>. QED
    BY <1>2, <1>3, <1>4, <1>5, AccessKeepsCoherence

-----------------------------------------------------------------------------
(* writeback(h): the file is what its header says, a clean frame that      *)
(* stays in the cache is a page of it.                                     *)
LEMMA WritebackFits ==
    ASSUME Structure, Coherence, NEW h \in Fid, Opened(h), Writeback(h)
    PROVE  /\ disk'[fileOf[h]] # Absent
           /\ disk'[fileOf[h]].hdr = fileInfo[h]
           /\ \A g \in Fid : fileOf[g] # NoFile =>
                  DiskFits(disk'[fileOf[g]], fileInfo[g])
           /\ \A g \in File : g # fileOf[h] => disk'[g] = disk[g]
           /\ \A i \in Frame : index2page'[i] # NoKey => index2page'[i] = index2page[i]
           /\ \A i \in Frame :
                  index2page'[i] # NoKey /\ fileOf[index2page[i][1]] # NoFile =>
                      FrameFits(index2page[i], dirty[i], buffer[i],
                          disk'[fileOf[index2page[i][1]]], fileInfo[index2page[i][1]])
           /\ UNCHANGED <<dirty, buffer>>
<1> DEFINE f == fileOf[h]
           n == fileInfo[h].page_num
           keys == {index2page[i] : i \in Flushed(h)}
           e == [hdr |-> fileInfo[h],
                 extent |-> disk[f].extent \cup UNION {1 .. k[2] : k \in keys},
                 pages |-> [p \in PageId |->
                              IF <<h, p>> \in keys THEN buffer[page2index[<<h, p>>]]
                              ELSE disk[f].pages[p]]]
<1>1. f # NoFile /\ f \in File
    BY DEF Opened, Structure, TypeOK
<1>2. DiskFits(disk[f], fileInfo[h]) /\ n \in Nat
    BY <1>1, PageFsAssumption DEF Coherence, DisksFit, Structure, TypeOK, Header
<1>3. ASSUME NEW i \in Flushed(h)
      PROVE  /\ i \in Frame /\ index2page[i] \in Key /\ index2page[i] # NoKey
             /\ index2page[i][1] = h /\ page2index[index2page[i]] = i
             /\ index2page[i][2] \in 1 .. n /\ buffer[i].next \in 0 .. n
    <2>1. /\ i \in Frame /\ index2page[i] \in Key /\ index2page[i] # NoKey
          /\ index2page[i][1] = h /\ page2index[index2page[i]] = i
        BY DEF Flushed, Structure, TypeOK, NoKey, Fid, MapsInverse
    <2>. QED
        BY <1>1, <2>1 DEF Coherence, FramesFit, FrameFits
<1>4. disk' = [disk EXCEPT ![f] = e] /\ UNCHANGED <<dirty, buffer>>
    BY DEF Writeback
<1>5. disk'[f] = e /\ \A g \in File : g # f => disk'[g] = disk[g]
    BY <1>1, <1>4 DEF Structure, TypeOK
<1>6. DiskFits(e, fileInfo[h])
    <2>1. \A k \in keys : k[2] \in 1 .. n
        BY <1>3
    <2>2. \A k \in keys : 1 .. k[2] \subseteq 1 .. n
        BY <1>2, <2>1
    <2>3. e.extent = 1 .. n
        BY <1>2, <2>2 DEF DiskFits
    <2>4. \A k \in keys : buffer[page2index[k]].next \in 0 .. n
        BY <1>3
    <2>5. \A p \in PageId : e.pages[p].next \in 0 .. n
        BY <1>2, <2>4 DEF DiskFits
    <2>. QED
        BY <2>3, <2>5 DEF DiskFits
<1>7. disk'[f] # Absent
    <2>1. disk'[f] \in Disk \cup {Absent} /\ DiskType(disk')
        BY <1>1, WritebackKeepsStructure DEF DiskType
    <2>. QED
        BY <1>1, <2>1 DEF DiskType, Structure, OpenFiles
<1>8. \A g \in Fid : fileOf[g] # NoFile => DiskFits(disk'[fileOf[g]], fileInfo[g])
    <2>. SUFFICES ASSUME NEW g \in Fid, fileOf[g] # NoFile
                  PROVE  DiskFits(disk'[fileOf[g]], fileInfo[g])
        OBVIOUS
    <2>1. fileOf[g] \in File /\ DiskFits(disk[fileOf[g]], fileInfo[g])
        BY DEF Structure, TypeOK, Coherence, DisksFit
    <2>2. fileOf[g] = f => g = h
        BY <1>1 DEF Structure, OpenFiles
    <2>. HIDE DEF e
    <2>. QED
        BY <1>5, <1>6, <2>1, <2>2
<1>9. index2page' = [i \in Frame |-> IF i \in Flushed(h) THEN NoKey ELSE index2page[i]]
    BY DEF Writeback, Dropped
<1>10. ASSUME NEW i \in Frame, index2page'[i] # NoKey,
              fileOf[index2page[i][1]] # NoFile
       PROVE  FrameFits(index2page[i], dirty[i], buffer[i],
                  disk'[fileOf[index2page[i][1]]], fileInfo[index2page[i][1]])
    <2> DEFINE g == index2page[i][1]
               q == index2page[i][2]
    <2>1. i \notin Flushed(h) /\ index2page[i] # NoKey
        BY <1>9, <1>10
    <2>2. /\ index2page[i] \in Key /\ index2page[i] = <<g, q>>
          /\ g \in Fid /\ q \in PageId /\ fileOf[g] \in File
        BY <1>10, <2>1 DEF Structure, TypeOK, Key
    <2>3. FrameFits(index2page[i], dirty[i], buffer[i], disk[fileOf[g]], fileInfo[g])
        BY <1>10, <2>1 DEF Coherence, FramesFit
    <2>4. CASE g = h
        <3>1. ~dirty[i]
            BY <2>1, <2>4 DEF Flushed
        <3>2. <<h, q>> \notin keys
            BY <1>3, <2>1, <2>2, <2>4 DEF Structure, MapsInverse
        <3>3. e.pages[q] = disk[f].pages[q]
            BY <2>2, <3>2
        <3>. HIDE DEF e
        <3>. QED
            BY <1>5, <2>3, <2>4, <3>3 DEF FrameFits
    <2>5. CASE g # h
        <3>1. fileOf[g] # f
            BY <1>1, <2>2, <2>5 DEF Structure, OpenFiles
        <3>. QED
            BY <1>5, <2>2, <2>3, <3>1
    <2>. QED
        BY <2>4, <2>5
<1>11. e.hdr = fileInfo[h]
    OBVIOUS
<1>12. \A i \in Frame : index2page'[i] # NoKey => index2page'[i] = index2page[i]
    BY <1>9
<1>. QED
    BY <1>4, <1>5, <1>7, <1>8, <1>10, <1>11, <1>12

(* flush() keeps coherence. *)
LEMMA FlushKeepsCoherence ==
    ASSUME Structure, Coherence, NEW h \in Fid, Flush(h)
    PROVE  Coherence'
<1>1. Opened(h) /\ Writeback(h) /\ UNCHANGED <<used, fileOf, fileInfo, live, closed>>
    BY DEF Flush, fidVars
<1>2. /\ \A g \in Fid : fileOf[g] # NoFile => DiskFits(disk'[fileOf[g]], fileInfo[g])
      /\ \A g \in File : g # fileOf[h] => disk'[g] = disk[g]
      /\ \A i \in Frame : index2page'[i] # NoKey => index2page'[i] = index2page[i]
      /\ \A i \in Frame :
             index2page'[i] # NoKey /\ fileOf[index2page[i][1]] # NoFile =>
                 FrameFits(index2page[i], dirty[i], buffer[i],
                     disk'[fileOf[index2page[i][1]]], fileInfo[index2page[i][1]])
      /\ UNCHANGED <<dirty, buffer>>
    BY <1>1, WritebackFits
<1>3. DisksFit(disk, fileInfo)'
    BY <1>1, <1>2 DEF DisksFit
<1>4. FramesFit(disk, fileInfo)'
    BY <1>1, <1>2 DEF FramesFit
<1>5. OpenFit' /\ CachedOpen'
    BY <1>1, <1>2 DEF Coherence, OpenFit, CachedOpen
<1>6. ClosedFit'
    BY <1>1, <1>2 DEF Coherence, ClosedFit
<1>. QED
    BY <1>3, <1>4, <1>5, <1>6 DEF Coherence

(* close() keeps coherence: it leaves on disk what the header counts.      *)
LEMMA CloseKeepsCoherence ==
    ASSUME Structure, Coherence, NEW h \in Fid, Close(h)
    PROVE  Coherence'
<1> DEFINE f == fileOf[h]
<1>1. /\ Opened(h) /\ Writeback(h) /\ UNCHANGED <<fileInfo, live>>
      /\ fileOf' = [fileOf EXCEPT ![h] = NoFile]
      /\ closed' = TRUE
    BY DEF Close
<1>2. /\ disk'[f] # Absent
      /\ disk'[f].hdr = fileInfo[h]
      /\ \A g \in Fid : fileOf[g] # NoFile => DiskFits(disk'[fileOf[g]], fileInfo[g])
      /\ \A g \in File : g # f => disk'[g] = disk[g]
      /\ \A i \in Frame : index2page'[i] # NoKey => index2page'[i] = index2page[i]
      /\ \A i \in Frame :
             index2page'[i] # NoKey /\ fileOf[index2page[i][1]] # NoFile =>
                 FrameFits(index2page[i], dirty[i], buffer[i],
                     disk'[fileOf[index2page[i][1]]], fileInfo[index2page[i][1]])
      /\ UNCHANGED <<dirty, buffer>>
    BY <1>1, WritebackFits
<1>3. /\ f # NoFile /\ fileOf'[h] = NoFile
      /\ \A g \in Fid : g # h => fileOf'[g] = fileOf[g]
      /\ \A g \in Fid : fileOf'[g] # NoFile => g # h /\ fileOf'[g] = fileOf[g]
    BY <1>1 DEF Opened, Structure, TypeOK
<1>4. DisksFit(disk, fileInfo)'
    BY <1>1, <1>2, <1>3 DEF DisksFit
<1>5. FramesFit(disk, fileInfo)'
    <2>1. \A i \in Frame : index2page'[i] # NoKey => index2page[i][1] \in Fid
        BY <1>2 DEF Structure, TypeOK, Key
    <2>. QED
        BY <1>1, <1>2, <1>3, <2>1 DEF FramesFit
<1>6. OpenFit'
    BY <1>1, <1>3 DEF Coherence, OpenFit
<1>7. CachedOpen'
    BY <1>1 DEF CachedOpen
<1>8. ClosedFit'
    <2>. SUFFICES ASSUME NEW g \in File, \A i \in Fid : fileOf'[i] # g
                  PROVE  IF disk'[g] = Absent THEN live[g] = {}
                         ELSE DiskFits(disk'[g], disk'[g].hdr)
                              /\ HeaderFits(live[g], disk'[g].hdr)
        BY <1>1 DEF ClosedFit
    <2>1. CASE g = f
        <3>1. HeaderFits(live[f], fileInfo[h])
            BY <1>3 DEF Coherence, OpenFit
        <3>. QED
            BY <1>2, <1>3, <2>1, <3>1
    <2>2. CASE g # f
        <3>1. \A i \in Fid : fileOf[i] # g
            BY <1>3, <2>2
        <3>. QED
            BY <1>2, <2>2, <3>1 DEF Coherence, ClosedFit
    <2>. QED
        BY <2>1, <2>2
<1>. QED
    BY <1>4, <1>5, <1>6, <1>7, <1>8 DEF Coherence

-----------------------------------------------------------------------------
(* open() keeps coherence: while no file was closed no frame has its id,   *)
(* and the header it reads is the one the last close() wrote.              *)
LEMMA OpenKeepsCoherence ==
    ASSUME Structure, Coherence, Reopen = FALSE, NEW f \in File, Open(f)
    PROVE  Coherence'
<1> DEFINE h == freeFids[Len(freeFids)]
<1>1. /\ ~closed /\ freeFids # <<>> /\ ~IsOpen(f)
      /\ fileOf' = [fileOf EXCEPT ![h] = f]
      /\ fileInfo' = [fileInfo EXCEPT ![h] = IF disk[f] = Absent THEN EmptyHeader
                                             ELSE disk[f].hdr]
      /\ disk' = IF disk[f] # Absent THEN disk ELSE [disk EXCEPT ![f] = NewFile]
      /\ UNCHANGED <<index2page, dirty, buffer, live, closed>>
    BY DEF Open, cacheVars
<1>2. h \in Fid /\ h \notin used
    <2>1. freeFids \in Seq(Fid)
        BY DEF Structure, TypeOK
    <2>2. Len(freeFids) \in 1 .. Len(freeFids)
        BY <1>1, <2>1, EmptySeq
    <2>3. h \in Fid
        BY <2>1, <2>2, ElementOfSeq
    <2>. QED
        BY <2>2, <2>3 DEF Structure, FidStack
<1>3. fileOf[h] = NoFile /\ \A g \in Fid : fileOf[g] # f
    BY <1>1, <1>2, PageFsAssumption DEF Structure, OpenFiles, IsOpen
<1>4. /\ f # NoFile /\ fileOf'[h] = f
      /\ \A g \in Fid : g # h => fileOf'[g] = fileOf[g] /\ fileInfo'[g] = fileInfo[g]
      /\ fileInfo'[h] = IF disk[f] = Absent THEN EmptyHeader ELSE disk[f].hdr
      /\ \A g \in File : g # f => disk'[g] = disk[g]
      /\ disk'[f] = IF disk[f] = Absent THEN NewFile ELSE disk[f]
    BY <1>1, <1>2, PageFsAssumption DEF Structure, TypeOK
<1>5. \A i \in Frame : index2page[i] # NoKey =>
          /\ index2page[i][1] \in Fid \ {h}
          /\ fileOf[index2page[i][1]] \in File \ {f}
    BY <1>1, <1>3 DEF Coherence, CachedOpen, Structure, TypeOK, Key
<1>6. DiskFits(disk'[f], fileInfo'[h]) /\ HeaderFits(live[f], fileInfo'[h])
    <2>1. CASE disk[f] = Absent
        <3>1. live[f] = {}
            BY <1>3, <2>1 DEF Coherence, ClosedFit
        <3>2. DiskFits(NewFile, EmptyHeader) /\ HeaderFits({}, EmptyHeader)
            BY DEF DiskFits, HeaderFits, NewFile, EmptyHeader, ZeroPage
        <3>. QED
            BY <1>4, <2>1, <3>1, <3>2
    <2>2. CASE disk[f] # Absent
        BY <1>3, <1>4, <2>2 DEF Coherence, ClosedFit
    <2>. QED
        BY <2>1, <2>2
<1>7. DisksFit(disk, fileInfo)'
    <2>. SUFFICES ASSUME NEW g \in Fid, fileOf'[g] # NoFile
                  PROVE  DiskFits(disk'[fileOf'[g]], fileInfo'[g])
        BY DEF DisksFit
    <2>1. CASE g = h
        BY <1>4, <1>6, <2>1
    <2>2. CASE g # h
        <3>1. fileOf'[g] = fileOf[g] /\ fileOf[g] \in File \ {f}
            BY <1>3, <1>4, <2>2 DEF Structure, TypeOK
        <3>. QED
            BY <1>4, <2>2, <3>1 DEF Coherence, DisksFit
    <2>. QED
        BY <2>1, <2>2
<1>8. FramesFit(disk, fileInfo)'
    <2>. SUFFICES ASSUME NEW i \in Frame, index2page'[i] # NoKey
                  PROVE  FrameFits(index2page'[i], dirty'[i], buffer'[i],
                             disk'[fileOf'[index2page'[i][1]]],
                             fileInfo'[index2page'[i][1]])
        BY DEF FramesFit
    <2>1. /\ index2page'[i] = index2page[i] /\ dirty'[i] = dirty[i]
          /\ buffer'[i] = buffer[i]
        BY <1>1
    <2>2. /\ fileOf[index2page[i][1]] # NoFile
          /\ fileOf'[index2page[i][1]] = fileOf[index2page[i][1]]
          /\ fileInfo'[index2page[i][1]] = fileInfo[index2page[i][1]]
          /\ disk'[fileOf[index2page[i][1]]] = disk[fileOf[index2page[i][1]]]
        BY <1>4, <1>5, <2>1, PageFsAssumption
    <2>. QED
        BY <2>1, <2>2 DEF Coherence, FramesFit
<1>9. OpenFit'
    <2>. SUFFICES ASSUME NEW g \in Fid, fileOf'[g] # NoFile
                  PROVE  HeaderFits(live'[fileOf'[g]], fileInfo'[g])
        BY DEF OpenFit
    <2>1. CASE g = h
        BY <1>1, <1>4, <1>6, <2>1
    <2>2. CASE g # h
        BY <1>1, <1>4, <2>2 DEF Coherence, OpenFit
    <2>. QED
        BY <2>1, <2>2
<1>10. ClosedFit'
    <2>. SUFFICES ASSUME NEW g \in File, \A i \in Fid : fileOf'[i] # g
                  PROVE  IF disk'[g] = Absent THEN live'[g] = {}
                         ELSE DiskFits(disk'[g], disk'[g].hdr)
                              /\ HeaderFits(live'[g], disk'[g].hdr)
        BY DEF ClosedFit
    <2>1. g # f /\ \A i \in Fid : fileOf[i] # g
        <3>1. g # f
            BY <1>2, <1>4
        <3>2. g # NoFile
            BY PageFsAssumption
        <3>. QED
            BY <1>3, <1>4, <3>1, <3>2
    <2>. QED
        BY <1>1, <1>4, <2>1 DEF Coherence, ClosedFit
<1>11. CachedOpen'
    <2>1. \A i \in Frame : index2page[i] # NoKey =>
              fileOf'[index2page[i][1]] = fileOf[index2page[i][1]]
        BY <1>4, <1>5
    <2>. QED
        BY <1>1, <1>5, <2>1, PageFsAssumption DEF CachedOpen
<1>. QED
    BY <1>7, <1>8, <1>9, <1>10, <1>11 DEF Coherence

(* A failed open() touches no page. *)
LEMMA OpenFailsKeepsCoherence ==
    ASSUME Coherence, OpenFails
    PROVE  Coherence'
<1>1. UNCHANGED <<fileOf, fileInfo, disk, index2page, dirty, buffer, live, closed>>
    BY DEF OpenFails, cacheVars
<1>. QED
    BY <1>1 DEF Coherence, DisksFit, FramesFit, OpenFit, ClosedFit, CachedOpen

(* A new process has nothing open and nothing cached. *)
LEMMA RestartKeepsCoherence ==
    ASSUME Structure, Coherence, Restart
    PROVE  Coherence'
<1>1. /\ \A h \in Fid : fileOf'[h] = NoFile /\ fileOf[h] = NoFile
      /\ \A i \in Frame : index2page'[i] = NoKey
      /\ UNCHANGED <<fileOf, disk, live>>
    BY DEF Restart, Structure, OpenFiles
<1>2. DisksFit(disk, fileInfo)' /\ OpenFit'
    BY <1>1 DEF DisksFit, OpenFit
<1>3. FramesFit(disk, fileInfo)' /\ CachedOpen'
    BY <1>1 DEF FramesFit, CachedOpen
<1>4. ClosedFit'
    BY <1>1 DEF Coherence, ClosedFit
<1>. QED
    BY <1>2, <1>3, <1>4 DEF Coherence

(* Removing a closed file leaves every open one as it is. *)
LEMMA RemoveKeepsCoherence ==
    ASSUME Structure, Coherence, NEW f \in File, Remove(f)
    PROVE  Coherence'
<1>1. /\ UNCHANGED <<used, fileOf, fileInfo, index2page, dirty, buffer, closed>>
      /\ disk' = [disk EXCEPT ![f] = Absent]
      /\ live' = [live EXCEPT ![f] = {}]
    BY DEF Remove, fidVars, cacheVars
<1>2. \A g \in Fid : fileOf[g] # NoFile => fileOf[g] \in File \ {f}
    BY DEF Remove, IsOpen, Structure, OpenFiles, TypeOK
<1>3. /\ \A g \in File \ {f} : disk'[g] = disk[g] /\ live'[g] = live[g]
      /\ disk'[f] = Absent /\ live'[f] = {}
    BY <1>1 DEF Structure, TypeOK
<1>4. DisksFit(disk, fileInfo)' /\ OpenFit'
    BY <1>1, <1>2, <1>3 DEF Coherence, DisksFit, OpenFit
<1>5. FramesFit(disk, fileInfo)'
    <2>1. \A i \in Frame : index2page[i] # NoKey => index2page[i][1] \in Fid
        BY DEF Structure, TypeOK, Key
    <2>. QED
        BY <1>1, <1>2, <1>3, <2>1 DEF Coherence, FramesFit
<1>6. CachedOpen'
    BY <1>1 DEF Coherence, CachedOpen
<1>7. ClosedFit'
    <2>. SUFFICES ASSUME NEW g \in File, \A i \in Fid : fileOf'[i] # g
                  PROVE  IF disk'[g] = Absent THEN live'[g] = {}
                         ELSE DiskFits(disk'[g], disk'[g].hdr)
                              /\ HeaderFits(live'[g], disk'[g].hdr)
        BY DEF ClosedFit
    <2>1. CASE g = f
        BY <1>3, <2>1
    <2>2. CASE g # f
        BY <1>1, <1>3, <2>2 DEF Coherence, ClosedFit
    <2>. QED
        BY <2>1, <2>2
<1>. QED
    BY <1>4, <1>5, <1>6, <1>7 DEF Coherence

(* A store through a pointer in its window goes to a frame that is or gets *)
(* dirty.                                                                  *)
LEMMA WritePtrKeepsCoherence ==
    ASSUME Structure, Coherence, NEW v \in Value, WritePtr(v)
    PROVE  Coherence'
<1> DEFINE n == ptr.frame
<1>1. /\ ptr # NoPtr /\ ptr.since < Capacity
      /\ buffer' = [buffer EXCEPT ![n] = [magic |-> v, next |-> 0]]
      /\ dirty' = IF ptr.w THEN dirty ELSE [dirty EXCEPT ![page2index[ptr.key]] = TRUE]
      /\ UNCHANGED <<used, fileOf, fileInfo, disk, index2page, live, closed>>
    BY DEF WritePtr, Marked, fidVars
<1>2. /\ n \in Frame /\ page2index[ptr.key] = n
      /\ ptr.w => dirty[n]
    BY <1>1 DEF Structure, TypeOK, PtrType, PtrAge
<1>3. /\ buffer'[n].next = 0 /\ dirty'[n]
      /\ \A i \in Frame : i # n => buffer'[i] = buffer[i] /\ dirty'[i] = dirty[i]
    BY <1>1, <1>2 DEF Structure, TypeOK
<1>4. FramesFit(disk, fileInfo)'
    <2>. SUFFICES ASSUME NEW i \in Frame, index2page'[i] # NoKey,
                         fileOf'[index2page'[i][1]] # NoFile
                  PROVE  FrameFits(index2page'[i], dirty'[i], buffer'[i],
                             disk'[fileOf'[index2page'[i][1]]],
                             fileInfo'[index2page'[i][1]])
        BY DEF FramesFit
    <2>1. FrameFits(index2page[i], dirty[i], buffer[i],
              disk[fileOf[index2page[i][1]]], fileInfo[index2page[i][1]])
        BY <1>1 DEF Coherence, FramesFit
    <2>2. CASE i = n
        <3>1. fileInfo[index2page[i][1]].page_num \in Nat
            BY <1>1, PageFsAssumption DEF Structure, TypeOK, Key, Header
        <3>. QED
            BY <1>1, <1>3, <2>1, <2>2, <3>1 DEF FrameFits
    <2>3. CASE i # n
        BY <1>1, <1>3, <2>1, <2>3
    <2>. QED
        BY <2>2, <2>3
<1>5. DisksFit(disk, fileInfo)' /\ OpenFit' /\ ClosedFit' /\ CachedOpen'
    BY <1>1 DEF Coherence, DisksFit, OpenFit, ClosedFit, CachedOpen
<1>. QED
    BY <1>4, <1>5 DEF Coherence

(* The first process starts coherent. *)
LEMMA CoherenceInit == Init => Coherence
<1>. SUFFICES ASSUME Init PROVE Coherence
    OBVIOUS
<1>1. DisksFit(disk, fileInfo) /\ OpenFit
    BY DEF Init, DisksFit, OpenFit
<1>2. FramesFit(disk, fileInfo) /\ CachedOpen
    BY DEF Init, FramesFit, CachedOpen
<1>3. ClosedFit
    BY DEF Init, ClosedFit
<1>. QED
    BY <1>1, <1>2, <1>3 DEF Coherence

(* Every step keeps coherence, if no file is opened after a close(). *)
LEMMA CoherenceNext ==
    Reopen = FALSE => (Structure /\ Coherence /\ [Next]_vars => Coherence')
<1>. SUFFICES ASSUME Reopen = FALSE, Structure, Coherence, [Next]_vars
              PROVE  Coherence'
    OBVIOUS
<1>1. CASE UNCHANGED vars
    BY <1>1 DEF Coherence, DisksFit, FramesFit, OpenFit, ClosedFit, CachedOpen,
                vars, fidVars, cacheVars
<1>2. ASSUME NEW f \in File, Open(f) \/ Remove(f) PROVE Coherence'
    BY <1>2, OpenKeepsCoherence, RemoveKeepsCoherence
<1>3. CASE OpenFails
    BY <1>3, OpenFailsKeepsCoherence
<1>4. CASE Restart
    BY <1>4, RestartKeepsCoherence
<1>5. ASSUME NEW h \in Fid, Flush(h) \/ Close(h) \/ AllocateNew(h) \/ AllocateFree(h)
      PROVE  Coherence'
    BY <1>5, FlushKeepsCoherence, CloseKeepsCoherence, AllocateNewKeepsCoherence,
       AllocateFreeKeepsCoherence
<1>6. ASSUME NEW h \in Fid, NEW p \in PageId,
             \/ ReadPage(h, p)
             \/ \E w \in BOOLEAN : TakePtr(h, p, w)
             \/ Deallocate(h, p)
      PROVE  Coherence'
    BY <1>6, ReadsKeepCoherence, DeallocateKeepsCoherence
<1>7. ASSUME NEW v \in Value \ {Zero}, WritePtr(v) PROVE Coherence'
    BY <1>7, WritePtrKeepsCoherence
<1>. QED
    BY <1>1, <1>2, <1>3, <1>4, <1>5, <1>6, <1>7 DEF Next, PageNext

(* The cache is coherent in every reachable state, for every size of cache *)
(* and any number of files, if no file is opened after a close().          *)
THEOREM CoherenceInvariant == Reopen = FALSE => (Spec => [](Structure /\ Coherence))
<1>1. Init => Structure /\ Coherence
    BY StructureInit, CoherenceInit
<1>2. Reopen = FALSE =>
          (Structure /\ Coherence /\ [Next]_vars => (Structure /\ Coherence)')
    BY StructureNext, CoherenceNext
<1>. SUFFICES ASSUME Reopen = FALSE PROVE Spec => [](Structure /\ Coherence)
    OBVIOUS
<1>3. Structure /\ Coherence /\ [Next]_vars => (Structure /\ Coherence)'
    BY <1>2
<1>. QED
    BY <1>1, <1>3, PTL DEF Spec

(* A clean cached page of an open file is the page on disk, so evicting it *)
(* without a write loses nothing.                                          *)
THEOREM CleanPagesOnDisk == Reopen = FALSE => (Spec => []CleanIsOnDisk)
<1>1. Structure /\ Coherence => CleanIsOnDisk
    <2>. SUFFICES ASSUME Structure, Coherence, NEW i \in Frame,
                         index2page[i] # NoKey, ~dirty[i], Opened(index2page[i][1])
                  PROVE  LET f == fileOf[index2page[i][1]]
                             p == index2page[i][2]
                         IN  p \in disk[f].extent /\ buffer[i] = disk[f].pages[p]
        BY DEF CleanIsOnDisk
    <2>1. index2page[i][1] \in Fid /\ fileOf[index2page[i][1]] # NoFile
        BY DEF Structure, TypeOK, Key, Opened
    <2>. QED
        BY <2>1 DEF Coherence, DisksFit, DiskFits, FramesFit, FrameFits
<1>. SUFFICES ASSUME Reopen = FALSE PROVE Spec => []CleanIsOnDisk
    OBVIOUS
<1>2. Spec => [](Structure /\ Coherence)
    BY CoherenceInvariant
<1>. QED
    BY <1>1, <1>2, PTL

(* Every dirty page belongs to an open file and is one its header counts:  *)
(* the assertions of write_page_to_file() hold at every write-back.        *)
THEOREM DirtyPagesWritable == Reopen = FALSE => (Spec => []DirtyWritable)
<1>1. Structure /\ Coherence => DirtyWritable
    BY DEF Structure, DirtyOpen, DirtyWritable, Opened, Coherence, FramesFit, FrameFits
<1>. SUFFICES ASSUME Reopen = FALSE PROVE Spec => []DirtyWritable
    OBVIOUS
<1>2. Spec => [](Structure /\ Coherence)
    BY CoherenceInvariant
<1>. QED
    BY <1>1, <1>2, PTL

-----------------------------------------------------------------------------
(***************************************************************************)
(* Third, that the paged file system is the store without a cache that     *)
(* PageStore describes, if no file is opened once another was closed: page *)
(* contents change only by what callers store, and allocate() gives a page *)
(* to one caller at a time.  And that its free list is exactly the free    *)
(* pages.                                                                  *)
(***************************************************************************)
HeaderOf(f) == IF IsOpen(f) THEN fileInfo[HandleOf(f)] ELSE disk[f].hdr

(* The free list, link by link: some order s[n], ..., s[1] of the pages    *)
(* nobody owns starts at the header's first free page, each links to the   *)
(* one after it, and the last to no page.  No page is left out, and none   *)
(* comes twice.                                                            *)
FreeOrder(n, s, first, free, next) ==
    /\ s[0] = 0
    /\ s[n] = first
    /\ \A i \in 1 .. n : s[i] \in free /\ next[s[i]] = s[i - 1]
    /\ \A p \in free : \E i \in 1 .. n : s[i] = p
    /\ \A i, j \in 1 .. n : s[i] = s[j] => i = j

FreeFits(hdr, owned, next) ==
    \E n \in Nat : \E s \in [0 .. n -> Nat] :
        FreeOrder(n, s, hdr.first_freepage, (1 .. hdr.page_num) \ owned, next)

Links(f) == [p \in PageId |-> Seen(f, p).next]

FileSound(f) == disk[f] # Absent => FreeFits(HeaderOf(f), live[f], Links(f))

FreeSound == \A f \in File : FileSound(f)

(* Callers keep pointers only to pages they own. *)
PtrLive == ptr # NoPtr => ptr.key[2] \in live[fileOf[ptr.key[1]]]

Sound == Structure /\ Coherence /\ FreeSound /\ PtrLive

Contents == [f \in File |-> [p \in live[f] |-> Seen(f, p).magic]]

-----------------------------------------------------------------------------
(* The list starts at a page nobody owns, or is empty. *)
LEMMA FreeHead ==
    ASSUME NEW hdr, NEW owned, NEW next, FreeFits(hdr, owned, next)
    PROVE  hdr.first_freepage \in ((1 .. hdr.page_num) \ owned) \cup {0}
<1> DEFINE free == (1 .. hdr.page_num) \ owned
<1>0. PICK n \in Nat : \E s \in [0 .. n -> Nat] :
          FreeOrder(n, s, hdr.first_freepage, free, next)
    BY DEF FreeFits
<1>00. PICK s \in [0 .. n -> Nat] : FreeOrder(n, s, hdr.first_freepage, free, next)
    BY <1>0
<1>1. /\ s[0] = 0
      /\ s[n] = hdr.first_freepage
      /\ \A i \in 1 .. n : s[i] \in free /\ next[s[i]] = s[i - 1]
      /\ \A q \in free : \E i \in 1 .. n : s[i] = q
      /\ \A i, j \in 1 .. n : s[i] = s[j] => i = j
    BY <1>00 DEF FreeOrder
<1>. HIDE DEF free
<1>2. n = 0 \/ n \in 1 .. n
    OBVIOUS
<1>. QED
    BY <1>1, <1>2 DEF free

(* allocate() takes the head of the free list. *)
LEMMA FreeTaken ==
    ASSUME NEW hdr, NEW owned, NEW next, FreeFits(hdr, owned, next),
           hdr.first_freepage # 0,
           NEW hdr2, hdr2.page_num = hdr.page_num,
           hdr2.first_freepage = next[hdr.first_freepage]
    PROVE  FreeFits(hdr2, owned \cup {hdr.first_freepage}, next)
<1> DEFINE free == (1 .. hdr.page_num) \ owned
           rest == (1 .. hdr2.page_num) \ (owned \cup {hdr.first_freepage})
<1>0. PICK n \in Nat : \E s \in [0 .. n -> Nat] :
          FreeOrder(n, s, hdr.first_freepage, free, next)
    BY DEF FreeFits
<1>00. PICK s \in [0 .. n -> Nat] : FreeOrder(n, s, hdr.first_freepage, free, next)
    BY <1>0
<1>1. /\ s[0] = 0
      /\ s[n] = hdr.first_freepage
      /\ \A i \in 1 .. n : s[i] \in free /\ next[s[i]] = s[i - 1]
      /\ \A q \in free : \E i \in 1 .. n : s[i] = q
      /\ \A i, j \in 1 .. n : s[i] = s[j] => i = j
    BY <1>00 DEF FreeOrder
<1>2. rest = free \ {s[n]}
    BY <1>1
<1>. HIDE DEF free, rest
<1>3. n # 0
    BY <1>1
<1>4. PICK m \in Nat : n = m + 1
    <2>1. n - 1 \in Nat /\ n = (n - 1) + 1
        BY <1>3
    <2>. QED
        BY <2>1
<1>5. PICK t \in [0 .. m -> Nat] : \A i \in 0 .. m : t[i] = s[i]
    <2>1. [i \in 0 .. m |-> s[i]] \in [0 .. m -> Nat]
        BY <1>4
    <2>. QED
        BY <2>1
<1>6. /\ 0 \in 0 .. m /\ m \in 0 .. m /\ n \in 1 .. n /\ n - 1 = m
      /\ \A i \in 1 .. m : i \in 1 .. n /\ i \in 0 .. m /\ i - 1 \in 0 .. m /\ i # n
      /\ \A i \in 1 .. n : i = n \/ i \in 1 .. m
    BY <1>4
<1>7. t[0] = 0 /\ t[m] = hdr2.first_freepage
    <2>1. next[s[n]] = s[m]
        BY <1>1, <1>6
    <2>. QED
        BY <1>1, <1>5, <1>6, <2>1
<1>8. ASSUME NEW i \in 1 .. m PROVE t[i] \in rest /\ next[t[i]] = t[i - 1]
    <2>1. t[i] = s[i] /\ t[i - 1] = s[i - 1] /\ i \in 1 .. n /\ i # n
        BY <1>5, <1>6
    <2>2. s[i] \in free /\ next[s[i]] = s[i - 1] /\ s[i] # s[n]
        BY <1>1, <1>6, <2>1
    <2>. QED
        BY <1>2, <2>1, <2>2
<1>9. \A p \in rest : \E i \in 1 .. m : t[i] = p
    <2>. SUFFICES ASSUME NEW p \in rest PROVE \E i \in 1 .. m : t[i] = p
        OBVIOUS
    <2>1. p \in free /\ p # s[n]
        BY <1>2
    <2>2. PICK i \in 1 .. n : s[i] = p
        BY <1>1, <2>1
    <2>3. i \in 1 .. m /\ t[i] = s[i]
        BY <1>5, <1>6, <2>1, <2>2
    <2>. QED
        BY <2>2, <2>3
<1>10. \A i, j \in 1 .. m : t[i] = t[j] => i = j
    BY <1>1, <1>5, <1>6
<1>. QED
    <2>1. FreeOrder(m, t, hdr2.first_freepage, rest, next)
        BY <1>7, <1>8, <1>9, <1>10 DEF FreeOrder
    <2>. QED
        BY <2>1 DEF FreeFits, rest

(* deallocate() puts a page in front of it. *)
LEMMA FreePut ==
    ASSUME NEW hdr, NEW owned, NEW next, FreeFits(hdr, owned, next),
           hdr.page_num \in Nat, NEW p \in owned, p \in 1 .. hdr.page_num,
           NEW hdr2, hdr2.page_num = hdr.page_num, hdr2.first_freepage = p,
           NEW next2, next2[p] = hdr.first_freepage,
           \A q \in (1 .. hdr.page_num) \ owned : next2[q] = next[q]
    PROVE  FreeFits(hdr2, owned \ {p}, next2)
<1> DEFINE free == (1 .. hdr.page_num) \ owned
           more == (1 .. hdr2.page_num) \ (owned \ {p})
<1>0. PICK n \in Nat : \E s \in [0 .. n -> Nat] :
          FreeOrder(n, s, hdr.first_freepage, free, next)
    BY DEF FreeFits
<1>00. PICK s \in [0 .. n -> Nat] : FreeOrder(n, s, hdr.first_freepage, free, next)
    BY <1>0
<1>1. /\ s[0] = 0
      /\ s[n] = hdr.first_freepage
      /\ \A i \in 1 .. n : s[i] \in free /\ next[s[i]] = s[i - 1]
      /\ \A q \in free : \E i \in 1 .. n : s[i] = q
      /\ \A i, j \in 1 .. n : s[i] = s[j] => i = j
    BY <1>00 DEF FreeOrder
<1>2. more = free \cup {p} /\ p \notin free /\ p \in Nat
    OBVIOUS
<1>3. \A q \in free : next2[q] = next[q]
    OBVIOUS
<1>. HIDE DEF free, more
<1>4. PICK m \in Nat : m = n + 1
    OBVIOUS
<1>5. PICK t \in [0 .. m -> Nat] : t[m] = p /\ \A i \in 0 .. n : t[i] = s[i]
    <2> DEFINE t == [i \in 0 .. m |-> IF i = m THEN p ELSE s[i]]
    <2>1. t \in [0 .. m -> Nat]
        BY <1>2, <1>4
    <2>2. t[m] = p /\ \A i \in 0 .. n : t[i] = s[i]
        BY <1>4
    <2>. QED
        BY <2>1, <2>2
<1>6. /\ 0 \in 0 .. n /\ n \in 0 .. n /\ m \in 1 .. m /\ m - 1 = n
      /\ \A i \in 1 .. n : i \in 1 .. m /\ i \in 0 .. n /\ i - 1 \in 0 .. n /\ i # m
      /\ \A i \in 1 .. m : i = m \/ i \in 1 .. n
    BY <1>4
<1>7. t[0] = 0 /\ t[m] = hdr2.first_freepage
    BY <1>1, <1>5, <1>6
<1>8. ASSUME NEW i \in 1 .. m PROVE t[i] \in more /\ next2[t[i]] = t[i - 1]
    <2>1. CASE i = m
        <3>1. t[i] = p /\ t[i - 1] = s[n]
            BY <1>5, <1>6, <2>1
        <3>. QED
            BY <1>1, <1>2, <3>1
    <2>2. CASE i \in 1 .. n
        <3>1. t[i] = s[i] /\ t[i - 1] = s[i - 1]
            BY <1>5, <1>6, <2>2
        <3>2. s[i] \in free /\ next[s[i]] = s[i - 1]
            BY <1>1, <2>2
        <3>. QED
            BY <1>2, <1>3, <3>1, <3>2
    <2>. QED
        BY <1>6, <2>1, <2>2
<1>9. \A q \in more : \E i \in 1 .. m : t[i] = q
    <2>. SUFFICES ASSUME NEW q \in free PROVE \E i \in 1 .. m : t[i] = q
        BY <1>2, <1>5, <1>6
    <2>1. PICK i \in 1 .. n : s[i] = q
        BY <1>1
    <2>. QED
        BY <1>5, <1>6, <2>1
<1>10. ASSUME NEW i \in 1 .. m, NEW j \in 1 .. m, t[i] = t[j] PROVE i = j
    <2>1. \A k \in 1 .. n : t[k] = s[k] /\ s[k] # p
        BY <1>1, <1>2, <1>5, <1>6
    <2>. QED
        BY <1>1, <1>5, <1>6, <1>10, <2>1
<1>. QED
    <2>1. FreeOrder(m, t, hdr2.first_freepage, more, next2)
        BY <1>7, <1>8, <1>9, <1>10 DEF FreeOrder
    <2>. QED
        BY <2>1 DEF FreeFits, more

(* allocate() appends a page its caller owns. *)
LEMMA FreeAppended ==
    ASSUME NEW hdr, NEW owned, NEW next, FreeFits(hdr, owned, next),
           hdr.page_num \in Nat, NEW hdr2, hdr2.page_num = hdr.page_num + 1,
           hdr2.first_freepage = hdr.first_freepage,
           NEW next2, \A q \in (1 .. hdr.page_num) \ owned : next2[q] = next[q]
    PROVE  FreeFits(hdr2, owned \cup {hdr.page_num + 1}, next2)
<1> DEFINE free == (1 .. hdr.page_num) \ owned
           same == (1 .. hdr2.page_num) \ (owned \cup {hdr.page_num + 1})
<1>0. PICK n \in Nat : \E s \in [0 .. n -> Nat] :
          FreeOrder(n, s, hdr.first_freepage, free, next)
    BY DEF FreeFits
<1>00. PICK s \in [0 .. n -> Nat] : FreeOrder(n, s, hdr.first_freepage, free, next)
    BY <1>0
<1>1. /\ s[0] = 0
      /\ s[n] = hdr.first_freepage
      /\ \A i \in 1 .. n : s[i] \in free /\ next[s[i]] = s[i - 1]
      /\ \A q \in free : \E i \in 1 .. n : s[i] = q
      /\ \A i, j \in 1 .. n : s[i] = s[j] => i = j
    BY <1>00 DEF FreeOrder
<1>2. same = free
    OBVIOUS
<1>3. \A q \in free : next2[q] = next[q]
    OBVIOUS
<1>. HIDE DEF free, same
<1>4. \A i \in 1 .. n : s[i] \in same /\ next2[s[i]] = s[i - 1]
    BY <1>1, <1>2, <1>3
<1>. QED
    <2>1. FreeOrder(n, s, hdr2.first_freepage, same, next2)
        BY <1>1, <1>2, <1>4 DEF FreeOrder
    <2>. QED
        BY <2>1 DEF FreeFits, same

(* A step that changes no link of a free page keeps the list. *)
LEMMA FreeKept ==
    ASSUME NEW hdr, NEW owned, NEW next, FreeFits(hdr, owned, next),
           NEW next2, \A q \in (1 .. hdr.page_num) \ owned : next2[q] = next[q]
    PROVE  FreeFits(hdr, owned, next2)
<1> DEFINE free == (1 .. hdr.page_num) \ owned
<1>0. PICK n \in Nat : \E s \in [0 .. n -> Nat] :
          FreeOrder(n, s, hdr.first_freepage, free, next)
    BY DEF FreeFits
<1>00. PICK s \in [0 .. n -> Nat] : FreeOrder(n, s, hdr.first_freepage, free, next)
    BY <1>0
<1>1. /\ s[0] = 0
      /\ s[n] = hdr.first_freepage
      /\ \A i \in 1 .. n : s[i] \in free /\ next[s[i]] = s[i - 1]
      /\ \A q \in free : \E i \in 1 .. n : s[i] = q
      /\ \A i, j \in 1 .. n : s[i] = s[j] => i = j
    BY <1>00 DEF FreeOrder
<1>2. \A i \in 1 .. n : s[i] \in free /\ next2[s[i]] = s[i - 1]
    BY <1>1
<1>. HIDE DEF free
<1>. QED
    <2>1. FreeOrder(n, s, hdr.first_freepage, free, next2)
        BY <1>1, <1>2 DEF FreeOrder
    <2>. QED
        BY <2>1 DEF FreeFits, free

(* A file without pages has no free page. *)
LEMMA FreeNone ==
    ASSUME NEW next
    PROVE  FreeFits(EmptyHeader, {}, next)
<1>1. PICK s \in [0 .. 0 -> Nat] : s[0] = 0
    <2>1. [i \in 0 .. 0 |-> 0] \in [0 .. 0 -> Nat] /\ [i \in 0 .. 0 |-> 0][0] = 0
        OBVIOUS
    <2>. QED
        BY <2>1
<1>2. 1 .. 0 = {} /\ EmptyHeader.page_num = 0 /\ EmptyHeader.first_freepage = 0
    BY DEF EmptyHeader
<1>3. FreeOrder(0, s, 0, {}, next)
    BY <1>1, <1>2 DEF FreeOrder
<1>. QED
    BY <1>2, <1>3 DEF FreeFits

-----------------------------------------------------------------------------
(* HandleOf picks the only id that stands for a file. *)
LEMMA HandleUnique ==
    ASSUME NEW ids, NEW names, NEW f, NEW h \in ids, names[h] = f,
           \A g \in ids : names[g] = f => g = h
    PROVE  (CHOOSE g \in ids : names[g] = f) = h
OBVIOUS

(* An id that stands for a file is the one the file is seen through. *)
LEMMA SeenOpen ==
    ASSUME Structure, NEW h \in Fid, fileOf[h] # NoFile
    PROVE  IsOpen(fileOf[h]) /\ HandleOf(fileOf[h]) = h
<1>1. h \in used /\ \A g \in Fid : fileOf[g] = fileOf[h] => g = h
    BY DEF Structure, OpenFiles
<1>2. used \subseteq Fid
    BY DEF Structure, TypeOK
<1>. QED
    BY <1>1, <1>2, HandleUnique DEF IsOpen, HandleOf

(* No id stands for a file that is not open. *)
LEMMA SeenClosed ==
    ASSUME Structure, NEW f \in File, ~IsOpen(f)
    PROVE  \A h \in Fid : fileOf[h] # f
BY PageFsAssumption DEF Structure, OpenFiles, IsOpen

(* An open file is there, and its id stands for it. *)
LEMMA OpenHandle ==
    ASSUME Structure, NEW f \in File, IsOpen(f)
    PROVE  HandleOf(f) \in Fid /\ fileOf[HandleOf(f)] = f /\ f # NoFile
           /\ disk[f] # Absent
<1>1. PICK h \in used : fileOf[h] = f
    BY DEF IsOpen
<1>2. h \in Fid /\ f # NoFile
    BY PageFsAssumption DEF Structure, TypeOK
<1>3. HandleOf(f) = h
    BY <1>1, <1>2, SeenOpen
<1>. QED
    BY <1>1, <1>2, <1>3 DEF Structure, OpenFiles

(* Pages somebody owns are in a file that is there. *)
LEMMA OwnedThere ==
    ASSUME Sound, NEW f \in File, NEW p \in live[f]
    PROVE  disk[f] # Absent /\ p \in PageId
<1>1. p \in PageId
    BY DEF Sound, Structure, TypeOK
<1>2. CASE IsOpen(f)
    BY <1>1, <1>2, OpenHandle DEF Sound
<1>3. CASE ~IsOpen(f)
    BY <1>1, <1>3, SeenClosed DEF Sound, Coherence, ClosedFit
<1>. QED
    BY <1>2, <1>3

(* A file is as it was if its header, its owners and what callers see of   *)
(* it are.                                                                 *)
LEMMA FileKept ==
    ASSUME Sound, NEW f \in File, disk'[f] # Absent => disk[f] # Absent,
           disk[f] # Absent => HeaderOf(f)' = HeaderOf(f),
           live'[f] = live[f],
           disk[f] # Absent => \A p \in PageId : Seen(f, p)' = Seen(f, p)
    PROVE  FileSound(f)' /\ Contents'[f] = Contents[f]
<1>1. \A p \in live[f] : Seen(f, p)' = Seen(f, p)
    BY OwnedThere
<1>2. Contents'[f] = Contents[f]
    BY <1>1 DEF Contents
<1>3. ASSUME disk'[f] # Absent PROVE FreeFits(HeaderOf(f)', live'[f], Links(f)')
    <2>1. Links(f)' = Links(f)
        BY <1>3 DEF Links
    <2>. QED
        BY <1>3, <2>1 DEF Sound, FreeSound, FileSound
<1>. QED
    BY <1>2, <1>3 DEF FileSound, FreeFits, FreeOrder

-----------------------------------------------------------------------------
(* What callers would see with d as the disk. *)
ViewOn(d, h, p) ==
    LET i == page2index[<<h, p>>] IN
    IF i # NoFrame THEN buffer[i] ELSE d[fileOf[h]].pages[p]

SeenOn(d, f, p) ==
    IF IsOpen(f) THEN ViewOn(d, HandleOf(f), p) ELSE d[f].pages[p]

(* Writing the victim back changes one page on disk, if it is dirty.       *)
LEMMA EvictedPages ==
    ASSUME Structure, NEW d, DiskType(d),
           NEW h \in Fid, fileOf[h] # NoFile, NEW p \in PageId
    PROVE  Evicted(d)[fileOf[h]].pages[p]
           = IF index2page[Victim] = <<h, p>> /\ dirty[Victim] THEN buffer[Victim]
             ELSE d[fileOf[h]].pages[p]
<1>1. Victim \in Frame
    BY VictimExists DEF Structure, TypeOK
<1>2. <<h, p>> # NoKey
    BY DEF NoKey, Fid
<1>3. CASE index2page[Victim] # NoKey /\ dirty[Victim]
    <2> DEFINE g == index2page[Victim][1]
               q == index2page[Victim][2]
               f == fileOf[g]
               e == [d[f] EXCEPT !.pages[q] = buffer[Victim],
                                 !.extent = @ \cup 1 .. q]
    <2>1. g \in Fid /\ q \in PageId /\ index2page[Victim] = <<g, q>>
        BY <1>1, <1>3 DEF Structure, TypeOK, Key
    <2>2. f # NoFile /\ f \in File /\ d[f] \in Disk
        BY <1>1, <1>3, <2>1 DEF Structure, DirtyOpen, Opened, TypeOK, OpenFiles, DiskType
    <2>3. Evicted(d) = [d EXCEPT ![f] = e]
        BY <1>3, <2>2 DEF Evicted, WriteFrame, DiskType, Disk
    <2>4. Evicted(d)[f] = e /\ \A c \in File : c # f => Evicted(d)[c] = d[c]
        BY <2>2, <2>3 DEF DiskType
    <2>5. \A r \in PageId : e.pages[r] = IF r = q THEN buffer[Victim] ELSE d[f].pages[r]
        BY <2>1, <2>2 DEF Disk
    <2>6. fileOf[h] \in File /\ (fileOf[h] = f => g = h)
        BY <2>1, <2>2 DEF Structure, TypeOK, OpenFiles
    <2>. HIDE DEF e
    <2>7. CASE g = h
        BY <1>3, <2>1, <2>4, <2>5, <2>7
    <2>8. CASE g # h
        BY <2>1, <2>4, <2>6, <2>8
    <2>. QED
        BY <2>7, <2>8
<1>4. CASE ~(index2page[Victim] # NoKey /\ dirty[Victim])
    BY <1>2, <1>4 DEF Evicted
<1>. QED
    BY <1>3, <1>4

(* read() and read_for_write() show every open file as it was, but for     *)
(* what the caller stores.                                                 *)
LEMMA AccessViews ==
    ASSUME Structure, UNCHANGED fidVars,
           NEW d, DiskType(d), NEW info \in [Fid -> Header],
           DisksFit(d, info), FramesFit(d, info),
           NEW k \in Key, fileOf[k[1]] # NoFile, k[2] \in 1 .. info[k[1]].page_num,
           NEW w \in BOOLEAN, NEW new,
           Access(k, d, w, new),
           NEW h \in Fid, fileOf[h] # NoFile, NEW p \in PageId
    PROVE  View(h, p)' = IF <<h, p>> = k THEN Written(ViewOn(d, h, p), new)
                         ELSE ViewOn(d, h, p)
<1>. USE NullFacts
<1>0. /\ dirty \in [Frame -> BOOLEAN]
      /\ buffer \in [Frame -> Page]
      /\ index2page \in [Frame -> Key \cup {NoKey}]
      /\ page2index \in [Key -> Frame \cup {NoFrame}]
      /\ MapsInverse /\ fileOf' = fileOf
    BY DEF Structure, TypeOK, fidVars
<1> DEFINE q == <<h, p>>
<1>1. q \in Key
    BY DEF Key
<1>2. CASE Hit(k, d, w, new)
    <2> DEFINE n == page2index[k]
    <2>1. n \in Frame
        BY <1>0, <1>2 DEF Hit
    <2>2. /\ page2index' = page2index /\ disk' = d
          /\ \A i \in Frame : i # n => buffer'[i] = buffer[i]
          /\ buffer'[n] = Written(buffer[n], new)
        BY <1>0, <1>2, <2>1 DEF Hit
    <2>3. CASE q = k
        BY <1>0, <2>1, <2>2, <2>3 DEF View, ViewOn
    <2>4. CASE q # k
        <3>1. page2index[q] # n
            BY <1>0, <1>1, <2>1, <2>4 DEF MapsInverse
        <3>2. page2index[q] # NoFrame => buffer'[page2index[q]] = buffer[page2index[q]]
            BY <1>0, <1>1, <2>2, <3>1
        <3>. QED
            BY <1>0, <2>2, <2>4, <3>2 DEF View, ViewOn
    <2>. QED
        BY <2>3, <2>4
<1>3. CASE Miss(k, d, w, new)
    <2> DEFINE n == Victim
               e == Evicted(d)
    <2>1. n \in Frame
        BY VictimExists DEF Structure, TypeOK
    <2>2. /\ disk' = e
          /\ page2index[k] = NoFrame
          /\ page2index' = Remapped(k, n)
          /\ buffer' = [buffer EXCEPT ![n] = Written(Loaded(e, k, n), new)]
        BY <1>3 DEF Miss
    <2>3. index2page[n] # k
        BY <1>0, <2>1, <2>2 DEF MapsInverse
    <2>4. e[fileOf[h]].pages[p] = IF index2page[n] = q /\ dirty[n] THEN buffer[n]
                                  ELSE d[fileOf[h]].pages[p]
        BY EvictedPages
    <2>5. CASE q = k
        <3>1. DisksFit(e, info)
            BY EvictedFits
        <3>2. Loaded(e, k, n) = e[fileOf[h]].pages[p]
            <4>1. k[1] = h /\ k[2] = p
                BY <2>5
            <4>2. DiskFits(e[fileOf[h]], info[h])
                BY <3>1 DEF DisksFit
            <4>. HIDE DEF e
            <4>. QED
                BY <4>1, <4>2 DEF Loaded, DiskFits
        <3>3. Loaded(e, k, n) = ViewOn(d, h, p)
            BY <2>2, <2>3, <2>4, <2>5, <3>2 DEF ViewOn
        <3>4. page2index'[q] = n /\ n # NoFrame
            BY <1>1, <2>1, <2>2, <2>5 DEF Remapped
        <3>5. buffer'[n] = Written(Loaded(e, k, n), new)
            BY <1>0, <2>1, <2>2
        <3>. QED
            BY <2>5, <3>3, <3>4, <3>5 DEF View
    <2>6. CASE q # k /\ index2page[n] = q
        <3>1. page2index'[q] = NoFrame /\ page2index[q] = n /\ n # NoFrame
            BY <1>0, <1>1, <2>1, <2>2, <2>6 DEF Remapped, MapsInverse
        <3>2. e[fileOf[h]].pages[p] = buffer[n]
            <4>1. index2page[n] # NoKey /\ index2page[n][1] = h /\ index2page[n][2] = p
                BY <1>1, <2>6
            <4>2. FrameFits(index2page[n], dirty[n], buffer[n], d[fileOf[h]], info[h])
                BY <2>1, <4>1 DEF FramesFit
            <4>3. ~dirty[n] => buffer[n] = d[fileOf[h]].pages[p]
                BY <4>1, <4>2 DEF FrameFits
            <4>. QED
                BY <2>4, <2>6, <4>3
        <3>3. ViewOn(d, h, p) = buffer[n]
            BY <3>1 DEF ViewOn
        <3>4. View(h, p)' = e[fileOf[h]].pages[p]
            BY <1>0, <2>2, <3>1 DEF View
        <3>. QED
            BY <2>6, <3>2, <3>3, <3>4
    <2>7. CASE q # k /\ index2page[n] # q
        <3>1. page2index'[q] = page2index[q]
            BY <1>1, <2>2, <2>7 DEF Remapped
        <3>2. page2index[q] # NoFrame => page2index[q] \in Frame /\ page2index[q] # n
            BY <1>0, <1>1, <2>7 DEF MapsInverse
        <3>3. page2index[q] # NoFrame => buffer'[page2index[q]] = buffer[page2index[q]]
            BY <1>0, <2>2, <3>2
        <3>4. e[fileOf[h]].pages[p] = d[fileOf[h]].pages[p]
            BY <2>4, <2>7
        <3>. HIDE DEF e
        <3>. QED
            BY <1>0, <2>2, <2>7, <3>1, <3>3, <3>4 DEF View, ViewOn
    <2>. QED
        BY <2>5, <2>6, <2>7
<1>. QED
    BY <1>2, <1>3 DEF Access

(* The same by file, open or not. *)
LEMMA AccessSeen ==
    ASSUME Structure, UNCHANGED fidVars,
           NEW d, DiskType(d), NEW info \in [Fid -> Header],
           DisksFit(d, info), FramesFit(d, info),
           NEW k \in Key, fileOf[k[1]] # NoFile, k[2] \in 1 .. info[k[1]].page_num,
           NEW w \in BOOLEAN, NEW new,
           new = Keep \/ (w /\ new \in Page /\ new.next \in 0 .. info[k[1]].page_num),
           Access(k, d, w, new)
    PROVE  /\ \A f \in File, p \in PageId :
                  Seen(f, p)' = IF f = fileOf[k[1]] /\ p = k[2]
                                THEN Written(SeenOn(d, f, p), new)
                                ELSE SeenOn(d, f, p)
           /\ \A f \in File : ~IsOpen(f) => disk'[f] = d[f]
<1>1. UNCHANGED <<used, fileOf>>
    BY DEF fidVars
<1>2. \A f \in File : IsOpen(f)' = IsOpen(f) /\ HandleOf(f)' = HandleOf(f)
    BY <1>1 DEF IsOpen, HandleOf
<1>3. k[1] \in Fid /\ k[2] \in PageId /\ k = <<k[1], k[2]>>
    BY DEF Key
<1>4. \A f \in File : ~IsOpen(f) => disk'[f] = d[f]
    <2>1. \A f \in File : (\A h \in Fid : fileOf[h] # f) => disk'[f] = d[f]
        BY AccessFits
    <2>. QED
        BY <2>1, SeenClosed
<1>5. ASSUME NEW f \in File, NEW p \in PageId, IsOpen(f)
      PROVE  Seen(f, p)' = IF f = fileOf[k[1]] /\ p = k[2]
                           THEN Written(SeenOn(d, f, p), new)
                           ELSE SeenOn(d, f, p)
    <2>1. PICK h \in Fid : h = HandleOf(f) /\ fileOf[h] = f /\ f # NoFile
        BY <1>5, OpenHandle
    <2>2. View(h, p)' = IF <<h, p>> = k THEN Written(ViewOn(d, h, p), new)
                        ELSE ViewOn(d, h, p)
        BY <2>1, AccessViews
    <2>3. <<h, p>> = k <=> f = fileOf[k[1]] /\ p = k[2]
        BY <1>3, <2>1 DEF Structure, OpenFiles
    <2>4. Seen(f, p)' = View(h, p)' /\ SeenOn(d, f, p) = ViewOn(d, h, p)
        BY <1>2, <1>5, <2>1 DEF Seen, SeenOn, View
    <2>. QED
        BY <2>2, <2>3, <2>4
<1>6. ASSUME NEW f \in File, NEW p \in PageId, ~IsOpen(f)
      PROVE  Seen(f, p)' = SeenOn(d, f, p) /\ f # fileOf[k[1]]
    <2>1. Seen(f, p)' = disk'[f].pages[p] /\ SeenOn(d, f, p) = d[f].pages[p]
        BY <1>2, <1>6 DEF Seen, SeenOn
    <2>. QED
        BY <1>3, <1>4, <1>6, <2>1, SeenClosed
<1>. QED
    BY <1>4, <1>5, <1>6

(* An access to a page of one file leaves the others as they were.         *)
OnlyPage(d, k, new) ==
    /\ \A g \in File : g # fileOf[k[1]] =>
           FileSound(g)' /\ Contents'[g] = Contents[g]
    /\ \A p \in PageId :
           /\ Seen(fileOf[k[1]], p) = View(k[1], p)
           /\ Seen(fileOf[k[1]], p)' =
                  IF p = k[2] THEN Written(ViewOn(d, k[1], p), new)
                  ELSE ViewOn(d, k[1], p)
    /\ HeaderOf(fileOf[k[1]]) = fileInfo[k[1]]
    /\ HeaderOf(fileOf[k[1]])' = fileInfo'[k[1]]
    /\ fileOf[k[1]] \in File /\ disk[fileOf[k[1]]] # Absent

(* read() and read_for_write() leave every file but their own as it was. *)
LEMMA AccessOneFile ==
    ASSUME Sound, UNCHANGED fidVars,
           NEW d, DiskType(d), fileInfo' \in [Fid -> Header],
           DisksFit(d, fileInfo'), FramesFit(d, fileInfo'),
           NEW k \in Key, Opened(k[1]), k[2] \in 1 .. fileInfo'[k[1]].page_num,
           NEW w \in BOOLEAN, NEW new,
           new = Keep \/ (w /\ new \in Page /\ new.next \in 0 .. fileInfo'[k[1]].page_num),
           Access(k, d, w, new),
           \A g \in File : g # fileOf[k[1]] => d[g] = disk[g] /\ live'[g] = live[g],
           \A h \in Fid : h # k[1] => fileInfo'[h] = fileInfo[h]
    PROVE  OnlyPage(d, k, new)
<1>0. UNCHANGED <<used, fileOf>>
    BY DEF fidVars
<1>1. k[1] \in Fid /\ fileOf[k[1]] # NoFile /\ fileOf[k[1]] \in File
    BY DEF Key, Opened, Sound, Structure, TypeOK
<1>2. PICK f \in File : f = fileOf[k[1]]
    BY <1>1
<1>3. IsOpen(f) /\ HandleOf(f) = k[1] /\ disk[f] # Absent
    BY <1>1, <1>2, SeenOpen, OpenHandle DEF Sound
<1>4. \A g \in File : IsOpen(g)' = IsOpen(g) /\ HandleOf(g)' = HandleOf(g)
    BY <1>0 DEF IsOpen, HandleOf
<1>5. /\ \A g \in File, p \in PageId :
             Seen(g, p)' = IF g = fileOf[k[1]] /\ p = k[2]
                           THEN Written(SeenOn(d, g, p), new) ELSE SeenOn(d, g, p)
      /\ \A g \in File : ~IsOpen(g) => disk'[g] = d[g]
    BY <1>1, AccessSeen DEF Sound
<1>6. ASSUME NEW g \in File, g # f
      PROVE  FileSound(g)' /\ Contents'[g] = Contents[g]
    <2>1. \A p \in PageId : Seen(g, p)' = Seen(g, p)
        <3>1. CASE IsOpen(g)
            <4>1. fileOf[HandleOf(g)] = g
                BY <3>1, OpenHandle DEF Sound
            <4>2. \A p \in PageId : SeenOn(d, g, p) = Seen(g, p)
                BY <1>2, <1>6, <3>1, <4>1 DEF SeenOn, Seen, ViewOn, View
            <4>. QED
                BY <1>2, <1>5, <1>6, <4>2
        <3>2. CASE ~IsOpen(g)
            BY <1>2, <1>5, <1>6, <3>2 DEF SeenOn, Seen
        <3>. QED
            BY <3>1, <3>2
    <2>2. HeaderOf(g)' = HeaderOf(g) /\ (disk'[g] # Absent => disk[g] # Absent)
        <3>1. CASE IsOpen(g)
            <4>1. HandleOf(g) \in Fid /\ HandleOf(g) # k[1] /\ disk[g] # Absent
                BY <1>2, <1>6, <3>1, OpenHandle DEF Sound
            <4>. QED
                BY <1>4, <3>1, <4>1 DEF HeaderOf
        <3>2. CASE ~IsOpen(g)
            BY <1>2, <1>4, <1>5, <1>6, <3>2 DEF HeaderOf
        <3>. QED
            BY <3>1, <3>2
    <2>3. live'[g] = live[g]
        BY <1>2, <1>6
    <2>. QED
        BY <2>1, <2>2, <2>3, FileKept
<1>7. \A p \in PageId :
          /\ Seen(f, p) = View(k[1], p)
          /\ Seen(f, p)' = IF p = k[2] THEN Written(ViewOn(d, k[1], p), new)
                           ELSE ViewOn(d, k[1], p)
    BY <1>2, <1>3, <1>5 DEF Seen, SeenOn
<1>8. HeaderOf(f) = fileInfo[k[1]] /\ HeaderOf(f)' = fileInfo'[k[1]]
    BY <1>3, <1>4 DEF HeaderOf
<1>9. ASSUME NEW p \in PageId
      PROVE  /\ Seen(fileOf[k[1]], p) = View(k[1], p)
             /\ Seen(fileOf[k[1]], p)' =
                    IF p = k[2] THEN Written(ViewOn(d, k[1], p), new)
                    ELSE ViewOn(d, k[1], p)
    <2>1. Seen(fileOf[k[1]], p) = Seen(f, p)
        BY <1>2
    <2>2. Seen(fileOf[k[1]], p)' = Seen(f, p)'
        BY <1>0, <1>2
    <2>. QED
        BY <1>7, <2>1, <2>2
<1>10. HeaderOf(fileOf[k[1]]) = HeaderOf(f) /\ HeaderOf(fileOf[k[1]])' = HeaderOf(f)'
    BY <1>0, <1>2
<1>. QED
    BY <1>1, <1>2, <1>3, <1>6, <1>8, <1>9, <1>10 DEF OnlyPage

(* A pointer that ages still points to the page it pointed to. *)
LEMMA AgedKey ==
    ASSUME Structure, NEW k, ptr' = AgedPtr(k), ptr' # NoPtr
    PROVE  ptr # NoPtr /\ ptr'.key = ptr.key
<1>1. ptr # NoPtr
    BY DEF AgedPtr
<1>2. ptr \in PtrType
    BY <1>1 DEF Structure, TypeOK
<1>. QED
    BY <1>1, <1>2 DEF AgedPtr, PtrType

-----------------------------------------------------------------------------
(* read() and read_for_write() change nothing callers see. *)
LEMMA PlainAccessSound ==
    ASSUME Sound, UNCHANGED <<fidVars, fileInfo, live>>,
           NEW k \in Key, Opened(k[1]), k[2] \in live[fileOf[k[1]]],
           NEW w \in BOOLEAN, Access(k, disk, w, Keep)
    PROVE  FreeSound' /\ Contents' = Contents
<1>1. DiskType(disk) /\ fileInfo' \in [Fid -> Header]
    BY DEF DiskType, Sound, Structure, TypeOK
<1>2. k[1] \in Fid /\ fileOf[k[1]] # NoFile
    BY DEF Key, Opened
<1>3. k[2] \in 1 .. fileInfo'[k[1]].page_num
    BY <1>2 DEF Sound, Coherence, OpenFit, HeaderFits
<1>4. DisksFit(disk, fileInfo') /\ FramesFit(disk, fileInfo')
    BY DEF Sound, Coherence
<1>5. UNCHANGED fidVars /\ (\A g \in File : g # fileOf[k[1]] =>
          disk[g] = disk[g] /\ live'[g] = live[g])
    OBVIOUS
<1>6. \A h \in Fid : h # k[1] => fileInfo'[h] = fileInfo[h]
    OBVIOUS
<1>7. OnlyPage(disk, k, Keep)
    BY <1>1, <1>3, <1>4, <1>5, <1>6, AccessOneFile
<1>. USE DEF OnlyPage
<1>8. PICK f \in File : f = fileOf[k[1]]
    BY <1>7
<1>9. FileSound(f)' /\ Contents'[f] = Contents[f]
    <2>1. \A p \in PageId : Seen(f, p)' = Seen(f, p)
        <3>1. fileOf'[k[1]] = f
            BY <1>8 DEF fidVars
        <3>2. \A p \in PageId : Seen(fileOf[k[1]], p)' = Seen(f, p)'
            BY <1>8, <3>1
        <3>. QED
            BY <1>7, <1>8, <3>2 DEF ViewOn, View, Written
    <2>2. HeaderOf(f)' = HeaderOf(f)
        BY <1>7, <1>8 DEF fidVars
    <2>. QED
        BY <1>7, <1>8, <2>1, <2>2, FileKept
<1>10. \A g \in File : FileSound(g)' /\ Contents'[g] = Contents[g]
    BY <1>7, <1>8, <1>9
<1>. QED
    BY <1>10 DEF FreeSound, Contents

(* A read, with or without keeping the pointer, changes no page. *)
LEMMA ReadsSound ==
    ASSUME Sound, NEW h \in Fid, NEW p \in PageId,
           ReadPage(h, p) \/ \E w \in BOOLEAN : TakePtr(h, p, w)
    PROVE  FreeSound' /\ PtrLive' /\ Contents' = Contents
<1>1. <<h, p>> \in Key /\ <<h, p>>[1] = h /\ <<h, p>>[2] = p
    BY DEF Key
<1>2. CASE ReadPage(h, p)
    <2>1. FreeSound' /\ Contents' = Contents
        BY <1>1, <1>2, PlainAccessSound DEF ReadPage
    <2>2. ptr' = AgedPtr(<<h, p>>) /\ UNCHANGED <<fidVars, live>>
        BY <1>2 DEF ReadPage
    <2>3. PtrLive'
        BY <2>2, AgedKey DEF Sound, PtrLive, fidVars
    <2>. QED
        BY <2>1, <2>3
<1>3. ASSUME NEW w \in BOOLEAN, TakePtr(h, p, w)
      PROVE  FreeSound' /\ PtrLive' /\ Contents' = Contents
    <2>1. FreeSound' /\ Contents' = Contents
        BY <1>1, <1>3, PlainAccessSound DEF TakePtr
    <2>2. PtrLive'
        BY <1>3 DEF TakePtr, PtrLive, fidVars
    <2>. QED
        BY <2>1, <2>2
<1>. QED
    BY <1>2, <1>3

-----------------------------------------------------------------------------
(* deallocate() takes a page from its owner and puts it in the free list.  *)
LEMMA DeallocateSound ==
    ASSUME Sound, NEW h \in Fid, NEW p \in PageId, Deallocate(h, p)
    PROVE  FreeSound' /\ PtrLive' /\ \E f \in File : Store!Free(f)
<1> DEFINE k == <<h, p>>
<1>1. k \in Key /\ k[1] = h /\ k[2] = p /\ Opened(h)
    BY DEF Key, Deallocate
<1>2. PICK f \in File : f = fileOf[h] /\ f # NoFile
    BY <1>1 DEF Opened, Sound, Structure, TypeOK
<1>3. /\ fileInfo \in [Fid -> Header] /\ fileInfo[h] \in Header
      /\ live \in [File -> SUBSET PageId] /\ DiskType(disk)
    BY DEF Sound, Structure, TypeOK, DiskType
<1>4. HeaderFits(live[f], fileInfo[h]) /\ p \in live[f]
    BY <1>1, <1>2 DEF Sound, Coherence, OpenFit, Deallocate
<1>5. p \in 1 .. fileInfo[h].page_num /\ fileInfo[h].page_num \in 0 .. MaxPage
      /\ fileInfo[h].first_freepage \in 0 .. fileInfo[h].page_num
    BY <1>3, <1>4 DEF HeaderFits, Header
<1>6. /\ FreeLink(h) \in Page /\ FreeLink(h) # Keep
      /\ FreeLink(h).next = fileInfo[h].first_freepage
    BY <1>3, NullFacts DEF FreeLink, Page, Header
<1>7. /\ fileInfo' \in [Fid -> Header]
      /\ \A g \in Fid : fileInfo'[g].page_num = fileInfo[g].page_num
      /\ \A g \in Fid : g # h => fileInfo'[g] = fileInfo[g]
      /\ fileInfo'[h].first_freepage = p
    <2>1. fileInfo' = [fileInfo EXCEPT ![h].first_freepage = p]
        BY DEF Deallocate
    <2>2. p \in 0 .. MaxPage
        BY <1>5, PageFsAssumption
    <2>. QED
        BY <1>3, <2>1, <2>2 DEF Header
<1>8. live' = [live EXCEPT ![f] = @ \ {p}]
    BY <1>2 DEF Deallocate
<1>9. DisksFit(disk, fileInfo') /\ FramesFit(disk, fileInfo')
    BY <1>7, LengthsFit DEF Sound
<1>10. Access(k, disk, TRUE, FreeLink(h)) /\ UNCHANGED fidVars
    BY DEF Deallocate
<1>11. \A g \in File : g # fileOf[k[1]] => disk[g] = disk[g] /\ live'[g] = live[g]
    BY <1>1, <1>2, <1>3, <1>8
<1>12. /\ k[2] \in 1 .. fileInfo'[k[1]].page_num
       /\ FreeLink(h).next \in 0 .. fileInfo'[k[1]].page_num
    BY <1>1, <1>5, <1>6, <1>7
<1>13. OnlyPage(disk, k, FreeLink(h))
    BY <1>1, <1>3, <1>6, <1>7, <1>9, <1>10, <1>11, <1>12, AccessOneFile
<1>. USE DEF OnlyPage
<1>14. fileOf'[h] = f
    BY <1>2, <1>10 DEF fidVars
<1>15. \A q \in PageId : Seen(f, q)' = IF q = p THEN FreeLink(h) ELSE Seen(f, q)
    <2>1. \A q \in PageId : Seen(fileOf[k[1]], q)' = Seen(f, q)'
        BY <1>1, <1>14
    <2>. QED
        BY <1>1, <1>2, <1>6, <1>13, <2>1, ZenonT(60) DEF ViewOn, View, Written
<1>16. HeaderOf(f) = fileInfo[h] /\ HeaderOf(f)' = fileInfo'[h] /\ disk[f] # Absent
    BY <1>1, <1>2, <1>13, <1>14
<1>17. FileSound(f)'
    <2>1. FreeFits(fileInfo[h], live[f], Links(f))
        BY <1>16 DEF Sound, FreeSound, FileSound
    <2>2. 1 .. fileInfo[h].page_num \subseteq PageId /\ fileInfo[h].page_num \in Nat
        BY <1>5, PageFsAssumption DEF PageId
    <2>3. /\ Links(f)'[p] = fileInfo[h].first_freepage
          /\ \A q \in (1 .. fileInfo[h].page_num) \ live[f] : Links(f)'[q] = Links(f)[q]
        BY <1>4, <1>6, <1>15, <2>2 DEF Links
    <2>4. FreeFits(fileInfo'[h], live[f] \ {p}, Links(f)')
        BY <1>4, <1>5, <1>7, <2>1, <2>2, <2>3, FreePut
    <2>5. live'[f] = live[f] \ {p}
        BY <1>3, <1>8
    <2>. QED
        <3>1. FreeFits(HeaderOf(f)', live'[f], Links(f)')
            BY <1>16, <2>4, <2>5
        <3>. QED
            BY <3>1 DEF FileSound, FreeFits, FreeOrder
<1>18. FreeSound'
    BY <1>1, <1>2, <1>13, <1>17 DEF FreeSound
<1>19. PtrLive'
    <2>. SUFFICES ASSUME ptr' # NoPtr
                  PROVE  ptr'.key[2] \in live'[fileOf'[ptr'.key[1]]]
        BY DEF PtrLive
    <2>1. ptr' = AgedPtr(k) /\ (ptr # NoPtr => ptr.key # k)
        BY DEF Deallocate
    <2>2. ptr # NoPtr /\ ptr'.key = ptr.key
        BY <2>1, AgedKey DEF Sound
    <2>3. ptr.key \in Key /\ Opened(ptr.key[1])
        BY <2>2 DEF Sound, Structure, TypeOK, PtrType, PtrAge
    <2>4. ptr.key[1] \in Fid /\ ptr.key = <<ptr.key[1], ptr.key[2]>>
          /\ fileOf[ptr.key[1]] \in File
        BY <2>3 DEF Key, Opened, Sound, Structure, TypeOK
    <2>5. fileOf[ptr.key[1]] = f => ptr.key[2] # p
        BY <1>2, <2>1, <2>2, <2>4 DEF Sound, Structure, OpenFiles
    <2>6. ptr.key[2] \in live[fileOf[ptr.key[1]]]
        BY <2>2 DEF Sound, PtrLive
    <2>. QED
        BY <1>3, <1>8, <1>10, <2>2, <2>4, <2>5, <2>6 DEF fidVars
<1>20. Contents' = [Contents EXCEPT ![f] = [q \in DOMAIN @ \ {p} |-> @[q]]]
    <2>1. live'[f] = live[f] \ {p} /\ live[f] \subseteq PageId
        BY <1>3, <1>8
    <2>2. Contents'[f] = [q \in live[f] \ {p} |-> Seen(f, q).magic]
        BY <1>15, <2>1 DEF Contents
    <2>3. Contents[f] = [q \in live[f] |-> Seen(f, q).magic]
        BY DEF Contents
    <2>4. Contents'[f] = [q \in DOMAIN Contents[f] \ {p} |-> Contents[f][q]]
        BY <2>2, <2>3
    <2>5. \A g \in File : g # f => Contents'[g] = Contents[g]
        BY <1>1, <1>2, <1>13
    <2>6. /\ Contents = [g \in File |-> Contents[g]]
          /\ Contents' = [g \in File |-> Contents'[g]]
        BY DEF Contents
    <2>. QED
        BY <2>4, <2>5, <2>6
<1>21. p \in DOMAIN Contents[f]
    BY <1>4 DEF Contents
<1>22. Store!Free(f)
    BY <1>20, <1>21 DEF Store!Free, Contents
<1>. QED
    BY <1>18, <1>19, <1>22

(* What a page of a file that is there shows is a page. *)
LEMMA SeenIsPage ==
    ASSUME Structure, NEW f \in File, disk[f] # Absent, NEW p \in PageId
    PROVE  Seen(f, p) \in Page
<1>1. disk[f].pages[p] \in Page
    BY DEF Structure, TypeOK, Disk
<1>2. CASE IsOpen(f)
    <2>1. HandleOf(f) \in Fid /\ fileOf[HandleOf(f)] = f
        BY <1>2, OpenHandle
    <2>2. /\ page2index[<<HandleOf(f), p>>] \in Frame \cup {NoFrame}
          /\ \A i \in Frame : buffer[i] \in Page
        BY <2>1 DEF Structure, TypeOK, Key
    <2>. QED
        BY <1>1, <1>2, <2>1, <2>2 DEF Seen, View
<1>3. CASE ~IsOpen(f)
    BY <1>1, <1>3 DEF Seen
<1>. QED
    BY <1>2, <1>3

(* A page becomes its caller's. *)
LEMMA ContentsGrow ==
    ASSUME Sound, NEW f \in File, NEW p \in PageId, p \notin live[f],
           live'[f] = live[f] \cup {p},
           \A q \in live[f] : Seen(f, q)' = Seen(f, q),
           Seen(f, p)'.magic \in Value \cup {FreeBlock},
           \A g \in File : g # f => Contents'[g] = Contents[g]
    PROVE  Store!Allocate(f)
<1>1. Contents'[f] = [q \in live[f] \cup {p} |-> Seen(f, q)'.magic]
    BY DEF Contents
<1>2. Contents[f] = [q \in live[f] |-> Seen(f, q).magic]
    BY DEF Contents
<1>3. PICK c \in Value \cup {FreeBlock} : c = Seen(f, p)'.magic
    OBVIOUS
<1>4. Contents'[f] = [q \in DOMAIN Contents[f] \cup {p} |->
                        IF q = p THEN c ELSE Contents[f][q]]
    BY <1>1, <1>2, <1>3
<1>5. /\ Contents = [g \in File |-> Contents[g]]
      /\ Contents' = [g \in File |-> Contents'[g]]
    BY DEF Contents
<1>6. Contents' = [Contents EXCEPT
          ![f] = [q \in DOMAIN @ \cup {p} |-> IF q = p THEN c ELSE @[q]]]
    BY <1>4, <1>5
<1>7. p \in PageId \ DOMAIN Contents[f]
    BY <1>2
<1>. QED
    BY <1>6, <1>7 DEF Store!Allocate, Contents

(* allocate() from the free list hands out a page nobody owns. *)
LEMMA AllocateFreeSound ==
    ASSUME Sound, NEW h \in Fid, AllocateFree(h)
    PROVE  FreeSound' /\ PtrLive' /\ \E f \in File : Store!Allocate(f)
<1>. USE DEF OnlyPage
<1>1. PICK p : p = fileInfo[h].first_freepage
    OBVIOUS
<1> DEFINE k == <<h, p>>
<1>2. PICK f \in File : f = fileOf[h] /\ f # NoFile
    BY DEF AllocateFree, Opened, Sound, Structure, TypeOK
<1>3. /\ fileInfo \in [Fid -> Header] /\ fileInfo[h] \in Header
      /\ live \in [File -> SUBSET PageId] /\ DiskType(disk)
    BY DEF Sound, Structure, TypeOK, DiskType
<1>4. IsOpen(f) /\ HandleOf(f) = h /\ disk[f] # Absent
    BY <1>2, SeenOpen, OpenHandle DEF Sound
<1>5. FreeFits(fileInfo[h], live[f], Links(f)) /\ HeaderOf(f) = fileInfo[h]
    BY <1>4 DEF Sound, FreeSound, FileSound, HeaderOf
<1>6. p \in (1 .. fileInfo[h].page_num) \ live[f] /\ p # 0
    BY <1>1, <1>5, FreeHead DEF AllocateFree
<1>7. fileInfo[h].page_num \in 0 .. MaxPage /\ p \in PageId
    BY <1>3, <1>6, PageFsAssumption DEF Header, PageId
<1>8. k \in Key /\ k[1] = h /\ k[2] = p /\ Opened(h)
    BY <1>7 DEF Key, AllocateFree
<1>9. Access(k, disk, FALSE, Keep) /\ UNCHANGED fidVars /\ ptr' = AgedPtr(k)
    BY <1>1 DEF AllocateFree
<1>10. fileInfo' \in [Fid -> Header]
    BY AllocateFreeStep DEF Sound, Structure, TypeOK
<1>11. fileInfo' = [fileInfo EXCEPT ![h].first_freepage = buffer'[page2index'[k]].next]
    BY <1>1 DEF AllocateFree
<1>12. /\ \A g \in Fid : fileInfo'[g].page_num = fileInfo[g].page_num
       /\ \A g \in Fid : g # h => fileInfo'[g] = fileInfo[g]
       /\ fileInfo'[h].first_freepage = buffer'[page2index'[k]].next
    BY <1>3, <1>11 DEF Header
<1>13. live' = [live EXCEPT ![f] = @ \cup {p}]
    BY <1>1, <1>2 DEF AllocateFree
<1>14. /\ live'[f] = live[f] \cup {p}
       /\ \A g \in File : g # fileOf[k[1]] => disk[g] = disk[g] /\ live'[g] = live[g]
    BY <1>2, <1>3, <1>8, <1>13
<1>15. DisksFit(disk, fileInfo') /\ FramesFit(disk, fileInfo')
    BY <1>12, LengthsFit DEF Sound
<1>16. k[2] \in 1 .. fileInfo'[k[1]].page_num
    BY <1>6, <1>8, <1>12
<1>17. OnlyPage(disk, k, Keep)
    BY <1>3, <1>8, <1>9, <1>10, <1>12, <1>14, <1>15, <1>16, AccessOneFile
<1>18. fileOf'[h] = f
    BY <1>2, <1>9 DEF fidVars
<1>19. \A q \in PageId : Seen(f, q)' = Seen(f, q)
    <2>1. \A q \in PageId : Seen(fileOf[k[1]], q)' = Seen(f, q)'
        BY <1>8, <1>18
    <2>. QED
        BY <1>2, <1>8, <1>17, <2>1, ZenonT(60) DEF ViewOn, View, Written
<1>20. HeaderOf(f)' = fileInfo'[h]
    BY <1>2, <1>8, <1>17, <1>18
<1>21. fileInfo'[h].first_freepage = Links(f)[p]
    <2>1. page2index'[k] \in Frame
        BY <1>3, <1>8, <1>9, AccessKeepsStructure DEF Sound
    <2>2. View(h, p)' = buffer'[page2index'[k]]
        BY <2>1, NullFacts DEF View
    <2>3. Seen(f, p)' = View(h, p)'
        <3>1. IsOpen(f)' /\ HandleOf(f)' = h
            BY <1>4, <1>9 DEF IsOpen, HandleOf, fidVars
        <3>. QED
            BY <3>1 DEF Seen
    <2>. QED
        BY <1>7, <1>12, <1>19, <2>2, <2>3 DEF Links
<1>22. FileSound(f)'
    <2>1. FreeFits(fileInfo'[h], live[f] \cup {p}, Links(f))
        BY <1>1, <1>5, <1>6, <1>12, <1>21, FreeTaken
    <2>2. Links(f)' = Links(f)
        BY <1>19 DEF Links
    <2>. QED
        <3>1. FreeFits(HeaderOf(f)', live'[f], Links(f)')
            BY <1>14, <1>20, <2>1, <2>2
        <3>. QED
            BY <3>1 DEF FileSound, FreeFits, FreeOrder
<1>23. FreeSound'
    BY <1>2, <1>8, <1>17, <1>22 DEF FreeSound
<1>24. PtrLive'
    <2>1. \A g \in File : live[g] \subseteq live'[g]
        BY <1>3, <1>13
    <2>2. ptr # NoPtr => fileOf[ptr.key[1]] \in File
        BY DEF Sound, Structure, TypeOK, PtrType, PtrAge, Opened, Key
    <2>. QED
        BY <1>9, <2>1, <2>2, AgedKey DEF Sound, PtrLive, fidVars
<1>25. Seen(f, p)'.magic \in Value \cup {FreeBlock}
    <2>1. Seen(f, p) \in Page
        BY <1>4, <1>7, SeenIsPage DEF Sound
    <2>. QED
        BY <1>7, <1>19, <2>1 DEF Page
<1>26. Store!Allocate(f)
    <2>1. \A q \in live[f] : Seen(f, q)' = Seen(f, q)
        BY <1>3, <1>19
    <2>2. \A g \in File : g # f => Contents'[g] = Contents[g]
        BY <1>2, <1>8, <1>17
    <2>. QED
        BY <1>6, <1>7, <1>14, <1>25, <2>1, <2>2, ContentsGrow
<1>. QED
    BY <1>23, <1>24, <1>26

(* allocate() at the end of the file hands out a page that is new. *)
LEMMA AllocateNewSound ==
    ASSUME Sound, NEW h \in Fid, AllocateNew(h)
    PROVE  FreeSound' /\ PtrLive' /\ \E f \in File : Store!Allocate(f)
<1>1. PICK f, p, d : /\ f = fileOf[h] /\ p = fileInfo[h].page_num + 1
                     /\ d = Extended(f, p)
    OBVIOUS
<1>2. AppendFits(h, f, p, d)
    BY <1>1, AllocateNewFits DEF Sound
<1>. USE DEF AppendFits
<1> DEFINE k == <<h, p>>
           n == fileInfo[h].page_num
<1>3. k \in Key /\ k[1] = h /\ k[2] = p /\ f \in File /\ f # NoFile
    BY <1>2
<1>4. IsOpen(f) /\ HandleOf(f) = h /\ disk[f] # Absent
    BY <1>1, <1>3, SeenOpen, OpenHandle DEF Sound
<1>5. FreeFits(fileInfo[h], live[f], Links(f))
    BY <1>3, <1>4 DEF Sound, FreeSound, FileSound, HeaderOf
<1>6. live \in [File -> SUBSET PageId] /\ n \in 0 .. MaxPage /\ n \in Nat
    BY <1>2 DEF Sound, Structure, TypeOK, Header
<1>7. p \notin live[f]
    <2>1. live[f] \subseteq 1 .. n
        BY <1>1, <1>3 DEF Sound, Coherence, OpenFit, HeaderFits
    <2>. QED
        BY <1>1, <1>6, <2>1
<1>8. ptr' = AgedPtr(k) /\ live' = [live EXCEPT ![f] = @ \cup {p}]
    BY <1>1 DEF AllocateNew
<1>9. k[2] \in 1 .. fileInfo'[k[1]].page_num
    BY <1>1, <1>2, <1>3, <1>6
<1>10. \A g \in File : g # fileOf[k[1]] => d[g] = disk[g] /\ live'[g] = live[g]
    BY <1>1, <1>2, <1>3
<1>11. OnlyPage(d, k, Keep)
    <2>1. /\ UNCHANGED fidVars /\ DiskType(d) /\ fileInfo' \in [Fid -> Header]
          /\ DisksFit(d, fileInfo') /\ FramesFit(d, fileInfo')
          /\ Opened(k[1]) /\ Access(k, d, FALSE, Keep)
        BY <1>2, <1>3
    <2>2. \A g \in Fid : g # k[1] => fileInfo'[g] = fileInfo[g]
        BY <1>2, <1>3
    <2>. QED
        BY <1>3, <1>9, <1>10, <2>1, <2>2, AccessOneFile
<1>. USE DEF OnlyPage
<1>12. fileOf'[h] = f
    BY <1>1, <1>2 DEF fidVars
<1>13. \A q \in PageId : Seen(f, q)' = ViewOn(d, h, q)
    <2>1. \A q \in PageId : Seen(fileOf[k[1]], q)' = Seen(f, q)'
        BY <1>3, <1>12
    <2>. QED
        BY <1>1, <1>3, <1>11, <2>1 DEF Written
<1>14. \A q \in PageId : q # p => Seen(f, q)' = Seen(f, q)
    BY <1>1, <1>2, <1>4, <1>13 DEF Seen, View, ViewOn
<1>15. HeaderOf(f)' = fileInfo'[h]
    BY <1>1, <1>3, <1>11, <1>12
<1>16. FileSound(f)'
    <2>1. \A q \in (1 .. n) \ live[f] : Links(f)'[q] = Links(f)[q]
        <3>1. \A q \in 1 .. n : q \in PageId /\ q # p
            BY <1>1, <1>6, PageFsAssumption DEF PageId
        <3>. QED
            BY <1>14, <3>1 DEF Links
    <2>2. /\ fileInfo'[h].page_num = n + 1
          /\ fileInfo'[h].first_freepage = fileInfo[h].first_freepage
        BY <1>1, <1>2
    <2>3. FreeFits(fileInfo'[h], live[f] \cup {n + 1}, Links(f)')
        BY <1>5, <1>6, <2>1, <2>2, FreeAppended
    <2>4. live'[f] = live[f] \cup {n + 1}
        BY <1>1, <1>2
    <2>. QED
        <3>1. FreeFits(HeaderOf(f)', live'[f], Links(f)')
            BY <1>15, <2>3, <2>4
        <3>. QED
            BY <3>1 DEF FileSound, FreeFits, FreeOrder
<1>17. FreeSound'
    BY <1>1, <1>3, <1>11, <1>16 DEF FreeSound
<1>18. PtrLive'
    <2>1. \A g \in File : live[g] \subseteq live'[g]
        BY <1>6, <1>8
    <2>2. ptr # NoPtr => fileOf[ptr.key[1]] \in File
        BY DEF Sound, Structure, TypeOK, PtrType, PtrAge, Opened, Key
    <2>. QED
        BY <1>2, <1>8, <2>1, <2>2, AgedKey DEF Sound, PtrLive, fidVars
<1>19. Seen(f, p)'.magic \in Value \cup {FreeBlock}
    <2>1. ViewOn(d, h, p) \in Page
        <3>1. page2index[k] \in Frame \cup {NoFrame} /\ \A i \in Frame : buffer[i] \in Page
            BY <1>3 DEF Sound, Structure, TypeOK
        <3>2. d[f].pages[p] \in Page
            BY <1>2, PageFsAssumption DEF ZeroPage, Page
        <3>. QED
            BY <1>1, <3>1, <3>2 DEF ViewOn
    <2>2. ViewOn(d, h, p).magic \in Value \cup {FreeBlock}
        BY <2>1 DEF Page
    <2>. QED
        BY <1>2, <1>13, <2>2
<1>20. Store!Allocate(f)
    <2>1. \A q \in live[f] : Seen(f, q)' = Seen(f, q)
        BY <1>3, <1>6, <1>7, <1>14
    <2>2. \A g \in File : g # f => Contents'[g] = Contents[g]
        BY <1>1, <1>3, <1>11
    <2>. QED
        BY <1>2, <1>3, <1>7, <1>19, <2>1, <2>2, ContentsGrow
<1>. QED
    BY <1>3, <1>17, <1>18, <1>20

(* A store through a pointer changes the page it was taken for, and no     *)
(* other.                                                                  *)
LEMMA WritePtrSound ==
    ASSUME Sound, NEW v \in Value \ {Zero}, WritePtr(v)
    PROVE  FreeSound' /\ PtrLive' /\ \E f \in File : Store!Put(f)
<1>1. PICK h, p, n : h = ptr.key[1] /\ p = ptr.key[2] /\ n = ptr.frame
    OBVIOUS
<1>2. /\ ptr # NoPtr /\ ptr.since < Capacity
      /\ buffer' = [buffer EXCEPT ![n] = [magic |-> v, next |-> 0]]
      /\ UNCHANGED <<used, fileOf, fileInfo, disk, page2index, live, ptr>>
    BY <1>1 DEF WritePtr, fidVars
<1>3. /\ h \in Fid /\ p \in PageId /\ <<h, p>> \in Key /\ ptr.key = <<h, p>>
      /\ n \in Frame /\ page2index[<<h, p>>] = n /\ fileOf[h] # NoFile
    BY <1>1, <1>2 DEF Sound, Structure, TypeOK, PtrType, PtrAge, Key, Opened
<1>4. PICK f \in File : f = fileOf[h]
    BY <1>3 DEF Sound, Structure, TypeOK
<1>5. IsOpen(f) /\ HandleOf(f) = h /\ p \in live[f]
    BY <1>1, <1>2, <1>3, <1>4, SeenOpen DEF Sound, PtrLive
<1>6. /\ buffer'[n] = [magic |-> v, next |-> 0]
      /\ \A i \in Frame : i # n => buffer'[i] = buffer[i]
    BY <1>2, <1>3 DEF Sound, Structure, TypeOK
<1>7. \A g \in File : /\ IsOpen(g)' = IsOpen(g) /\ HandleOf(g)' = HandleOf(g)
                      /\ HeaderOf(g)' = HeaderOf(g)
    BY <1>2 DEF IsOpen, HandleOf, HeaderOf
<1>8. ASSUME NEW g \in File, NEW q \in PageId
      PROVE  Seen(g, q)' = IF g = f /\ q = p THEN [magic |-> v, next |-> 0]
                           ELSE Seen(g, q)
    <2>1. CASE IsOpen(g)
        <3>1. PICK i \in Fid : i = HandleOf(g) /\ fileOf[i] = g
            BY <2>1, OpenHandle DEF Sound
        <3>2. Seen(g, q)' = View(i, q)' /\ Seen(g, q) = View(i, q)
            BY <1>7, <2>1, <3>1 DEF Seen, View
        <3>3. <<i, q>> \in Key /\ (<<i, q>> = <<h, p>> <=> g = f /\ q = p)
            BY <1>4, <1>5, <3>1 DEF Key
        <3>4. CASE <<i, q>> = <<h, p>>
            BY <1>2, <1>3, <1>6, <3>2, <3>3, <3>4, NullFacts DEF View
        <3>5. CASE <<i, q>> # <<h, p>>
            <4>1. page2index[<<i, q>>] # NoFrame =>
                      page2index[<<i, q>>] \in Frame /\ page2index[<<i, q>>] # n
                BY <1>3, <3>3, <3>5, NullFacts DEF Sound, Structure, TypeOK, MapsInverse
            <4>. QED
                BY <1>2, <1>6, <3>2, <3>3, <3>5, <4>1 DEF View
        <3>. QED
            BY <3>4, <3>5
    <2>2. CASE ~IsOpen(g)
        BY <1>2, <1>5, <1>7, <2>2 DEF Seen
    <2>. QED
        BY <2>1, <2>2
<1>9. ASSUME NEW g \in File, g # f PROVE FileSound(g)' /\ Contents'[g] = Contents[g]
    BY <1>2, <1>7, <1>8, <1>9, FileKept
<1>10. FileSound(f)'
    <2>. SUFFICES ASSUME disk'[f] # Absent
                  PROVE  FreeFits(HeaderOf(f)', live'[f], Links(f)')
        BY DEF FileSound, FreeFits, FreeOrder
    <2>1. FreeFits(HeaderOf(f), live[f], Links(f))
        BY <1>2 DEF Sound, FreeSound, FileSound
    <2>2. HeaderOf(f) = fileInfo[h]
        BY <1>5 DEF HeaderOf
    <2>3. \A q \in (1 .. fileInfo[h].page_num) \ live[f] : Links(f)'[q] = Links(f)[q]
        <3>1. \A q \in 1 .. fileInfo[h].page_num : q \in PageId
            BY <1>3, PageFsAssumption DEF PageId, Sound, Structure, TypeOK, Header
        <3>. QED
            BY <1>5, <1>8, <3>1 DEF Links
    <2>. QED
        BY <1>2, <1>7, <2>1, <2>2, <2>3, FreeKept
<1>11. FreeSound'
    BY <1>9, <1>10 DEF FreeSound
<1>12. PtrLive'
    BY <1>2 DEF Sound, PtrLive
<1>13. Contents' = [Contents EXCEPT ![f][p] = v]
    <2>1. live'[f] = live[f] /\ live[f] \subseteq PageId
        BY <1>2 DEF Sound, Structure, TypeOK
    <2>2. Contents'[f] = [q \in live[f] |-> IF q = p THEN v ELSE Seen(f, q).magic]
        BY <1>8, <2>1 DEF Contents
    <2>3. Contents[f] = [q \in live[f] |-> Seen(f, q).magic]
        BY DEF Contents
    <2>4. Contents'[f] = [Contents[f] EXCEPT ![p] = v]
        BY <2>2, <2>3
    <2>5. /\ Contents = [g \in File |-> Contents[g]]
          /\ Contents' = [g \in File |-> Contents'[g]]
        BY DEF Contents
    <2>. QED
        BY <1>9, <2>4, <2>5
<1>14. p \in DOMAIN Contents[f]
    BY <1>5 DEF Contents
<1>15. Store!Put(f)
    BY <1>13, <1>14 DEF Store!Put, Contents
<1>. QED
    BY <1>11, <1>12, <1>15

-----------------------------------------------------------------------------
(* A file keeps its id while no id is given to it or taken from it. *)
LEMMA HandlesKept ==
    ASSUME Structure, Structure', NEW f \in File,
           \A i \in Fid : fileOf'[i] = f <=> fileOf[i] = f
    PROVE  IsOpen(f)' = IsOpen(f) /\ (IsOpen(f) => HandleOf(f)' = HandleOf(f))
<1>1. CASE IsOpen(f)
    <2>1. PICK h \in Fid : h = HandleOf(f) /\ fileOf[h] = f /\ f # NoFile
        BY <1>1, OpenHandle
    <2>2. fileOf'[h] = f
        BY <2>1
    <2>3. h \in used' /\ \A g \in Fid : fileOf'[g] = f => g = h
        BY <2>1, <2>2 DEF Structure, OpenFiles
    <2>4. used' \subseteq Fid
        BY DEF Structure, TypeOK
    <2>5. (CHOOSE g \in used' : fileOf'[g] = f) = h
        BY <2>2, <2>3, <2>4, HandleUnique
    <2>. QED
        BY <1>1, <2>1, <2>2, <2>3, <2>5 DEF IsOpen, HandleOf
<1>2. CASE ~IsOpen(f)
    <2>1. \A h \in Fid : fileOf'[h] # f
        BY <1>2, SeenClosed
    <2>2. used' \subseteq Fid
        BY DEF Structure, TypeOK
    <2>. QED
        BY <1>2, <2>1, <2>2 DEF IsOpen
<1>. QED
    BY <1>1, <1>2

(* writeback(h): what the cache shows of the file is on disk, and the cache *)
(* shows the same as before.                                               *)
LEMMA WritebackViews ==
    ASSUME Sound, NEW h \in Fid, Opened(h), Writeback(h), NEW p \in PageId
    PROVE  /\ disk'[fileOf[h]].pages[p] = View(h, p)
           /\ page2index'[<<h, p>>] # NoFrame =>
                  buffer'[page2index'[<<h, p>>]] = View(h, p)
<1> DEFINE q == <<h, p>>
           f == fileOf[h]
           i == page2index[q]
           keys == {index2page[j] : j \in Flushed(h)}
<1>1. q \in Key /\ q[1] = h /\ q[2] = p /\ q # NoKey /\ f \in File /\ f # NoFile
    BY DEF Key, Opened, NoKey, Fid, Sound, Structure, TypeOK
<1>2. disk'[f].pages[p] = IF q \in keys THEN buffer[i] ELSE disk[f].pages[p]
    BY <1>1 DEF Writeback, Sound, Structure, TypeOK
<1>3. q \in keys <=> i # NoFrame /\ dirty[i]
    <2>1. ASSUME NEW j \in Flushed(h), index2page[j] = q
          PROVE  i = j /\ i # NoFrame /\ dirty[i]
        BY <1>1, <2>1, NullFacts DEF Flushed, Sound, Structure, MapsInverse
    <2>2. ASSUME i # NoFrame, dirty[i] PROVE i \in Flushed(h) /\ index2page[i] = q
        BY <1>1, <2>2 DEF Flushed, Sound, Structure, MapsInverse, TypeOK
    <2>. QED
        BY <2>1, <2>2
<1>4. i # NoFrame /\ ~dirty[i] => buffer[i] = disk[f].pages[p]
    <2>1. i # NoFrame => i \in Frame /\ index2page[i] = q
        BY <1>1 DEF Sound, Structure, MapsInverse, TypeOK
    <2>. QED
        BY <1>1, <2>1 DEF Sound, Coherence, FramesFit, FrameFits
<1>5. page2index'[q] # NoFrame => page2index'[q] = i /\ buffer' = buffer
    BY <1>1 DEF Writeback
<1>. HIDE DEF keys
<1>. QED
    BY <1>2, <1>3, <1>4, <1>5 DEF View

(* A pointer to another file outlives flush() and close(). *)
LEMMA DroppedPtr ==
    ASSUME Sound, NEW h \in Fid, ptr' = PtrAfterDrop({h} \X PageId), live' = live,
           \A g \in Fid : g # h => fileOf'[g] = fileOf[g]
    PROVE  PtrLive'
<1>. SUFFICES ASSUME ptr' # NoPtr PROVE ptr'.key[2] \in live[fileOf'[ptr'.key[1]]]
    BY DEF PtrLive
<1>1. ptr' = ptr /\ ptr # NoPtr /\ ptr.key \notin {h} \X PageId
    BY DEF PtrAfterDrop
<1>2. ptr.key \in Key
    BY <1>1 DEF Sound, Structure, TypeOK, PtrType
<1>3. ptr.key[1] \in Fid \ {h}
    BY <1>1, <1>2 DEF Key
<1>. QED
    BY <1>1, <1>3 DEF Sound, PtrLive

(* flush() and close() show every page as it was. *)
LEMMA FlushSound ==
    ASSUME Sound, NEW h \in Fid, Flush(h)
    PROVE  FreeSound' /\ PtrLive' /\ Contents' = Contents
<1>1. /\ Opened(h) /\ Writeback(h) /\ UNCHANGED <<used, fileOf, fileInfo, live>>
      /\ ptr' = PtrAfterDrop({h} \X PageId)
    BY DEF Flush, fidVars
<1>2. PICK f \in File : f = fileOf[h] /\ f # NoFile
    BY <1>1 DEF Opened, Sound, Structure, TypeOK
<1>3. /\ \A g \in File : g # f => disk'[g] = disk[g]
      /\ buffer' = buffer /\ disk[f] # Absent
    BY <1>1, <1>2, WritebackFits DEF Sound, Structure, OpenFiles
<1>4. \A g \in File : IsOpen(g)' = IsOpen(g) /\ HandleOf(g)' = HandleOf(g)
    BY <1>1 DEF IsOpen, HandleOf
<1>5. \A q \in Key : q[1] # h => page2index'[q] = page2index[q]
    BY <1>1, WritebackKeepsStructure DEF Sound
<1>6. ASSUME NEW g \in File PROVE FileSound(g)' /\ Contents'[g] = Contents[g]
    <2>1. CASE IsOpen(g)
        <3>1. PICK i \in Fid : i = HandleOf(g) /\ fileOf[i] = g
            BY <2>1, OpenHandle DEF Sound
        <3>2. \A p \in PageId : View(i, p)' = View(i, p)
            <4>1. CASE i = h
                BY <1>1, <4>1, WritebackViews DEF View
            <4>2. CASE i # h
                <5>1. g # f
                    BY <1>2, <3>1, <4>2 DEF Sound, Structure, OpenFiles
                <5>2. \A p \in PageId : page2index'[<<i, p>>] = page2index[<<i, p>>]
                    BY <1>5, <4>2 DEF Key
                <5>. QED
                    BY <1>1, <1>3, <3>1, <5>1, <5>2 DEF View
            <4>. QED
                BY <4>1, <4>2
        <3>3. \A p \in PageId : Seen(g, p)' = Seen(g, p)
            BY <1>4, <2>1, <3>1, <3>2 DEF Seen, View
        <3>4. HeaderOf(g)' = HeaderOf(g)
            BY <1>1, <1>4, <2>1 DEF HeaderOf
        <3>5. disk[g] # Absent
            BY <2>1, OpenHandle DEF Sound
        <3>. QED
            BY <1>1, <3>3, <3>4, <3>5, FileKept
    <2>2. CASE ~IsOpen(g)
        <3>1. disk'[g] = disk[g]
            BY <1>2, <1>3, <2>2, SeenClosed DEF Sound
        <3>2. /\ \A p \in PageId : Seen(g, p)' = Seen(g, p)
              /\ HeaderOf(g)' = HeaderOf(g)
            BY <1>4, <2>2, <3>1 DEF Seen, HeaderOf
        <3>. QED
            BY <1>1, <3>1, <3>2, FileKept
    <2>. QED
        BY <2>1, <2>2
<1>7. PtrLive'
    BY <1>1, DroppedPtr
<1>. QED
    BY <1>6, <1>7 DEF FreeSound, Contents

(* close() gives the id back and leaves every page on disk as it was seen. *)
LEMMA CloseSound ==
    ASSUME Sound, NEW h \in Fid, Close(h)
    PROVE  FreeSound' /\ PtrLive' /\ Contents' = Contents
<1>1. /\ Opened(h) /\ Writeback(h) /\ UNCHANGED <<fileInfo, live>>
      /\ fileOf' = [fileOf EXCEPT ![h] = NoFile]
      /\ ptr' = PtrAfterDrop({h} \X PageId)
    BY DEF Close
<1>2. PICK f \in File : f = fileOf[h] /\ f # NoFile
    BY <1>1 DEF Opened, Sound, Structure, TypeOK
<1>3. /\ \A g \in File : g # f => disk'[g] = disk[g]
      /\ buffer' = buffer /\ disk[f] # Absent /\ disk'[f].hdr = fileInfo[h]
    BY <1>1, <1>2, WritebackFits DEF Sound, Structure, OpenFiles
<1>4. /\ fileOf'[h] = NoFile
      /\ \A g \in Fid : g # h => fileOf'[g] = fileOf[g]
    BY <1>1 DEF Sound, Structure, TypeOK
<1>5. \A q \in Key : q[1] # h => page2index'[q] = page2index[q]
    BY <1>1, WritebackKeepsStructure DEF Sound
<1>6. Structure'
    BY CloseStep DEF Sound
<1>7. FileSound(f)' /\ Contents'[f] = Contents[f]
    <2>1. IsOpen(f) /\ HandleOf(f) = h
        BY <1>2, SeenOpen DEF Sound
    <2>2. ~IsOpen(f)'
        <3>1. \A g \in Fid : fileOf'[g] # f
            BY <1>2, <1>4 DEF Sound, Structure, OpenFiles
        <3>. QED
            BY <1>6, <3>1 DEF IsOpen, Structure, TypeOK
    <2>3. \A p \in PageId : Seen(f, p)' = Seen(f, p)
        <3>1. \A p \in PageId : disk'[fileOf[h]].pages[p] = View(h, p)
            BY <1>1, WritebackViews
        <3>. QED
            BY <1>2, <2>1, <2>2, <3>1 DEF Seen
    <2>4. HeaderOf(f)' = HeaderOf(f)
        BY <1>3, <2>1, <2>2 DEF HeaderOf
    <2>. QED
        BY <1>1, <1>3, <2>3, <2>4, FileKept
<1>8. ASSUME NEW g \in File, g # f PROVE FileSound(g)' /\ Contents'[g] = Contents[g]
    <2>1. \A i \in Fid : fileOf'[i] = g <=> fileOf[i] = g
        BY <1>2, <1>4, <1>8, PageFsAssumption
    <2>2. IsOpen(g)' = IsOpen(g) /\ (IsOpen(g) => HandleOf(g)' = HandleOf(g))
        BY <1>6, <2>1, HandlesKept DEF Sound
    <2>3. disk'[g] = disk[g]
        BY <1>3, <1>8
    <2>4. CASE IsOpen(g)
        <3>1. PICK i \in Fid : i = HandleOf(g) /\ fileOf[i] = g
            BY <2>4, OpenHandle DEF Sound
        <3>2. i # h /\ fileOf'[i] = g
            BY <1>2, <1>8, <2>1, <3>1
        <3>3. \A p \in PageId : page2index'[<<i, p>>] = page2index[<<i, p>>]
            BY <1>5, <3>2 DEF Key
        <3>4. \A p \in PageId : Seen(g, p)' = Seen(g, p)
            BY <1>3, <2>2, <2>3, <2>4, <3>1, <3>2, <3>3 DEF Seen, View
        <3>5. HeaderOf(g)' = HeaderOf(g)
            BY <1>1, <2>2, <2>4 DEF HeaderOf
        <3>. QED
            BY <1>1, <2>3, <3>4, <3>5, FileKept
    <2>5. CASE ~IsOpen(g)
        <3>1. /\ \A p \in PageId : Seen(g, p)' = Seen(g, p)
              /\ HeaderOf(g)' = HeaderOf(g)
            BY <2>2, <2>3, <2>5 DEF Seen, HeaderOf
        <3>. QED
            BY <1>1, <2>3, <3>1, FileKept
    <2>. QED
        BY <2>4, <2>5
<1>9. PtrLive'
    BY <1>1, <1>4, DroppedPtr
<1>. QED
    BY <1>7, <1>8, <1>9 DEF FreeSound, Contents

(* open() shows the pages the file has on disk: none of them is cached     *)
(* under the id it takes.                                                  *)
LEMMA OpenSound ==
    ASSUME Sound, Reopen = FALSE, NEW f \in File, Open(f)
    PROVE  FreeSound' /\ PtrLive' /\ Contents' = Contents
<1>1. PICK h : h = freeFids[Len(freeFids)]
    OBVIOUS
<1>2. /\ ~closed /\ freeFids # <<>> /\ ~IsOpen(f)
      /\ fileOf' = [fileOf EXCEPT ![h] = f]
      /\ fileInfo' = [fileInfo EXCEPT ![h] = IF disk[f] = Absent THEN EmptyHeader
                                             ELSE disk[f].hdr]
      /\ disk' = IF disk[f] # Absent THEN disk ELSE [disk EXCEPT ![f] = NewFile]
      /\ UNCHANGED <<page2index, buffer, live, ptr>>
    BY <1>1 DEF Open, cacheVars
<1>3. h \in Fid /\ fileOf[h] = NoFile
    <2>1. freeFids \in Seq(Fid)
        BY DEF Sound, Structure, TypeOK
    <2>2. Len(freeFids) \in 1 .. Len(freeFids)
        BY <1>2, <2>1, EmptySeq
    <2>3. h \in Fid
        BY <1>1, <2>1, <2>2, ElementOfSeq
    <2>. QED
        BY <1>1, <2>2, <2>3 DEF Sound, Structure, FidStack, OpenFiles
<1>4. /\ f # NoFile /\ fileOf'[h] = f
      /\ \A g \in Fid : g # h => fileOf'[g] = fileOf[g] /\ fileInfo'[g] = fileInfo[g]
      /\ fileInfo'[h] = IF disk[f] = Absent THEN EmptyHeader ELSE disk[f].hdr
      /\ \A g \in File : g # f => disk'[g] = disk[g]
    BY <1>2, <1>3, PageFsAssumption DEF Sound, Structure, TypeOK
<1>5. Structure'
    BY OpenStep DEF Sound
<1>6. \A g \in Fid : fileOf[g] # f
    BY <1>2, SeenClosed DEF Sound
<1>7. FileSound(f)' /\ Contents'[f] = Contents[f]
    <2>1. IsOpen(f)' /\ HandleOf(f)' = h
        <3>0. h \in used'
            BY <1>1 DEF Open
        <3>1. h \in used' /\ \A g \in Fid : fileOf'[g] = f => g = h
            BY <1>4, <1>6, <3>0
        <3>2. used' \subseteq Fid
            BY <1>5 DEF Structure, TypeOK
        <3>3. (CHOOSE g \in used' : fileOf'[g] = f) = h
            BY <1>4, <3>1, <3>2, HandleUnique
        <3>. QED
            BY <1>4, <3>1, <3>3 DEF IsOpen, HandleOf
    <2>2. CASE disk[f] = Absent
        <3>1. live[f] = {} /\ live'[f] = {}
            BY <1>2, <1>6, <2>2 DEF Sound, Coherence, ClosedFit
        <3>2. HeaderOf(f)' = EmptyHeader
            BY <1>4, <2>1, <2>2 DEF HeaderOf
        <3>3. FreeFits(EmptyHeader, {}, Links(f)')
            BY FreeNone
        <3>. QED
            <4>1. FreeFits(HeaderOf(f)', live'[f], Links(f)')
                BY <3>1, <3>2, <3>3
            <4>2. FileSound(f)'
                BY <4>1 DEF FileSound, FreeFits, FreeOrder
            <4>. QED
                BY <3>1, <4>2 DEF Contents
    <2>3. CASE disk[f] # Absent
        <3>1. \A p \in PageId : page2index[<<h, p>>] = NoFrame
            <4>. SUFFICES ASSUME NEW p \in PageId, page2index[<<h, p>>] # NoFrame
                          PROVE  FALSE
                OBVIOUS
            <4>1. <<h, p>> \in Key /\ <<h, p>> # NoKey /\ <<h, p>>[1] = h
                BY <1>3 DEF Key, NoKey, Fid
            <4>2. /\ page2index[<<h, p>>] \in Frame
                  /\ index2page[page2index[<<h, p>>]] = <<h, p>>
                BY <4>1 DEF Sound, Structure, TypeOK, MapsInverse
            <4>. QED
                BY <1>2, <1>3, <4>1, <4>2 DEF Sound, Coherence, CachedOpen
        <3>2. \A p \in PageId : Seen(f, p)' = Seen(f, p)
            BY <1>2, <1>4, <2>1, <2>3, <3>1 DEF Seen, View
        <3>3. HeaderOf(f)' = HeaderOf(f)
            BY <1>2, <1>4, <2>1, <2>3 DEF HeaderOf
        <3>. QED
            BY <1>2, <2>3, <3>2, <3>3, FileKept
    <2>. QED
        BY <2>2, <2>3
<1>8. ASSUME NEW g \in File, g # f PROVE FileSound(g)' /\ Contents'[g] = Contents[g]
    <2>1. \A i \in Fid : fileOf'[i] = g <=> fileOf[i] = g
        BY <1>3, <1>4, <1>8, PageFsAssumption
    <2>2. IsOpen(g)' = IsOpen(g) /\ (IsOpen(g) => HandleOf(g)' = HandleOf(g))
        BY <1>5, <2>1, HandlesKept DEF Sound
    <2>3. disk'[g] = disk[g]
        BY <1>4, <1>8
    <2>4. CASE IsOpen(g)
        <3>1. PICK i \in Fid : i = HandleOf(g) /\ fileOf[i] = g
            BY <2>4, OpenHandle DEF Sound
        <3>2. i # h /\ fileOf'[i] = g
            BY <1>3, <1>8, <2>1, <3>1, PageFsAssumption
        <3>3. \A p \in PageId : Seen(g, p)' = Seen(g, p)
            BY <1>2, <2>2, <2>3, <2>4, <3>1, <3>2 DEF Seen, View
        <3>4. HeaderOf(g)' = HeaderOf(g)
            BY <1>4, <2>2, <2>4, <3>1, <3>2 DEF HeaderOf
        <3>. QED
            BY <1>2, <2>3, <3>3, <3>4, FileKept
    <2>5. CASE ~IsOpen(g)
        <3>1. /\ \A p \in PageId : Seen(g, p)' = Seen(g, p)
              /\ HeaderOf(g)' = HeaderOf(g)
            BY <2>2, <2>3, <2>5 DEF Seen, HeaderOf
        <3>. QED
            BY <1>2, <2>3, <3>1, FileKept
    <2>. QED
        BY <2>4, <2>5
<1>9. PtrLive'
    <2>1. ptr # NoPtr => ptr.key[1] \in Fid /\ fileOf[ptr.key[1]] # NoFile
        BY DEF Sound, Structure, TypeOK, PtrType, PtrAge, Opened, Key
    <2>. QED
        BY <1>2, <1>3, <1>4, <2>1 DEF Sound, PtrLive
<1>. QED
    BY <1>7, <1>8, <1>9 DEF FreeSound, Contents

(* An open() that fails shows every page as it was. *)
LEMMA OpenFailsSound ==
    ASSUME Sound, OpenFails
    PROVE  FreeSound' /\ PtrLive' /\ Contents' = Contents
<1>1. UNCHANGED <<fileOf, fileInfo, disk, page2index, buffer, live, ptr>>
    BY DEF OpenFails, cacheVars
<1>2. ASSUME NEW g \in File PROVE FileSound(g)' /\ Contents'[g] = Contents[g]
    <2>1. IsOpen(g)' = IsOpen(g) /\ (IsOpen(g) => HandleOf(g)' = HandleOf(g))
        BY <1>1, OpenFailsStep, HandlesKept DEF Sound
    <2>2. /\ \A p \in PageId : Seen(g, p)' = Seen(g, p)
          /\ HeaderOf(g)' = HeaderOf(g)
        BY <1>1, <2>1 DEF Seen, View, HeaderOf
    <2>. QED
        BY <1>1, <2>2, FileKept
<1>3. PtrLive'
    BY <1>1 DEF Sound, PtrLive
<1>. QED
    BY <1>2, <1>3 DEF FreeSound, Contents

(* A new process shows every page as the last one closed it. *)
LEMMA RestartSound ==
    ASSUME Sound, Restart
    PROVE  FreeSound' /\ PtrLive' /\ Contents' = Contents
<1>1. used = {} /\ UNCHANGED <<used, fileOf, disk, live, ptr>>
    BY DEF Restart
<1>2. ASSUME NEW g \in File PROVE FileSound(g)' /\ Contents'[g] = Contents[g]
    <2>1. /\ \A p \in PageId : Seen(g, p)' = Seen(g, p)
          /\ HeaderOf(g)' = HeaderOf(g)
        BY <1>1 DEF Seen, IsOpen, HeaderOf
    <2>. QED
        BY <1>1, <2>1, FileKept
<1>3. PtrLive'
    BY <1>1 DEF Sound, PtrLive
<1>. QED
    BY <1>2, <1>3 DEF FreeSound, Contents

(* Removing a closed file takes its pages from their owners, and no other  *)
(* file's.                                                                 *)
LEMMA RemoveSound ==
    ASSUME Sound, NEW f \in File, Remove(f)
    PROVE  FreeSound' /\ PtrLive' /\ Store!Drop(f)
<1>1. /\ ~IsOpen(f)
      /\ UNCHANGED <<used, fileOf, fileInfo, page2index, buffer, ptr>>
      /\ disk' = [disk EXCEPT ![f] = Absent]
      /\ live' = [live EXCEPT ![f] = {}]
    BY DEF Remove, fidVars, cacheVars
<1>2. /\ \A g \in File : g # f => disk'[g] = disk[g] /\ live'[g] = live[g]
      /\ disk'[f] = Absent /\ live'[f] = {}
    BY <1>1 DEF Sound, Structure, TypeOK
<1>3. \A g \in File : IsOpen(g)' = IsOpen(g) /\ HandleOf(g)' = HandleOf(g)
    BY <1>1 DEF IsOpen, HandleOf
<1>4. ASSUME NEW g \in File, g # f PROVE FileSound(g)' /\ Contents'[g] = Contents[g]
    <2>1. IsOpen(g) => fileOf[HandleOf(g)] = g
        BY OpenHandle DEF Sound
    <2>2. /\ \A p \in PageId : Seen(g, p)' = Seen(g, p)
          /\ HeaderOf(g)' = HeaderOf(g)
        BY <1>1, <1>2, <1>3, <1>4, <2>1 DEF Seen, View, HeaderOf
    <2>. QED
        BY <1>2, <1>4, <2>2, FileKept
<1>5. FileSound(f)'
    BY <1>2 DEF FileSound
<1>6. FreeSound'
    BY <1>4, <1>5 DEF FreeSound
<1>7. PtrLive'
    <2>1. ptr # NoPtr => fileOf[ptr.key[1]] \in File \ {f}
        BY <1>1, SeenClosed DEF Sound, Structure, TypeOK, PtrType, PtrAge, Opened, Key
    <2>. QED
        BY <1>1, <1>2, <2>1 DEF Sound, PtrLive
<1>8. Contents' = [Contents EXCEPT ![f] = [p \in {} |-> {}]]
    <2>1. Contents'[f] = [p \in {} |-> {}]
        BY <1>2 DEF Contents
    <2>2. /\ Contents = [g \in File |-> Contents[g]]
          /\ Contents' = [g \in File |-> Contents'[g]]
        BY DEF Contents
    <2>. QED
        BY <1>4, <2>1, <2>2
<1>9. Store!Drop(f)
    BY <1>8 DEF Store!Drop, Contents
<1>. QED
    BY <1>6, <1>7, <1>9

-----------------------------------------------------------------------------
(* The first process starts with a sound store, an empty one.              *)
LEMMA SoundInit == Init => Sound /\ Store!StoreInit
<1>. SUFFICES ASSUME Init PROVE Sound /\ Store!StoreInit
    OBVIOUS
<1>1. Structure /\ Coherence
    BY StructureInit, CoherenceInit
<1>2. FreeSound /\ PtrLive
    BY DEF Init, FreeSound, FileSound, PtrLive
<1>3. Contents = [f \in File |-> [p \in {} |-> {}]]
    BY DEF Init, Contents
<1>. QED
    BY <1>1, <1>2, <1>3 DEF Sound, Store!StoreInit, Contents

(* Every step is a step of the store or changes nothing in it. *)
LEMMA SoundNext ==
    ASSUME Reopen = FALSE, Sound, [Next]_vars
    PROVE  Sound' /\ (Store!StoreNext \/ Contents' = Contents)
<1>1. Structure' /\ Coherence'
    BY StructureNext, CoherenceNext DEF Sound
<1>. SUFFICES FreeSound' /\ PtrLive' /\ (Store!StoreNext \/ Contents' = Contents)
    BY <1>1 DEF Sound
<1>. USE DEF Store!StoreNext
<1>2. CASE UNCHANGED vars
    <2>1. UNCHANGED <<fileOf, fileInfo, used, disk, page2index, buffer, live, ptr>>
        BY <1>2 DEF vars, fidVars, cacheVars
    <2>2. \A g \in File : IsOpen(g)' = IsOpen(g) /\ HandleOf(g)' = HandleOf(g)
        BY <2>1 DEF IsOpen, HandleOf
    <2>3. \A g \in File : HeaderOf(g)' = HeaderOf(g)
        BY <2>1, <2>2 DEF HeaderOf
    <2>4. \A g \in File, p \in PageId : Seen(g, p)' = Seen(g, p)
        BY <2>1, <2>2 DEF Seen, View
    <2>5. \A g \in File : FileSound(g)' /\ Contents'[g] = Contents[g]
        BY <2>1, <2>3, <2>4, FileKept
    <2>6. Contents' = Contents
        BY <2>5 DEF Contents
    <2>7. PtrLive'
        BY <2>1 DEF Sound, PtrLive
    <2>. QED
        BY <2>5, <2>6, <2>7 DEF FreeSound
<1>3. ASSUME NEW f \in File, Open(f)
      PROVE  FreeSound' /\ PtrLive' /\ (Store!StoreNext \/ Contents' = Contents)
    BY <1>3, OpenSound
<1>4. ASSUME NEW f \in File, Remove(f)
      PROVE  FreeSound' /\ PtrLive' /\ (Store!StoreNext \/ Contents' = Contents)
    BY <1>4, RemoveSound
<1>5. CASE OpenFails
    BY <1>5, OpenFailsSound
<1>6. CASE Restart
    BY <1>6, RestartSound
<1>7. ASSUME NEW h \in Fid, Flush(h) \/ Close(h)
      PROVE  FreeSound' /\ PtrLive' /\ (Store!StoreNext \/ Contents' = Contents)
    BY <1>7, FlushSound, CloseSound
<1>8. ASSUME NEW h \in Fid, AllocateNew(h) \/ AllocateFree(h)
      PROVE  FreeSound' /\ PtrLive' /\ (Store!StoreNext \/ Contents' = Contents)
    BY <1>8, AllocateNewSound, AllocateFreeSound
<1>9. ASSUME NEW h \in Fid, NEW p \in PageId,
             ReadPage(h, p) \/ \E w \in BOOLEAN : TakePtr(h, p, w)
      PROVE  FreeSound' /\ PtrLive' /\ (Store!StoreNext \/ Contents' = Contents)
    BY <1>9, ReadsSound
<1>10. ASSUME NEW h \in Fid, NEW p \in PageId, Deallocate(h, p)
       PROVE  FreeSound' /\ PtrLive' /\ (Store!StoreNext \/ Contents' = Contents)
    BY <1>10, DeallocateSound
<1>11. ASSUME NEW v \in Value \ {Zero}, WritePtr(v)
       PROVE  FreeSound' /\ PtrLive' /\ (Store!StoreNext \/ Contents' = Contents)
    BY <1>11, WritePtrSound
<1>. QED
    BY <1>2, <1>3, <1>4, <1>5, <1>6, <1>7, <1>8, <1>9, <1>10, <1>11 DEF Next, PageNext

(* The paged file system implements the store without a cache, for every   *)
(* size of cache and any number of files, ids and pages, if no file is     *)
(* opened after a close(): what a page holds is what was last stored in    *)
(* it, whatever was evicted, flushed, closed or started again since, and   *)
(* allocate() never hands out a page that has an owner.                    *)
THEOREM StoreImplemented == Reopen = FALSE => (Spec => ImplementsPageStore)
<1>. SUFFICES ASSUME Reopen = FALSE PROVE Spec => ImplementsPageStore
    OBVIOUS
<1>1. Init => Sound /\ Store!StoreInit
    BY SoundInit
<1>2. Sound /\ [Next]_vars => Sound'
    BY SoundNext
<1>3. Sound /\ [Next]_vars =>
          [Store!StoreNext]_[f \in File |-> [p \in live[f] |-> Seen(f, p).magic]]
    BY SoundNext DEF Contents
<1>. QED
    BY <1>1, <1>2, <1>3, PTL DEF Spec, ImplementsPageStore, Store!StoreSpec

-----------------------------------------------------------------------------
(* A list of pages, each once, is no longer than the file.                 *)
LEMMA OrderShort ==
    ASSUME NEW n \in Nat, NEW m \in Nat, NEW s,
           \A i \in 1 .. n : s[i] \in 1 .. m,
           \A i, j \in 1 .. n : s[i] = s[j] => i = j
    PROVE  n <= m
<1> DEFINE t == [i \in 1 .. n |-> s[i]]
<1>1. t \in Injection(1 .. n, 1 .. m)
    BY DEF Injection, IsInjective
<1>2. IsFiniteSet(1 .. m) /\ Cardinality(1 .. m) = m /\ Cardinality(1 .. n) = n
    BY FS_Interval
<1>3. Cardinality(1 .. n) <= Cardinality(1 .. m)
    BY <1>1, <1>2, FS_Injection
<1>. QED
    BY <1>2, <1>3

(* Following the links from the first free page gives the pages in order,  *)
(* then no page.                                                           *)
LEMMA ChainFollowsOrder ==
    ASSUME NEW h \in Fid, NEW n \in Nat, NEW s \in [0 .. n -> Nat],
           s[0] = 0, s[n] = fileInfo[h].first_freepage,
           \A i \in 1 .. n : s[i] # 0 /\ View(h, s[i]).next = s[i - 1]
    PROVE  \A k \in PageId : FreeChain(h)[k] = IF k <= n THEN s[n + 1 - k] ELSE 0
<1> DEFINE step(k, p) == IF k = 1 \/ p = 0 THEN p ELSE View(h, p).next
           prior(c, k) == IF k = 1 THEN fileInfo[h].first_freepage ELSE c[k - 1]
           c0 == [k \in PageId |-> IF k <= n THEN s[n + 1 - k] ELSE 0]
<1>1. ASSUME NEW k \in PageId PROVE c0[k] = step(k, prior(c0, k))
    <2>1. CASE k = 1
        <3>1. n = 0 \/ (1 <= n /\ n + 1 - 1 = n)
            OBVIOUS
        <3>. QED
            BY <2>1, <3>1
    <2>2. CASE k # 1
        <3>1. k - 1 \in PageId /\ k \in Nat
            BY <2>2, PageFsAssumption DEF PageId
        <3>2. prior(c0, k) = IF k - 1 <= n THEN s[n + 1 - (k - 1)] ELSE 0
            BY <2>2, <3>1
        <3>3. CASE k <= n
            <4>1. /\ n + 1 - (k - 1) \in 1 .. n /\ (n + 1 - (k - 1)) - 1 = n + 1 - k
                  /\ k - 1 <= n
                BY <2>2, <3>1, <3>3 DEF PageId
            <4>2. s[n + 1 - (k - 1)] # 0 /\ View(h, s[n + 1 - (k - 1)]).next = s[n + 1 - k]
                BY <4>1
            <4>3. c0[k] = s[n + 1 - k] /\ prior(c0, k) = s[n + 1 - (k - 1)]
                BY <3>2, <3>3, <4>1
            <4>. HIDE DEF prior, c0
            <4>. QED
                BY <2>2, <4>2, <4>3
        <3>4. CASE k = n + 1
            <4>1. n + 1 - (k - 1) = 1 /\ 1 \in 1 .. n /\ 1 - 1 = 0 /\ k - 1 <= n
                BY <2>2, <3>1, <3>4 DEF PageId
            <4>2. s[1] # 0 /\ View(h, s[1]).next = 0
                BY <4>1
            <4>3. c0[k] = 0 /\ prior(c0, k) = s[1]
                BY <3>1, <3>2, <3>4, <4>1
            <4>. HIDE DEF prior, c0
            <4>. QED
                BY <2>2, <4>2, <4>3
        <3>5. CASE k > n + 1
            <4>1. c0[k] = 0 /\ prior(c0, k) = 0
                BY <3>1, <3>2, <3>5
            <4>. HIDE DEF prior, c0
            <4>. QED
                BY <4>1
        <3>. QED
            BY <3>1, <3>3, <3>4, <3>5
    <2>. QED
        BY <2>1, <2>2
<1>2. c0 = [k \in 1 .. MaxPage |->
                LET p == IF k = 1 THEN fileInfo[h].first_freepage ELSE c0[k - 1]
                IN  IF k = 1 \/ p = 0 THEN p ELSE View(h, p).next]
    <2>1. c0 = [k \in PageId |-> c0[k]]
        OBVIOUS
    <2>. HIDE DEF c0
    <2>. QED
        BY <1>1, <2>1 DEF PageId
<1>3. PICK c : c = FreeChain(h)
    OBVIOUS
<1>. HIDE DEF c0
<1>4. c = [k \in 1 .. MaxPage |->
                LET p == IF k = 1 THEN fileInfo[h].first_freepage ELSE c[k - 1]
                IN  IF k = 1 \/ p = 0 THEN p ELSE View(h, p).next]
    BY <1>2, <1>3 DEF FreeChain
<1>5. \A k \in PageId : c[k] = step(k, prior(c, k))
    BY <1>4 DEF PageId
<1> DEFINE Same == {k \in Nat : k \in PageId => c[k] = c0[k]}
<1>6. 0 \in Same
    BY DEF PageId
<1>7. ASSUME NEW k \in Nat, k \in Same PROVE k + 1 \in Same
    <2>. SUFFICES ASSUME k + 1 \in PageId PROVE c[k + 1] = c0[k + 1]
        OBVIOUS
    <2>1. CASE k = 0
        <3>1. prior(c, k + 1) = prior(c0, k + 1)
            BY <2>1
        <3>. QED
            BY <1>1, <1>5, <3>1
    <2>2. CASE k # 0
        <3>1. k \in PageId /\ (k + 1) - 1 = k
            BY <2>2, PageFsAssumption DEF PageId
        <3>2. prior(c, k + 1) = prior(c0, k + 1)
            BY <1>7, <3>1
        <3>. QED
            BY <1>1, <1>5, <3>2
    <2>. QED
        BY <2>1, <2>2
<1>8. Nat \subseteq Same
    <2>. HIDE DEF Same
    <2>. QED
        BY <1>6, <1>7, AllNat
<1>9. \A k \in PageId : c[k] = c0[k]
    BY <1>8 DEF PageId
<1>. QED
    BY <1>3, <1>9 DEF c0

(* So the list found by following the links is exact. *)
LEMMA ChainExact ==
    ASSUME Sound, NEW h \in Fid, Opened(h)
    PROVE  LET free == {p \in PageId : \E n \in PageId : FreeChain(h)[n] = p}
               owned == live[fileOf[h]]
           IN  /\ free \cap owned = {}
               /\ free \cup owned = 1 .. fileInfo[h].page_num
               /\ \A m, n \in PageId :
                     m # n /\ FreeChain(h)[m] # 0 => FreeChain(h)[m] # FreeChain(h)[n]
<1>1. PICK f \in File : f = fileOf[h] /\ f # NoFile
    BY DEF Opened, Sound, Structure, TypeOK
<1>2. IsOpen(f) /\ HandleOf(f) = h /\ disk[f] # Absent
    BY <1>1, SeenOpen, OpenHandle DEF Sound
<1> DEFINE free == (1 .. fileInfo[h].page_num) \ live[f]
<1>3. FreeFits(fileInfo[h], live[f], Links(f))
    BY <1>2 DEF Sound, FreeSound, FileSound, HeaderOf
<1>4. PICK n \in Nat : \E s \in [0 .. n -> Nat] :
          FreeOrder(n, s, fileInfo[h].first_freepage, free, Links(f))
    BY <1>3 DEF FreeFits
<1>5. PICK s \in [0 .. n -> Nat] :
          FreeOrder(n, s, fileInfo[h].first_freepage, free, Links(f))
    BY <1>4
<1>6. fileInfo[h].page_num \in Nat /\ 1 .. fileInfo[h].page_num \subseteq PageId
    BY PageFsAssumption DEF Sound, Structure, TypeOK, Header, PageId
<1>7. live[f] \subseteq 1 .. fileInfo[h].page_num
    BY <1>1 DEF Sound, Coherence, OpenFit, HeaderFits
<1>8. /\ free \subseteq 1 .. fileInfo[h].page_num /\ free \subseteq PageId
      /\ free \cap live[f] = {} /\ free \cup live[f] = 1 .. fileInfo[h].page_num
    BY <1>6, <1>7
<1>. HIDE DEF free
<1>9. /\ s[0] = 0
      /\ s[n] = fileInfo[h].first_freepage
      /\ \A i \in 1 .. n : s[i] \in free /\ Links(f)[s[i]] = s[i - 1]
      /\ \A p \in free : \E i \in 1 .. n : s[i] = p
      /\ \A i, j \in 1 .. n : s[i] = s[j] => i = j
    BY <1>5 DEF FreeOrder
<1>10. n <= MaxPage
    <2>1. \A i \in 1 .. n : s[i] \in 1 .. MaxPage
        BY <1>8, <1>9 DEF PageId
    <2>. QED
        BY <1>9, <2>1, OrderShort, PageFsAssumption
<1>11. \A i \in 1 .. n : s[i] # 0 /\ View(h, s[i]).next = s[i - 1]
    <2>1. \A p \in free : p # 0 /\ Links(f)[p] = View(h, p).next
        BY <1>2, <1>8 DEF Links, Seen, PageId
    <2>. QED
        BY <1>9, <2>1
<1>12. PICK c : c = FreeChain(h)
    OBVIOUS
<1>13. \A k \in PageId : c[k] = IF k <= n THEN s[n + 1 - k] ELSE 0
    BY <1>9, <1>11, <1>12, ChainFollowsOrder
<1>14. ASSUME NEW p \in free PROVE \E k \in PageId : c[k] = p
    <2>1. PICK i \in 1 .. n : s[i] = p
        BY <1>9
    <2>2. n + 1 - i \in PageId /\ n + 1 - i <= n /\ n + 1 - (n + 1 - i) = i
        BY <1>10, PageFsAssumption DEF PageId
    <2>. QED
        BY <1>13, <2>1, <2>2
<1>15. ASSUME NEW k \in PageId, c[k] # 0 PROVE k <= n /\ c[k] \in free
    <2>1. k <= n /\ c[k] = s[n + 1 - k]
        BY <1>13, <1>15
    <2>2. n + 1 - k \in 1 .. n
        BY <2>1 DEF PageId
    <2>. QED
        BY <1>9, <2>1, <2>2
<1>16. {p \in PageId : \E k \in PageId : c[k] = p} = free
    <2>1. 0 \notin PageId
        BY DEF PageId
    <2>. QED
        BY <1>8, <1>14, <1>15, <2>1
<1>17. ASSUME NEW k \in PageId, NEW m \in PageId, k # m, c[k] # 0 PROVE c[k] # c[m]
    <2>. SUFFICES ASSUME c[k] = c[m] PROVE FALSE
        OBVIOUS
    <2>1. k <= n /\ m <= n
        BY <1>15, <1>17
    <2>2. n + 1 - k \in 1 .. n /\ n + 1 - m \in 1 .. n /\ n + 1 - k # n + 1 - m
        BY <1>17, <2>1 DEF PageId
    <2>3. s[n + 1 - k] = s[n + 1 - m]
        BY <1>13, <2>1
    <2>. QED
        BY <1>9, <2>2, <2>3
<1>. QED
    BY <1>1, <1>8, <1>12, <1>16, <1>17

(* The free list of every open file holds exactly the pages nobody owns,   *)
(* each once, for every size of cache and any number of files and pages,   *)
(* if no file is opened after a close(): allocate() and deallocate() in    *)
(* any order, with evictions between them, lose no page and list none      *)
(* twice.                                                                  *)
THEOREM FreeListStaysExact == Reopen = FALSE => (Spec => []FreeListExact)
<1>. SUFFICES ASSUME Reopen = FALSE PROVE Spec => []FreeListExact
    OBVIOUS
<1>1. Init => Sound
    BY SoundInit
<1>2. Sound /\ [Next]_vars => Sound'
    BY SoundNext
<1>3. Sound => FreeListExact
    BY ChainExact DEF FreeListExact
<1>. QED
    BY <1>1, <1>2, <1>3, PTL DEF Spec
=============================================================================
