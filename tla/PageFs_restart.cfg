CONSTANTS
    Capacity = 1
    MaxFid = 1
    MaxPage = 3
    f1 = f1
    f2 = f2
    zero = zero
    leaf = leaf
    File = {f1}
    Value = {zero, leaf}
    Zero = zero
    FreeBlock = FreeBlock
    NoFile = NoFile
    Absent = Absent
    NoPtr = NoPtr
    Reopen = FALSE
SPECIFICATION Spec
INVARIANTS FreeListExact CleanIsOnDisk
CHECK_DEADLOCK FALSE
CONSTANT Flushes = TRUE
CONSTANT Restarts = TRUE
PROPERTY ImplementsPageStore
