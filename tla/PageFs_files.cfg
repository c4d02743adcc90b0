CONSTANTS
    Capacity = 2
    MaxFid = 2
    MaxPage = 2
    f1 = f1
    f2 = f2
    zero = zero
    leaf = leaf
    File = {f1, f2}
    Value = {zero}
    Zero = zero
    FreeBlock = FreeBlock
    NoFile = NoFile
    Absent = Absent
    NoPtr = NoPtr
    Reopen = FALSE
SPECIFICATION Spec
INVARIANTS MapsInverse PtrInWindow DirtyWritable Structure
CONSTRAINT ThreePages
SYMMETRY Names
CHECK_DEADLOCK FALSE
CONSTANT Flushes = FALSE
CONSTANT Restarts = FALSE
