\* A creates a TEE shared PMO in B while its own one-slot table is full.
CONSTANTS
    NULL = NULL
    A = A
    B = B
    C = C
    tA = tA
    tB = tB
    tC = tC
    x1 = x1
    x2 = x2
    x3 = x3
    u1 = u1
    u2 = u2
    Procs <- MCProcs
    Threads <- MCThreads
    Pmos <- MCPmos
    ProcOf <- MCProcOf
    HeapLimit <- MCHeapLimit
    UuidOf <- MCUuidOf
    Addr <- MCAddr
    MaxSlots = 1
    PageSize = 2
    Sizes = {1}
    CreateTypes = {"anonym", "file"}
    BrkSteps = {1}
    AllocFails = {FALSE}
    Uuids = {u1, u2}
    CallsOf <- MCCallsTeeCreate
    CapGroupCaps <- MCCapGroupCaps
    OffsetBits = 3
    RwOffsets = {0, 3, 7}
    RwLens = {2}
    CopyFaults = {FALSE, TRUE}
    BuddyPageSize = 4096
    SlabMaxSize = 2048
    KmallocSizes <- MCKmallocSizes
SPECIFICATION PmoSpec
INVARIANTS
    NoDoubleFree
CHECK_DEADLOCK FALSE
