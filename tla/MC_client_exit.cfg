\* Client and server processes exit while the client calls and closes an established connection.
CONSTANTS
    NULL = NULL
    Recycler = Recycler
    S = S
    C = C
    sMain = sMain
    sReg = sReg
    sH1 = sH1
    sH2 = sH2
    c1 = c1
    c2 = c2
    k1 = k1
    k2 = k2
    m1 = m1
    m2 = m2
    Procs <- MCProcs
    Threads <- MCThreads
    Conns <- MCConn1
    Pmos <- MCPmos
    MaxSlots <- MCMaxSlots
    ProcOf <- MCProcOf
    TypeOf <- MCTypeOf
    InitSlots <- MCInitSlotsConnected
    InitConn <- MCInitConnConnected
    InitCfg <- MCInitCfgConnected
    InitRunning <- MCInitRunning
    CallCaps <- MCNoCaps
    MaxCapTransfer = 3
    IpcCopyFaults = {FALSE}
    ServerThreads = {sMain}
    Registrants = {}
    Callers = {c1, c2}
    SharedHandlers = FALSE
    ExitRoutines = {TRUE, FALSE}
    ExitCallers = {sMain, c2}
    Closers = {c1, c2}
SPECIFICATION Spec
INVARIANTS
    TypeOK
    KernelAssertionsHold
    RefcountSound
    TeardownComplete
    ValidConnectionsLive
PROPERTIES
    CallsComplete
CHECK_DEADLOCK FALSE
