\* A server process exits before its main thread has called sys_register_server.
CONSTANTS
    NULL = NULL
    Recycler = Recycler
    S = S
    C = C
    sMain = sMain
    sReg = sReg
    sH1 = sH1
    sH2 = sH2
    c1 = c1
    c2 = c2
    k1 = k1
    k2 = k2
    m1 = m1
    m2 = m2
    Procs <- MCProcs
    Threads <- MCThreads
    Conns <- MCConn1
    Pmos <- MCPmos
    MaxSlots <- MCMaxSlots
    ProcOf <- MCProcOf
    TypeOf <- MCTypeOf
    InitSlots <- MCInitSlots
    InitConn <- MCInitConn
    InitCfg <- MCInitCfg
    InitRunning <- MCInitRunning
    CallCaps <- MCNoCaps
    MaxCapTransfer = 3
    IpcCopyFaults = {FALSE}
    ServerThreads = {sMain}
    Registrants = {}
    Callers = {}
    SharedHandlers = FALSE
    ExitRoutines = {TRUE, FALSE}
    ExitCallers = {sMain}
    Closers = {}
SPECIFICATION Spec
INVARIANT
    RegisterConfigPresent
CHECK_DEADLOCK FALSE
