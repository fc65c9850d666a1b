\* Closing one connection of a shared handler with no exit routine while another connection is in a call.
CONSTANTS
    NULL = NULL
    Recycler = Recycler
    S = S
    C = C
    sMain = sMain
    sReg = sReg
    sH1 = sH1
    sH2 = sH2
    c1 = c1
    c2 = c2
    k1 = k1
    k2 = k2
    m1 = m1
    m2 = m2
    Procs <- MCProcs
    Threads <- MCThreads
    Conns <- MCConns
    Pmos <- MCPmos
    MaxSlots <- MCMaxSlots
    ProcOf <- MCProcOf
    TypeOf <- MCTypeOf
    InitSlots <- MCInitSlots
    InitConn <- MCInitConn
    InitCfg <- MCInitCfg
    InitRunning <- MCInitRunning
    CallCaps <- MCNoCaps
    MaxCapTransfer = 3
    IpcCopyFaults = {FALSE}
    ServerThreads = {sMain}
    Registrants = {c1}
    Callers = {c1, c2}
    SharedHandlers = TRUE
    ExitRoutines = {FALSE}
    ExitCallers = {}
    Closers = {c1, c2}
SPECIFICATION Spec
PROPERTY
    CallsComplete
CHECK_DEADLOCK FALSE
