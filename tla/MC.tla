--------------------------------- MODULE MC ---------------------------------
(***************************************************************************)
(* Model-checking instances of Recycle: a server process S (main thread   *)
(* sMain, register_cb_thread sReg, handler threads sH1, sH2) and a client *)
(* process C (threads c1, c2) holding a capability to sMain and two PMOs  *)
(* for connection shared memory, as the process manager sets them up.     *)
(***************************************************************************)
EXTENDS Recycle, Sequences

CONSTANTS S, C, sMain, sReg, sH1, sH2, c1, c2, k1, k2, m1, m2

MCProcs == {S, C}
MCThreads == {sMain, sReg, sH1, sH2, c1, c2}
MCConns == {k1, k2}
MCConn1 == {k1}
MCPmos == {m1, m2}
MCMaxSlots == 8

MCProcOf == [t \in MCThreads |-> IF t \in {c1, c2} THEN C ELSE S]
MCTypeOf == [t \in MCThreads |->
                CASE t = sReg -> "register"
                  [] t \in {sH1, sH2} -> "shadow"
                  [] OTHER -> "user"]

Table(seq) == [i \in 1..MCMaxSlots |-> IF i <= Len(seq) THEN seq[i] ELSE NULL]

MCInitSlots == [p \in MCProcs |->
                  IF p = S THEN Table(<<sMain, sReg, sH1, sH2>>)
                  ELSE Table(<<c1, c2, sMain, m1, m2>>)]
MCInitConn == [c \in Conns |-> NoConn]
MCInitCfg == [t \in MCThreads |-> NoCfg]

\* After sMain's sys_register_server (sReg is its register_cb_thread).
MCInitCfgServing ==
    [t \in MCThreads |->
        CASE t = sMain -> [NoCfg EXCEPT !.role = "server", !.reg = sReg]
          [] t = sReg -> [NoCfg EXCEPT !.role = "register"]
          [] OTHER -> NoCfg]
MCInitRunning == {sMain, c1, c2}

\* cap_num = 0 only.
MCNoCaps == {<<>>}
\* C's slots 4 and 5 hold m1 and m2: none, one or two PMO caps, and three
\* caps, which is MAX_CAP_TRANSFER (scaled down to 3) and refused.
MCCallCaps == {<<>>, <<5>>, <<4, 5>>, <<4, 5, 4>>}

\* C holds its shared-memory PMOs in its last slots (its first ones were
\* freed earlier), so their slot ids are high.
MCInitSlotsHighShm ==
    [p \in MCProcs |->
        IF p = S THEN Table(<<sMain, sReg, sH1, sH2>>)
        ELSE Table(<<c1, c2, sMain, NULL, NULL, NULL, m2, m1>>)]

\* After c1's sys_register_client with shm m1 and sReg's
\* sys_ipc_register_cb_return naming handler sH1 with an exit routine.
MCInitSlotsConnected ==
    [p \in MCProcs |->
        IF p = S THEN Table(<<sMain, sReg, sH1, sH2, m1, k1>>)
        ELSE Table(<<c1, c2, sMain, m1, m2, k1>>)]
MCInitConnConnected ==
    [c \in Conns |->
        IF c = k1
        THEN [alloc |-> TRUE, valid |-> TRUE, client |-> NULL, handler |-> sH1,
              badge |-> C, server |-> S, own |-> NULL, capC |-> 6, capS |-> 6,
              shm |-> m1, shmC |-> 4, shmS |-> 5]
        ELSE NoConn]
MCInitCfgConnected ==
    [MCInitCfgServing EXCEPT
        ![sReg].pending = k1,
        ![sH1] = [NoCfg EXCEPT !.role = "handler", !.exitEntry = TRUE]]

=============================================================================
