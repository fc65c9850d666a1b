------------------------------ MODULE Recycle ------------------------------
(***************************************************************************)
(* Process exit and resource reclamation (kernel/object/recycle.c),        *)
(* composed with the IPC engine it has to stop.                            *)
(*                                                                         *)
(* sys_exit_group marks the threads of a process TE_EXITING and notifies   *)
(* the user-level recycler of the process manager, which calls            *)
(* sys_cap_group_recycle until it stops returning -EAGAIN.  One call is   *)
(* modelled as two steps: RecycleStop (Phase-1 slot loop and thread loop, *)
(* returning -EAGAIN or going on) and RecycleReclaim (wait_for_kernel_stack *)
(* then the Phase-2 slot loop), since waiting for the kernel stacks lets  *)
(* other cores run.  Each slot loop runs under the table's write lock and *)
(* is one step; RECURSIVE operators keep the slot order of                *)
(* for_each_set_bit, which matters because a slot freed ahead of the loop *)
(* is skipped.                                                             *)
(***************************************************************************)
EXTENDS IPC

CONSTANTS
    ExitCallers, \* user threads whose code calls sys_exit_group
    Closers     \* threads whose code calls sys_ipc_close_connection

\* proc (notify_recycler flag, and whether the cap_group has been
\* recycled) and rec (the recycler's pc and target) are declared in IPC.
vars == <<thr, cfg, conn, slots, rc, bug, proc, rec>>

ThreadsOf(p) == {t \in Threads : ProcOf[t] = p}

\* The kernel state a system call works on, with its return code.
St0 == [thr |-> thr, cfg |-> cfg, conn |-> conn, slots |-> slots, rc |-> rc,
        bug |-> bug, ret |-> "ok"]

\* The kernel state after the call.
Commit(st) ==
    /\ thr' = st.thr /\ cfg' = st.cfg /\ conn' = st.conn
    /\ slots' = st.slots /\ rc' = st.rc /\ bug' = st.bug

-----------------------------------------------------------------------------
(* sys_exit_group by thread t: the first caller (CAS on notify_recycler)  *)
(* moves every TE_RUNNING thread of the process to TE_EXITING and         *)
(* notifies the recycler; the caller is then TE_EXITING and sched() lets  *)
(* the scheduler retire it (TS_EXIT, TE_EXITED).                          *)
ExitGroup(t) ==
    LET p == ProcOf[t] IN
    /\ ~Halted
    /\ t \in ExitCallers /\ TypeOf[t] = "user" /\ Running(t)
    /\ thr' = [u \in Threads |->
                 IF u = t THEN RetireThread(thr, t)[t]
                 ELSE IF ProcOf[u] = p /\ ~proc[p].notified /\ thr[u].exit = "run"
                 THEN [thr[u] EXCEPT !.exit = "exiting"]
                 ELSE thr[u]]
    /\ proc' = [proc EXCEPT ![p].notified = TRUE]
    /\ UNCHANGED <<cfg, conn, slots, rc, bug, rec>>

(* The scheduler retires a running TE_EXITING user thread when it is      *)
(* descheduled (the contract of sched() relied on by sys_ipc_call and     *)
(* sys_exit_group).                                                       *)
SchedExit(t) ==
    /\ ~Halted
    /\ TypeOf[t] = "user" /\ Running(t) /\ thr[t].exit = "exiting"
    /\ thr' = RetireThread(thr, t)
    /\ UNCHANGED <<cfg, conn, slots, rc, bug, proc, rec>>

-----------------------------------------------------------------------------
(* __cap_free of slot i of table q: drop the reference the slot holds.   *)
CapFree(st, q, i) ==
    IF i = 0 \/ st.slots[q][i] = NULL THEN st
    ELSE [st EXCEPT !.slots[q][i] = NULL, !.rc = RefDec(@, st.slots[q][i])]

\* Fault model: a busy connection is reported stopped.
StopConnRetIgnoreBusy(st, c) == "ok"

\* Fault model: the connection is invalidated without try_lock(ownership).
StopConnectionNoTryLock(st, c) ==
    [st EXCEPT !.conn[c].own = Recycler, !.conn[c].valid = FALSE, !.ret = "ok"]

\* Fault model: ownership is taken but the connection is left VALID.
StopConnStateKeepValid(st, c) ==
    IF st.conn[c].valid /\ TryLock(st.conn[c].own)
    THEN [st EXCEPT !.conn[c].own = Recycler]
    ELSE st

(* __stop_connection: an INVALID connection is done ("ok", i.e. 0); otherwise take   *)
(* its ownership (-EAGAIN if an IPC holds it) and mark it INVALID.        *)
StopConnRet(st, c) ==
    IF ~st.conn[c].valid \/ TryLock(st.conn[c].own) THEN "ok" ELSE "EAGAIN"

StopConnState(st, c) ==
    IF st.conn[c].valid /\ TryLock(st.conn[c].own)
    THEN [st EXCEPT !.conn[c].own = Recycler, !.conn[c].valid = FALSE]
    ELSE st

(* stop_connection: *ret = __stop_connection(conn).                       *)
StopConnection(st, c) ==
    [StopConnState(st, c) EXCEPT !.ret = StopConnRet(st, c)]

(* stop_ipc_registration: a live register_cb_thread of the process is     *)
(* stopped by taking its register_lock for good; a held lock sets -EAGAIN. *)
StopIpcRegistration(st, p, r) ==
    CASE ProcOf[r] # p \/ TypeOf[r] # "register"
           \/ st.thr[r].exit = "exited" -> st
      [] st.cfg[r].role # "register" ->
           [st EXCEPT !.bug = @ \cup {"null_register_config"}]
      [] ~TryLock(st.cfg[r].regLock) -> [st EXCEPT !.ret = "EAGAIN"]
      [] OTHER -> [st EXCEPT !.cfg[r].regLock = Recycler,
                             !.thr[r].exit = "exited", !.thr[r].state = "exit"]

(* The Phase-1 loop over the set slots, in slot order.                    *)
RECURSIVE StopLoop(_, _, _)
StopLoop(st, p, i) ==
    IF i > MaxSlots THEN st
    ELSE LET o == slots[p][i] IN
         StopLoop(CASE o \in Conns -> StopConnection(st, o)
                    [] o \in Threads -> StopIpcRegistration(st, p, o)
                    [] OTHER -> st,
                  p, i + 1)

(* The thread loop: shadow and TS_WAITING threads are set TE_EXITED; any *)
(* other thread not yet exited makes the call return -EAGAIN.            *)
StopThreads(st, p) ==
    LET live == {t \in ThreadsOf(p) : st.thr[t].exit # "exited"}
        forced == {t \in live : TypeOf[t] = "shadow" \/ st.thr[t].state = "waiting"}
    IN [st EXCEPT !.thr = [t \in Threads |->
                              IF t \in forced THEN [@[t] EXCEPT !.exit = "exited"]
                              ELSE @[t]],
                  !.ret = IF live \ forced # {} THEN "EAGAIN" ELSE @]

(* sys_cap_group_recycle up to Phase-2: the recycler picks a notified,    *)
(* not yet recycled process (retrying it after -EAGAIN).                  *)
RecycleStop(p) ==
    LET st1 == StopLoop(St0, p, 1)
        st2 == IF st1.ret = "EAGAIN" THEN st1 ELSE StopThreads(st1, p)
    IN
    /\ ~Halted
    /\ rec.pc = "idle" /\ proc[p].notified /\ ~proc[p].recycled
    /\ Commit(st2)
    /\ rec' = IF st2.ret = "EAGAIN" THEN rec
              ELSE [pc |-> "reclaim", target |-> p]
    /\ UNCHANGED proc

(* recycle_server_shadow_thread: a handler with an exit routine that is   *)
(* still TE_RUNNING is armed to run it (BUG_ON its sc is set, BUG_ON its  *)
(* ipc_lock is held, then lock it, kmalloc an sc, TS_INTER, enqueue);     *)
(* any other handler is set TS_EXIT.                                      *)
RecycleServerShadowThread(st, h) ==
    IF st.cfg[h].exitEntry /\ st.thr[h].exit = "run"
    THEN [st EXCEPT
            !.bug = @ \cup (IF st.thr[h].sc # NULL THEN {"shadow_sc_set"} ELSE {})
                     \cup (IF st.cfg[h].ipcLock # NULL THEN {"shadow_locked"} ELSE {}),
            !.cfg[h].ipcLock = Recycler,
            !.thr[h].sc = KernSC, !.thr[h].state = "inter"]
    ELSE [st EXCEPT !.thr[h].state = "exit"]

(* __recycle_connection for cap_group p (BUG_ON a VALID connection).  On  *)
(* the client side, the handler is recycled and the server's copies of    *)
(* the connection and of the shm are freed; on the server side, the       *)
(* handler is cleared and the ownership unlocked.                         *)
RecycleConnection(st, p, c) ==
    LET cn == st.conn[c]
        h == cn.handler
    IN
    CASE cn.valid -> [st EXCEPT !.bug = @ \cup {"recycle_valid_conn"}]
      [] cn.badge = p /\ h = NULL -> st
      [] cn.badge = p ->
           CapFree(CapFree(RecycleServerShadowThread(st, h),
                           ProcOf[h], cn.capS), ProcOf[h], cn.shmS)
      [] OTHER -> [st EXCEPT !.conn[c].handler = NULL, !.conn[c].own = NULL]

\* Fault model: only the slots of the exited cap_group are freed.
FreeAllCopiesLocal(st, t) ==
    [st EXCEPT !.slots[ProcOf[t]] = [i \in SlotIds |-> IF @[i] = t THEN NULL ELSE @[i]]]

(* The Phase-2 branch for a thread of the exited cap_group: free every    *)
(* copy of it, in every table.                                            *)
FreeAllCopies(st, t) ==
    [st EXCEPT !.slots = [q \in Procs |->
                            [i \in SlotIds |-> IF @[q][i] = t THEN NULL
                                               ELSE @[q][i]]]]

(* The Phase-2 loop over the slots still set, in slot order.  A          *)
(* connection slot frees the connection's shm_cap_in_client slot and     *)
(* itself after __recycle_connection.                                    *)
RECURSIVE ReclaimLoop(_, _, _)
ReclaimLoop(st, p, i) ==
    IF i > MaxSlots THEN st
    ELSE LET o == st.slots[p][i] IN
         ReclaimLoop(
             CASE o = NULL -> st
               [] o \in Conns ->
                    CapFree(CapFree(RecycleConnection(st, p, o), p,
                                    st.conn[o].shmC), p, i)
               [] o \in Threads /\ ProcOf[o] = p -> FreeAllCopies(st, o)
               [] OTHER -> CapFree(st, p, i),
             p, i + 1)

(* wait_for_kernel_stack, then Phase-2 and the release of the cap_group. *)
(* A thread's kernel stack is in use while it is on a CPU, which a      *)
(* register_cb_thread still is between its unlock and its switch.       *)
RecycleReclaim ==
    LET p == rec.target
        st == ReclaimLoop(St0, p, 1)
    IN
    /\ ~Halted
    /\ rec.pc = "reclaim"
    /\ \A t \in ThreadsOf(p) :
        thr[t].state \notin {"running", "inter"} /\ cfg[t].cbClient = NULL
    /\ Commit(st)
    /\ proc' = [proc EXCEPT ![p].recycled = TRUE]
    /\ rec' = [pc |-> "idle", target |-> NULL]

(* sys_ipc_close_connection by thread t on the connection in its slot i:  *)
(* __stop_connection (-EAGAIN: nothing done), __recycle_connection for    *)
(* the caller's cap_group, then free the slot shm_cap_in_client and the   *)
(* connection slot in the caller's table.                                 *)
CloseConnection(t) ==
    LET p == ProcOf[t] IN
    /\ ~Halted
    /\ t \in Closers /\ Running(t)
    /\ \E i \in SlotIds :
        LET c == slots[p][i]
            st1 == StopConnection(St0, c)
        st == CapFree(CapFree(RecycleConnection(st1, p, c), p, conn[c].shmC), p, i)
        IN
        /\ c \in Conns
        /\ st1.ret = "ok"
        /\ Commit(st)
    /\ UNCHANGED recVars

-----------------------------------------------------------------------------
Init ==
    /\ IpcInit
    /\ proc = [p \in Procs |-> [notified |-> FALSE, recycled |-> FALSE]]
    /\ rec = [pc |-> "idle", target |-> NULL]

Next ==
    \/ \E t \in Threads :
        \/ RegisterServer(t)
        \/ RegisterClient(t)
        \/ CbReturnUnlock(t)
        \/ CbReturnSwitch(t)
        \/ IpcCall(t)
        \/ IpcReturn(t)
        \/ ExitRoutineReturn(t)
        \/ ExitGroup(t)
        \/ SchedExit(t)
        \/ CloseConnection(t)
    \/ \E p \in Procs : RecycleStop(p)
    \/ RecycleReclaim

(* Fair steps: passive threads (handlers, register_cb_threads) finish the *)
(* request they run and the scheduler retires exiting threads.  Client    *)
(* calls, exits and registrations are the programs' choices and are not   *)
(* fair; the recycler is not assumed fair either, so a property that      *)
(* holds under Fairness holds however late recycling happens.            *)
Fairness ==
    \A t \in Threads :
        /\ WF_vars(IpcReturn(t))
        /\ WF_vars(CbReturnUnlock(t))
        /\ WF_vars(CbReturnSwitch(t))
        /\ WF_vars(ExitRoutineReturn(t))
        /\ WF_vars(SchedExit(t))

Spec == Init /\ [][Next]_vars /\ Fairness

-----------------------------------------------------------------------------
TypeOK ==
    /\ IpcTypeOK
    /\ proc \in [Procs -> [notified : BOOLEAN, recycled : BOOLEAN]]
    /\ rec \in [pc : {"idle", "reclaim"}, target : Procs \cup {NULL}]

(* Phase-2 of sys_cap_group_recycle never meets a VALID connection       *)
(* (BUG_ON in __recycle_connection): Phase-1 left every connection of    *)
(* the process stopped, whatever IPC was in flight.                      *)
ReclaimMeetsOnlyInvalidConns == "recycle_valid_conn" \notin bug

(* recycle_server_shadow_thread arms an exit routine only on a handler   *)
(* that holds no scheduling context and whose ipc_lock is free (its two  *)
(* BUG_ONs), on close and on recycle, with handlers shared or not.       *)
ShadowArmedClean == bug \cap {"shadow_sc_set", "shadow_locked"} = {}

(* stop_ipc_registration only meets register_cb_threads that have a      *)
(* register_cb config (it dereferences general_ipc_config unchecked).    *)
RegisterConfigPresent == "null_register_config" \notin bug

(* No kernel assertion of the recycle path fires.                        *)
KernelAssertionsHold ==
    /\ ReclaimMeetsOnlyInvalidConns
    /\ ShadowArmedClean
    /\ RegisterConfigPresent

(* The kernel never switches to a thread that Phase-2 has freed: a late   *)
(* sys_ipc_return or sys_ipc_register_cb_return, or a call into a       *)
(* handler, never resumes a thread of a recycled process.               *)
NoResumeOfFreedThread == "resume_freed_thread" \notin bug

(* Calls in flight are counted: the count of a connection or PMO is its  *)
(* copies in the capability tables plus the obj_get that sys_ipc_call    *)
(* keeps until sys_ipc_return, through every path of call, return,       *)
(* close and recycle.                                                    *)
RefcountSound ==
    \A o \in Conns \cup Pmos :
        rc[o] = SlotRefs(slots, o) + Cardinality({h \in Threads : cfg[h].active = o})

(* Capability transfer in sys_ipc_call is all or nothing: a call step    *)
(* that leaves its caller running (ipc_send_cap failed at some cap_copy,  *)
(* or at the copy_to_user of the new slot ids) leaves every capability    *)
(* table and reference count as it was, because out_free_cap frees every *)
(* copy already made.  Steps that block the caller carry all the copies.  *)
CallTransferAllOrNothing ==
    [][\A t \in Callers : IpcCall(t) /\ Running(t)' => UNCHANGED <<slots, rc>>]_vars

(* After sys_cap_group_recycle of a process, its capability table is     *)
(* empty, none of its threads is named by any slot of any table (the     *)
(* free-all-copies branch of Phase-2 reached every one of them), and no  *)
(* live connection (one still counted) names one of its threads as       *)
(* handler: the server-side branch of __recycle_connection ran for every *)
(* connection it served.                                                 *)
TeardownComplete ==
    \A p \in Procs : proc[p].recycled =>
        /\ \A i \in SlotIds : slots[p][i] = NULL
        /\ \A t \in ThreadsOf(p) : Copies(slots, t) = {}
        /\ \A c \in Conns : rc[c] > 0 => conn[c].handler \notin ThreadsOf(p)

(* A VALID connection has a handler, and neither its handler's process   *)
(* nor its client's process has been recycled: a sys_ipc_call that finds *)
(* it VALID migrates into a live thread.                                 *)
ValidConnectionsLive ==
    \A c \in Conns : conn[c].valid =>
        /\ conn[c].handler # NULL
        /\ ~proc[ProcOf[conn[c].handler]].recycled
        /\ ~proc[conn[c].badge].recycled

(* A register_cb_thread that starts serving a registration holds the     *)
(* scheduling context the client donated (sys_register_client passes it, *)
(* sys_ipc_register_cb_return drops it only after finishing).            *)
RegisterThreadHasSc ==
    \A r \in Threads :
        (TypeOf[r] = "register" /\ Running(r) /\ cfg[r].cbClient = NULL)
            => thr[r].sc # NULL

(* A handler serves one call at a time: two clients blocked in calls     *)
(* wait on different handlers, and a handler running its exit routine    *)
(* serves no call (the ipc_lock is held by the recycler).                *)
HandlerServesOneCall ==
    LET caller(h) == {t \in Threads : thr[t].wait # NULL /\ thr[t].wait.kind = "call"
                                      /\ conn[thr[t].wait.conn].handler = h}
    IN \A h \in Threads :
        /\ Cardinality(caller(h)) <= 1
        /\ thr[h].state = "inter" => caller(h) = {}

(* Every client blocked in sys_ipc_call or sys_register_client is        *)
(* eventually resumed or retired, whichever process exits meanwhile.     *)
CallsComplete ==
    \A t \in Threads :
        thr[t].wait # NULL ~> (thr[t].wait = NULL \/ Dead(t))

=============================================================================
