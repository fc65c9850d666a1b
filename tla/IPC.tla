-------------------------------- MODULE IPC --------------------------------
(***************************************************************************)
(* The IPC connection engine of kernel/ipc/connection.c.                   *)
(*                                                                         *)
(* Threads belong to processes (cap_groups) and have a type: "user",       *)
(* "register" (TYPE_REGISTER, a server's register_cb_thread) or "shadow"   *)
(* (TYPE_SHADOW, a server handler thread).  Each system call of the        *)
(* engine is one action: the kernel is not preemptible inside a call, and  *)
(* other cores only observe it through the try-locks it takes and          *)
(* releases.  sys_ipc_register_cb_return is the exception: it releases the *)
(* register_lock before it clears its scheduling context, so another core  *)
(* can run between the two; it is split at that point.                    *)
(*                                                                         *)
(* Data is abstracted: a scheduling context is named by the user thread    *)
(* that owns it, a badge is the client process, a message is not modelled *)
(* (its placement check is in IpcMsg), and capabilities are slot ids of    *)
(* the tables of KObject.                                                  *)
(***************************************************************************)
EXTENDS Naturals, FiniteSets, Sequences, KObject

CONSTANTS
    Procs,          \* cap_groups
    Threads,        \* all threads
    Conns,          \* pool of connection objects (bounds registrations)
    Pmos,           \* PMOs usable as connection shared memory
    MaxSlots,       \* capability slots per cap_group
    ProcOf,         \* thread -> owning cap_group
    TypeOf,         \* thread -> "user" | "register" | "shadow"
    ServerThreads,  \* user threads whose code calls sys_register_server
    Registrants,    \* user threads whose code calls sys_register_client
    Callers,        \* threads whose code calls sys_ipc_call
    SharedHandlers, \* may a server hand one handler thread several connections?
    ExitRoutines,   \* the exit-routine choices a server makes (TRUE = non-zero)
    Recycler,       \* model value: the recycler, as lock holder
    InitRunning,    \* threads runnable in the initial state
    InitSlots,      \* initial capability tables
    InitConn,       \* initial connection objects
    InitCfg,        \* initial per-thread IPC configuration
    CallCaps,       \* cap_buf contents a caller passes (sequences of its slot ids)
    MaxCapTransfer, \* MAX_CAP_TRANSFER
    IpcCopyFaults   \* may copy_to_user of the new slot ids fault?

ASSUME ProcOf \in [Threads -> Procs]
ASSUME TypeOf \in [Threads -> {"user", "register", "shadow"}]
ASSUME MaxSlots \in Nat \ {0}
ASSUME ExitRoutines \subseteq BOOLEAN /\ ExitRoutines # {}
ASSUME CallCaps \subseteq Seq(1..MaxSlots) /\ IpcCopyFaults \subseteq BOOLEAN

SlotIds == 1..MaxSlots
Objs == Threads \cup Conns \cup Pmos

\* Scheduling contexts: a user thread's own one, one kmalloc'ed by the
\* recycler for an exit routine, and that one after kfree (dangling).
KernSC == "kern_sc"
FreedSC == "freed_sc"
SCs == Threads \cup {KernSC, FreedSC}

\* Places a blocked thread waits in (ghost: the syscall it is blocked in).
Waits == [kind : {"call", "register"}, conn : Conns]

\* Kernel assertions (BUG_ON) and uses of a dead thread.
BugSites == {"recycle_valid_conn", "shadow_sc_set", "shadow_locked",
             "null_register_config", "resume_freed_thread"}

VARIABLES
    thr,    \* thread_ctx: state, thread_exit_state, sc, plus the ghost wait
    cfg,    \* general_ipc_config: server, register_cb or handler config
    conn,   \* struct ipc_connection
    slots,  \* the capability table of each cap_group
    rc,     \* reference counts of connections and PMOs
    bug,    \* BUG_ON sites that fired (the kernel halts)
    proc,   \* cap_group exit state, owned by the recycler (Recycle)
    rec     \* the user-level recycler (Recycle)

ipcVars == <<thr, cfg, conn, slots, rc, bug>>
recVars == <<proc, rec>>

ThreadRec == [state : {"running", "waiting", "exit", "inter"},
              exit : {"run", "exiting", "exited"},
              sc : SCs \cup {NULL},
              wait : Waits \cup {NULL}]

CfgRec == [role : {"none", "server", "register", "handler"},
           reg : Threads \cup {NULL},
           regLock : Threads \cup {NULL, Recycler},
           pending : Conns \cup {NULL},
           cbClient : Threads \cup {NULL},
           ipcLock : Threads \cup {NULL, Recycler},
           active : Conns \cup {NULL},
           exitEntry : BOOLEAN]

ConnRec == [alloc : BOOLEAN, valid : BOOLEAN,
            client : Threads \cup {NULL}, handler : Threads \cup {NULL},
            badge : Procs \cup {NULL}, server : Procs \cup {NULL},
            own : Threads \cup {NULL, Recycler},
            capC : 0..MaxSlots, capS : 0..MaxSlots,
            shm : Pmos \cup {NULL}, shmC : 0..MaxSlots, shmS : 0..MaxSlots]

NoCfg == [role |-> "none", reg |-> NULL, regLock |-> NULL, pending |-> NULL,
          cbClient |-> NULL, ipcLock |-> NULL, active |-> NULL,
          exitEntry |-> FALSE]

NoConn == [alloc |-> FALSE, valid |-> FALSE, client |-> NULL, handler |-> NULL,
           badge |-> NULL, server |-> NULL, own |-> NULL, capC |-> 0,
           capS |-> 0, shm |-> NULL, shmC |-> 0, shmS |-> 0]

Running(t) == thr[t].state = "running"
Dead(t) == thr[t].exit = "exited"
Halted == bug # {}

\* Fault model: the result of try_lock is not checked.
TryLockIgnored(l) == TRUE

\* try_lock succeeds on a lock nobody holds (the lock is named by holder).
TryLock(l) == l = NULL

\* Fault model: TS_EXIT is set but thread_exit_state is left as it was.
RetireThreadNoExitState(th, t) == [th EXCEPT ![t].state = "exit"]

\* A thread is retired: TS_EXIT and TE_EXITED, no longer blocked.
RetireThread(th, t) ==
    [th EXCEPT ![t].state = "exit", ![t].exit = "exited", ![t].wait = NULL]

\* A thread object is freed with its last capability (threads are counted
\* by their slots only): the recycler's free-all-copies frees it.
Freed(t) == \A p \in DOMAIN slots : \A i \in SlotIds : slots[p][i] # t

\* Fault model: the thread is left in a state outside the thread states.
SchedToReady(th, t) == [th EXCEPT ![t].state = "ready", ![t].wait = NULL]

\* sched_to_thread(t): t gets the CPU; switching to a freed thread is a use
\* after free.
SchedTo(th, t) ==
    [th EXCEPT ![t].state = "running", ![t].wait = NULL]
SchedToBug(t) == IF Freed(t) THEN {"resume_freed_thread"} ELSE {}

-----------------------------------------------------------------------------
(* sys_register_server: a server thread declares its service with a       *)
(* register_cb_thread; the register_cb config is (re)initialised with a   *)
(* free register_lock, then the server config is published.               *)
RegisterServer(t) ==
    /\ ~Halted
    /\ t \in ServerThreads /\ Running(t)
    /\ cfg[t].role = "none"
    /\ \E i \in SlotIds :
        LET r == slots[ProcOf[t]][i] IN
        /\ r \in Threads /\ TypeOf[r] = "register"
        /\ cfg' = [cfg EXCEPT ![t] = [NoCfg EXCEPT !.role = "server", !.reg = r],
                              ![r] = [NoCfg EXCEPT !.role = "register"]]
    /\ UNCHANGED <<thr, conn, slots, rc, bug>> /\ UNCHANGED recVars

(* create_connection(client t of p, server cap_group q, shm m in slot j),  *)
(* with c the connection obj_alloc returns: cap_copy the shm to q (its    *)
(* result is not checked), fill in c INVALID, cap_alloc it to p, cap_copy *)
(* it to q.  When either of the last two fails the connection is freed    *)
(* and the call fails, but the shm copy stays in q's table.               *)
CreateConnection(p, q, t, m, j, c) ==
    LET shmOk == HasFree(slots[q])
        s1 == IF shmOk THEN CapAlloc(slots, q, m) ELSE slots
        s2 == CapAlloc(s1, p, c)
        s3 == CapAlloc(s2, q, c)
        rc1 == IF shmOk THEN RefInc(rc, m) ELSE rc
    IN IF HasFree(s1[p]) /\ HasFree(s2[q])
       THEN [ok |-> TRUE, slots |-> s3, rc |-> [rc1 EXCEPT ![c] = 2],
             conn |-> [alloc |-> TRUE, valid |-> FALSE, client |-> t,
                       handler |-> NULL, badge |-> p, server |-> q, own |-> NULL,
                       capC |-> FirstFree(s1[p]), capS |-> FirstFree(s2[q]),
                       shm |-> m, shmC |-> j, shmS |-> FirstFree(slots[q])]]
       ELSE [ok |-> FALSE, slots |-> s1, rc |-> rc1, conn |-> NoConn]

(* sys_register_client: take the register_cb_thread's register_lock,      *)
(* create the connection, record it in the register_cb config, block the  *)
(* client and donate its scheduling context to the register_cb_thread.   *)
(* A failed create_connection releases the lock and returns the error     *)
(* with what it left behind.  The other failing paths (no server config,  *)
(* lock busy, bad shm) change nothing.                                    *)
RegisterClient(t) ==
    LET p == ProcOf[t] IN
    /\ ~Halted
    /\ t \in Registrants /\ Running(t)
    /\ \E i, j \in SlotIds :
        LET s == slots[p][i]
            m == slots[p][j]
        IN
        /\ s \in Threads /\ m \in Pmos
        /\ cfg[s].role = "server"
        /\ LET r == cfg[s].reg
               c == CHOOSE x \in Conns : ~conn[x].alloc
               cc == CreateConnection(p, ProcOf[s], t, m, j, c)
           IN
           /\ TryLock(cfg[r].regLock)
           /\ \E x \in Conns : ~conn[x].alloc
           /\ slots' = cc.slots
           /\ rc' = cc.rc
           /\ \/ /\ cc.ok
                 /\ conn' = [conn EXCEPT ![c] = cc.conn]
                 /\ cfg' = [cfg EXCEPT ![r].regLock = t, ![r].pending = c]
                 /\ thr' = [thr EXCEPT
                        ![t].state = "waiting",
                        ![t].wait = [kind |-> "register", conn |-> c],
                        ![r].state = "running", ![r].sc = thr[t].sc]
                 /\ bug' = bug \cup SchedToBug(r)
              \/ /\ ~cc.ok
                 /\ UNCHANGED <<thr, cfg, conn, bug>>
    /\ UNCHANGED recVars

(* sys_ipc_register_cb_return, up to unlock(register_lock): resolve the   *)
(* pending connection in the server's table, set up the handler thread's  *)
(* config on its first use, fill in the server side, make the connection  *)
(* VALID, block the register_cb_thread and release the register_lock.     *)
CbReturnUnlock(r) ==
    LET c == cfg[r].pending
        cl == conn[c].client
    IN
    /\ ~Halted
    /\ Running(r) /\ cfg[r].role = "register" /\ cfg[r].cbClient = NULL
    /\ c # NULL
    /\ slots[ProcOf[r]][conn[c].capS] = c
    /\ \E h \in Threads, e \in ExitRoutines :
        /\ TypeOf[h] = "shadow"
        /\ \E i \in SlotIds : slots[ProcOf[r]][i] = h
        /\ SharedHandlers \/ cfg[h].role = "none"
        /\ cfg' = [cfg EXCEPT
               ![h] = IF @.role = "none"
                      THEN [NoCfg EXCEPT !.role = "handler", !.exitEntry = e]
                      ELSE @,
               ![r].regLock = NULL, ![r].cbClient = cl]
        /\ conn' = [conn EXCEPT ![c].handler = h, ![c].valid = TRUE,
                                ![c].client = NULL]
    /\ thr' = [thr EXCEPT ![r].state = "waiting"]
    /\ UNCHANGED <<slots, rc, bug>> /\ UNCHANGED recVars

\* Fault model: sched_to_thread(client_thread) is left out.
CbReturnSwitchNoSched(r) ==
    /\ ~Halted
    /\ cfg[r].cbClient # NULL
    /\ thr' = [thr EXCEPT ![r].sc = NULL]
    /\ cfg' = [cfg EXCEPT ![r].cbClient = NULL]
    /\ UNCHANGED <<conn, slots, rc, bug>> /\ UNCHANGED recVars

(* The rest of sys_ipc_register_cb_return: clear the register_cb_thread's *)
(* scheduling context and switch to the registering client.              *)
CbReturnSwitch(r) ==
    LET cl == cfg[r].cbClient IN
    /\ ~Halted
    /\ cl # NULL
    /\ thr' = [SchedTo(thr, cl) EXCEPT ![r].sc = NULL]
    /\ cfg' = [cfg EXCEPT ![r].cbClient = NULL]
    /\ bug' = bug \cup SchedToBug(cl)
    /\ UNCHANGED <<conn, slots, rc>> /\ UNCHANGED recVars

(* The cap_copy loop of ipc_send_cap: copy the caps named by slots       *)
(* caps[i..] of p's table to q, recording each new slot in dest; the      *)
(* first cap_copy that fails (empty source slot, full target table) stops *)
(* the loop with err set.                                                 *)
RECURSIVE CapCopyLoop(_, _, _, _, _)
CapCopyLoop(st, p, q, caps, i) ==
    IF i > Len(caps) THEN st
    ELSE LET o == st.slots[p][caps[i]] IN
         IF o = NULL \/ ~HasFree(st.slots[q])
         THEN [st EXCEPT !.err = TRUE]
         ELSE CapCopyLoop([st EXCEPT !.slots = CapAlloc(@, q, o),
                                     !.rc = RefInc(@, o),
                                     !.dest = Append(@, FirstFree(st.slots[q]))],
                          p, q, caps, i + 1)

\* Fault model: the rollback loop stops before cap_buf[0].
RECURSIVE FreeCopiesSkipFirst(_, _, _)
FreeCopiesSkipFirst(st, q, k) ==
    IF k <= 1 THEN st
    ELSE FreeCopiesSkipFirst([st EXCEPT !.slots[q][st.dest[k]] = NULL,
                                        !.rc = RefDec(@, st.slots[q][st.dest[k]])],
                             q, k - 1)

(* out_free_cap: cap_free the copies dest[k], dest[k-1], .., dest[1].     *)
RECURSIVE FreeCopies(_, _, _)
FreeCopies(st, q, k) ==
    IF k = 0 THEN st
    ELSE FreeCopies([st EXCEPT !.slots[q][st.dest[k]] = NULL,
                               !.rc = RefDec(@, st.slots[q][st.dest[k]])],
                    q, k - 1)

(* ipc_send_cap(q, msg, Len(caps)) by a thread of p: -EINVAL for         *)
(* cap_num >= MAX_CAP_TRANSFER; otherwise the copy loop, then the         *)
(* copy_to_user of the new slot ids; a failure of either frees the copies *)
(* made.  The earlier copy_from_user faults return before any change and  *)
(* are not distinguished from the -EINVAL return.                         *)
IpcSendCap(p, q, caps, fault) ==
    LET st0 == [slots |-> slots, rc |-> rc, dest |-> <<>>, err |-> FALSE]
        st1 == CapCopyLoop(st0, p, q, caps, 1)
    IN CASE Len(caps) >= MaxCapTransfer -> [st0 EXCEPT !.err = TRUE]
         [] st1.err \/ fault -> [FreeCopies(st1, q, Len(st1.dest)) EXCEPT !.err = TRUE]
         [] OTHER -> st1

(* thread_migrate_to_server: make c the handler's active connection and  *)
(* t its client, block t and pass its scheduling context, then            *)
(* sched_to_thread the handler.                                           *)
MigrateToServer(st, t, c) ==
    LET h == st.conn[c].handler IN
    [st EXCEPT !.cfg[h].active = c, !.conn[c].client = t,
               !.thr = [SchedTo(@, h) EXCEPT
                           ![t].state = "waiting",
                           ![t].wait = [kind |-> "call", conn |-> c],
                           ![h].sc = st.thr[t].sc],
               !.bug = @ \cup SchedToBug(h)]

(* sys_ipc_call: obj_get the connection, try_lock its ownership; a locked *)
(* connection makes an exiting non-shadow caller exit in sched(); a valid *)
(* one is served when grab_ipc_lock takes the handler's ipc_lock and,     *)
(* for cap_num != 0, ipc_send_cap copies the caller's caps to the         *)
(* handler's cap_group: the caller blocks, its scheduling context goes to *)
(* the handler, which becomes active on the connection.  The reference    *)
(* taken by obj_get is kept until sys_ipc_return.  A failed transfer goes *)
(* to out_release_lock: the locks and the reference are dropped and only  *)
(* what ipc_send_cap left behind remains.  Busy or invalid: nothing       *)
(* changes.                                                               *)
IpcCall(t) ==
    LET p == ProcOf[t] IN
    /\ ~Halted
    /\ t \in Callers /\ Running(t)
    /\ \E i \in SlotIds :
        LET c == slots[p][i]
            h == conn[c].handler
        IN
        /\ c \in Conns
        /\ \/ /\ TryLock(conn[c].own)
              /\ conn[c].valid
              /\ TryLock(cfg[h].ipcLock)
              /\ \E caps \in CallCaps, fault \in IpcCopyFaults :
                  LET st == IpcSendCap(p, ProcOf[h], caps, fault) IN
                  \/ /\ ~st.err
                     /\ slots' = st.slots
                     /\ rc' = RefInc(st.rc, c)
                     /\ LET mg == MigrateToServer(
                                   [thr |-> thr, bug |-> bug,
                                    cfg |-> [cfg EXCEPT ![h].ipcLock = t],
                                    conn |-> [conn EXCEPT ![c].own = t]], t, c)
                        IN /\ thr' = mg.thr /\ cfg' = mg.cfg
                           /\ conn' = mg.conn /\ bug' = mg.bug
                  \/ /\ st.err
                     /\ slots' = st.slots /\ rc' = st.rc
                     /\ UNCHANGED <<thr, cfg, conn, bug>>
           \/ /\ ~TryLock(conn[c].own)
              /\ thr[t].exit = "exiting"
              /\ TypeOf[t] # "shadow"
              /\ thr' = RetireThread(thr, t)
              /\ UNCHANGED <<cfg, conn, slots, rc, bug>>
    /\ UNCHANGED recVars

(* sys_ipc_return by the handler active on connection c.  Step-1: an      *)
(* exiting handler invalidates c, is marked exited and returns -ESRCH.    *)
(* Step-2: an exiting client invalidates c; a non-shadow client is marked *)
(* exited and the handler reschedules without returning to it.  Otherwise *)
(* the handler clears active_conn, waits, drops the scheduling context    *)
(* (before the unlocks), unlocks ipc_lock and ownership, puts the         *)
(* connection and switches back to the client.                            *)
IpcReturn(h) ==
    LET c == cfg[h].active
        cl == conn[c].client
        hExiting == thr[h].exit = "exiting"
        clExiting == thr[cl].exit = "exiting"
        killClient == clExiting /\ TypeOf[cl] # "shadow"
        th1 == [thr EXCEPT ![h].state = "waiting", ![h].sc = NULL,
                           ![h].exit = IF hExiting THEN "exited" ELSE @]
    IN
    /\ ~Halted
    /\ Running(h) /\ cfg[h].role = "handler" /\ c # NULL
    /\ conn' = [conn EXCEPT ![c].own = NULL,
                            ![c].valid = @ /\ ~hExiting /\ ~clExiting]
    /\ cfg' = [cfg EXCEPT ![h].active = NULL, ![h].ipcLock = NULL]
    /\ rc' = RefDec(rc, c)
    /\ thr' = IF killClient THEN RetireThread(th1, cl) ELSE SchedTo(th1, cl)
    /\ bug' = bug \cup (IF killClient THEN {} ELSE SchedToBug(cl))
    /\ UNCHANGED slots /\ UNCHANGED recVars

(* sys_ipc_exit_routine_return: a handler that ran the exit routine armed *)
(* by the recycler waits again, kfrees its scheduling context (the        *)
(* pointer is not cleared) and unlocks its ipc_lock.                      *)
ExitRoutineReturn(h) ==
    /\ ~Halted
    /\ thr[h].state = "inter" /\ cfg[h].role = "handler"
    /\ thr' = [thr EXCEPT ![h].state = "waiting", ![h].sc = FreedSC]
    /\ cfg' = [cfg EXCEPT ![h].ipcLock = NULL]
    /\ UNCHANGED <<conn, slots, rc, bug>> /\ UNCHANGED recVars

-----------------------------------------------------------------------------
InitThr ==
    [t \in Threads |->
        [state |-> IF t \in InitRunning THEN "running" ELSE "waiting",
         exit |-> "run",
         sc |-> IF TypeOf[t] = "user" THEN t ELSE NULL,
         wait |-> NULL]]

IpcInit ==
    /\ thr = InitThr
    /\ cfg = InitCfg
    /\ conn = InitConn
    /\ slots = InitSlots
    /\ rc = [o \in Conns \cup Pmos |-> SlotRefs(InitSlots, o)]
    /\ bug = {}

IpcTypeOK ==
    /\ thr \in [Threads -> ThreadRec]
    /\ cfg \in [Threads -> CfgRec]
    /\ conn \in [Conns -> ConnRec]
    /\ slots \in [Procs -> [SlotIds -> Objs \cup {NULL}]]
    /\ rc \in [Conns \cup Pmos -> Nat]
    /\ bug \subseteq BugSites

=============================================================================
