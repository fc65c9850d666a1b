-------------------------------- MODULE Pmo --------------------------------
(***************************************************************************)
(* Physical memory objects and their accounting (kernel/object/memory.c).  *)
(*                                                                         *)
(* Every PMO is charged to an owner cap_group: pmo_init adds its rounded   *)
(* size to the owner's heap_size_used under heap_size_lock, pmo_deinit     *)
(* (run when the last reference goes) takes it off, and                    *)
(* sys_transfer_pmo_owner moves the charge under both cap_groups' locks,   *)
(* taken in address order.  sys_handle_brk charges heap growth.            *)
(*                                                                         *)
(* System calls are atomic steps of a thread, except                      *)
(* sys_transfer_pmo_owner, whose lock acquisitions are separate steps so  *)
(* that other cores can run between them.  Physical storage, mappings and *)
(* addresses are abstracted away: a PMO is its type, rounded size, owner  *)
(* and side record (private).                                             *)
(***************************************************************************)
EXTENDS Naturals, FiniteSets, FiniteSetsExt, KObject, Kmalloc

CONSTANTS
    Procs,          \* cap_groups
    Threads,        \* threads making PMO system calls
    ProcOf,         \* thread -> its cap_group
    Pmos,           \* pool of PMO objects
    MaxSlots,       \* capability slots per cap_group
    PageSize,
    HeapLimit,      \* cap_group -> heap_size_limit
    Sizes,          \* sizes passed to the create calls
    CreateTypes,    \* types passed to sys_create_pmo
    BrkSteps,       \* heap growth requested by sys_handle_brk
    AllocFails,     \* possible outcomes of "get_pages(0) fails"
    Uuids,          \* TEE identities
    UuidOf,         \* cap_group -> its uuid
    Addr,           \* cap_group -> the address of its struct (lock order)
    CallsOf,        \* thread -> the PMO system calls its code makes
    CapGroupCaps,   \* cap_group -> the cap_groups it holds capabilities to
    OffsetBits,     \* width of unsigned long, scaled down with the sizes
    RwOffsets,      \* offsets passed to sys_read_pmo / sys_write_pmo
    RwLens,         \* lengths passed to them
    CopyFaults      \* possible outcomes of "copy_{from,to}_user faults"

Calls == {"create", "device", "ns", "destroy_ns", "cap_free", "tee_shared",
          "map", "brk", "transfer", "rw"}

ASSUME ProcOf \in [Threads -> Procs] /\ AllocFails \subseteq BOOLEAN
ASSUME CopyFaults \subseteq BOOLEAN /\ OffsetBits \in Nat
ASSUME CallsOf \in [Threads -> SUBSET Calls]
ASSUME CapGroupCaps \in [Procs -> SUBSET Procs]
ASSUME Addr \in [Procs -> Nat] /\ \A p, q \in Procs : p # q => Addr[p] # Addr[q]

SlotIds == 1..MaxSlots

\* Unsigned long arithmetic wraps at Word.
Word == 2^OffsetBits
PageIdx == 0..(Word \div PageSize - 1)
PmoTypes == {"anonym", "data", "data_nocache", "file", "shm", "device",
             "tz_ns", "forbid"}

\* The side record of a PMO: none, a TEE shm record (owner, uuid) or a
\* non-secure record (creater); "freed" once kfree'd.
PrivRec == [kind : {"none", "tee", "ns"}, st : {"live", "freed"},
            owner : Procs \cup {NULL}, uuid : Uuids \cup {NULL},
            creater : Procs \cup {NULL}]
NoPriv == [kind |-> "none", st |-> "live", owner |-> NULL, uuid |-> NULL,
           creater |-> NULL]

PmoRec == [live : BOOLEAN, type : PmoTypes \cup {NULL}, size : Nat,
           owner : Procs \cup {NULL}, priv : PrivRec]
NoPmo == [live |-> FALSE, type |-> NULL, size |-> 0, owner |-> NULL,
          priv |-> NoPriv]

VARIABLES
    pmo,       \* struct pmobject
    used,      \* heap_size_used of each cap_group
    heapLock,  \* heap_size_lock of each cap_group (holder or NULL)
    ownerLock, \* owner_lock of each PMO (holder or NULL)
    slots,     \* capability tables (PMO capabilities)
    rc,        \* PMO reference counts
    heapPmo,   \* vmspace->heap_vmr's PMO of each cap_group
    xfer,      \* a thread's progress in sys_transfer_pmo_owner
    radix,     \* page indices committed to each PMO's radix tree
    pages,     \* physical pages handed out by get_pages and not freed
    rw,        \* a thread's progress in read_write_pmo
    bug        \* memory errors and BUG_ONs that happened

pmoVars == <<pmo, used, heapLock, ownerLock, slots, rc, heapPmo, xfer, radix,
             pages, rw, bug>>

XferRec == [pc : {"idle", "owner", "lock1", "lock2", "move"},
            pmo : Pmos \cup {NULL}, to : Procs \cup {NULL}]
XferIdle == [pc |-> "idle", pmo |-> NULL, to |-> NULL]

RwRec == [pc : {"idle", "page", "alloc"}, pmo : Pmos \cup {NULL},
          off : 0..(Word - 1), len : Nat]
RwIdle == [pc |-> "idle", pmo |-> NULL, off |-> 0, len |-> 0]

RoundUp(n) == ((n + PageSize - 1) \div PageSize) * PageSize

\* The kernel state a system call works on, with its return code.
St0 == [pmo |-> pmo, used |-> used, heapLock |-> heapLock, slots |-> slots,
        rc |-> rc, radix |-> radix, pages |-> pages, bug |-> bug,
        ret |-> "ok", new |-> NULL]

Commit(st) ==
    /\ pmo' = st.pmo /\ used' = st.used /\ heapLock' = st.heapLock
    /\ slots' = st.slots /\ rc' = st.rc /\ radix' = st.radix
    /\ pages' = st.pages /\ bug' = st.bug

kfree(st, x) ==
    IF st.pmo[x].priv.st = "freed"
    THEN [st EXCEPT !.bug = @ \cup {"double_free"}]
    ELSE [st EXCEPT !.pmo[x].priv.st = "freed"]

-----------------------------------------------------------------------------
(* pmo_init of PMO x for cap_group q, by thread t.  The limit is checked  *)
(* against the requested length, which is rounded up only afterwards.    *)
(* PMO_FILE is refused (fmap is not configured).  A non-secure PMO's     *)
(* record names the calling cap_group as its creater.  kmalloc and       *)
(* kzalloc do not return NULL (Kmalloc), so their failure paths here are *)
(* never taken.                                                          *)
PmoInit(st, t, x, type, len, q) ==
    LET size == RoundUp(len)
        ok == [st EXCEPT !.pmo[x] = [live |-> TRUE, type |-> type, size |-> size,
                                     owner |-> q,
                                     priv |-> IF type = "tz_ns"
                                              THEN [NoPriv EXCEPT !.kind = "ns",
                                                       !.creater = ProcOf[t]]
                                              ELSE NoPriv],
                         !.used[q] = @ + size]
    IN
    CASE st.used[q] + len > HeapLimit[q] -> [st EXCEPT !.ret = "ENOMEM"]
      [] type = "file" -> [st EXCEPT !.ret = "EINVAL"]
      [] OTHER -> ok

(* pmo_deinit, run by the object's finaliser: take the size off the      *)
(* owner's charge under its heap_size_lock, free the side record, and    *)
(* for the radix-backed types free every committed page through the      *)
(* radix tree's value_deleter.  The struct is then freed; only whether   *)
(* its record was kfree'd stays.                                         *)
LazyTypes == {"shm", "file", "anonym"}

FreeRadix(st, x) ==
    IF st.pmo[x].type \in LazyTypes
    THEN [st EXCEPT !.pages = @ - Cardinality(st.radix[x]), !.radix[x] = {}]
    ELSE st

PmoDeinit(st, x) ==
    LET q == st.pmo[x].owner
        st1 == FreeRadix(IF st.pmo[x].priv.kind # "none" THEN kfree(st, x) ELSE st, x)
    IN [st1 EXCEPT !.used[q] = @ - st.pmo[x].size,
                   !.pmo[x] = [NoPmo EXCEPT !.priv.st = st1.pmo[x].priv.st]]

\* The finaliser needs the owner's heap_size_lock (lock() spins on it).
DeinitBlocked(st, x) == st.heapLock[st.pmo[x].owner] # NULL

(* create_pmo: obj_alloc, pmo_init, then cap_alloc in q (on a full table *)
(* the PMO is deinitialised and freed).  ret is the new slot or an error. *)
CreatePmo(st, t, type, len, q) ==
    IF \A x \in Pmos : st.pmo[x].live THEN [st EXCEPT !.ret = "ENOMEM"]
    ELSE
    LET x == CHOOSE y \in Pmos : ~st.pmo[y].live
        st1 == PmoInit(st, t, x, type, len, q)
    IN
    CASE st1.ret # "ok" -> st1
      [] ~HasFree(st1.slots[q]) ->
           [PmoDeinit(st1, x) EXCEPT !.ret = "ENOMEM"]
      [] OTHER -> [st1 EXCEPT !.slots = CapAlloc(@, q, x), !.rc[x] = 1,
                              !.ret = FirstFree(st1.slots[q]), !.new = x]

(* obj_put: the last reference runs pmo_deinit.                          *)
PutRef(st, x) ==
    IF st.rc[x] = 1 THEN PmoDeinit([st EXCEPT !.rc[x] = 0], x)
    ELSE [st EXCEPT !.rc[x] = @ - 1]

(* cap_free of slot i of q's table (cap_group.c, not in this tree).      *)
CapFreeSlot(st, q, i) == PutRef([st EXCEPT !.slots[q][i] = NULL], st.slots[q][i])

\* A step of thread t that is not inside sys_transfer_pmo_owner or
\* read_write_pmo.
Idle(t) == xfer[t].pc = "idle" /\ rw[t].pc = "idle"

-----------------------------------------------------------------------------
(* sys_create_pmo: size 0, PMO_DEVICE and PMO_TZ_NS are refused.         *)
SysCreatePmo(t) ==
    LET p == ProcOf[t] IN
    /\ "create" \in CallsOf[t] /\ Idle(t) /\ heapLock[p] = NULL
    /\ \E len \in Sizes, type \in CreateTypes \ {"device", "tz_ns"} :
        Commit(CreatePmo(St0, t, type, len, p))
    /\ UNCHANGED <<ownerLock, heapPmo, xfer, rw>>

(* sys_create_device_pmo and sys_tee_create_ns_pmo: a PMO at a physical   *)
(* address, in the caller's cap_group (the device hook is not in tree).  *)
SysCreateDevicePmo(t) ==
    LET p == ProcOf[t] IN
    /\ "device" \in CallsOf[t] /\ Idle(t) /\ heapLock[p] = NULL
    /\ \E len \in Sizes, type \in {"device", "tz_ns"} :
        Commit(CreatePmo(St0, t, type, len, p))
    /\ UNCHANGED <<ownerLock, heapPmo, xfer, rw>>

(* sys_create_ns_pmo: a non-secure PMO created in cap_group q, recording *)
(* the caller as its creater.                                            *)
SysCreateNsPmo(t) ==
    /\ "ns" \in CallsOf[t] /\ Idle(t)
    /\ \E q \in CapGroupCaps[ProcOf[t]], len \in Sizes :
        /\ heapLock[q] = NULL
        /\ Commit(CreatePmo(St0, t, "tz_ns", len, q))
    /\ UNCHANGED <<ownerLock, heapPmo, xfer, rw>>

(* sys_destroy_ns_pmo: only the creater of a PMO_TZ_NS may free q's slot. *)
SysDestroyNsPmo(t) ==
    LET p == ProcOf[t] IN
    /\ "destroy_ns" \in CallsOf[t] /\ Idle(t)
    /\ \E q \in CapGroupCaps[p], i \in SlotIds :
        LET x == slots[q][i] IN
        /\ x # NULL
        /\ pmo[x].type = "tz_ns" /\ pmo[x].priv.creater = p
        /\ rc[x] = 1 => ~DeinitBlocked(St0, x)
        /\ Commit(CapFreeSlot(St0, q, i))
    /\ UNCHANGED <<ownerLock, heapPmo, xfer, rw>>

(* cap_free of a PMO capability by its holder.                           *)
SysCapFree(t) ==
    LET p == ProcOf[t] IN
    /\ "cap_free" \in CallsOf[t] /\ Idle(t)
    /\ \E i \in SlotIds :
        LET x == slots[p][i] IN
        /\ x # NULL
        /\ rc[x] = 1 => ~DeinitBlocked(St0, x)
        /\ Commit(CapFreeSlot(St0, p, i))
    /\ UNCHANGED <<ownerLock, heapPmo, xfer, rw>>

(* sys_create_tee_shared_pmo: kmalloc the TEE record, create a PMO_SHM   *)
(* in cap_group q, attach the record (owner q, the caller's uuid         *)
(* argument), then cap_copy it back to the caller.  When the copy fails, *)
(* cap_free runs pmo_deinit, which kfrees the record, and the error path *)
(* at out_free_uuid kfrees it again.                                     *)
SysCreateTeeSharedPmo(t) ==
    LET p == ProcOf[t] IN
    /\ "tee_shared" \in CallsOf[t] /\ Idle(t)
    /\ \E q \in CapGroupCaps[p], u \in Uuids, len \in Sizes :
        LET st1 == CreatePmo(St0, t, "shm", len, q)
            x == st1.new
            st2 == [st1 EXCEPT !.pmo[x].priv = [kind |-> "tee", st |-> "live",
                                  owner |-> q, uuid |-> u, creater |-> NULL]]
        IN
        /\ heapLock[q] = NULL
        /\ CASE st1.new = NULL -> Commit(st1)
             [] HasFree(st2.slots[p]) ->
                  Commit([st2 EXCEPT !.slots = CapAlloc(@, p, x), !.rc[x] = 2])
             [] OTHER -> Commit(kfree(CapFreeSlot(st2, q, st1.ret), x))
    /\ UNCHANGED <<ownerLock, heapPmo, xfer, rw>>

(* sys_map_pmo: a TEE shm PMO is mapped only into its owner or by a      *)
(* caller with its uuid; mapping into another cap_group copies the       *)
(* capability there.  vmspace_map_range may fail (EPERM).                *)
SysMapPmo(t) ==
    LET p == ProcOf[t] IN
    /\ "map" \in CallsOf[t] /\ Idle(t)
    /\ \E i \in SlotIds, q \in CapGroupCaps[p] :
        LET x == slots[p][i] IN
        /\ x # NULL
        /\ pmo[x].priv.kind = "tee" =>
              (pmo[x].priv.owner = q \/ pmo[x].priv.uuid = UuidOf[p])
        /\ q # p /\ HasFree(slots[q])
        /\ slots' = CapAlloc(slots, q, x)
        /\ rc' = [rc EXCEPT ![x] = @ + 1]
    /\ UNCHANGED <<pmo, used, heapLock, ownerLock, heapPmo, xfer, radix, pages, rw, bug>>

(* sys_handle_brk.  addr = 0 creates the heap PMO (size 0, BUG_ON        *)
(* failure) and its heap vmr; a larger address charges the growth to the *)
(* caller's cap_group under heap_size_lock and adjust_heap_vmr grows the *)
(* heap vmr and its PMO (mm code, not in this tree); shrinking is        *)
(* ignored.                                                              *)
SysHandleBrk(t) ==
    LET p == ProcOf[t]
        h == heapPmo[p]
    IN
    /\ "brk" \in CallsOf[t] /\ Idle(t) /\ heapLock[p] = NULL
    /\ \/ LET st == CreatePmo(St0, t, "anonym", 0, p) IN
          IF st.new # NULL
          THEN /\ Commit(st) /\ heapPmo' = [heapPmo EXCEPT ![p] = st.new]
          ELSE /\ bug' = bug \cup {"brk_heap_pmo"}
               /\ UNCHANGED <<pmo, used, heapLock, slots, rc, heapPmo, radix, pages>>
       \/ /\ h # NULL
          /\ \E len \in BrkSteps :
               /\ used[p] + len <= HeapLimit[p]
               /\ used' = [used EXCEPT ![p] = @ + len]
               /\ pmo' = [pmo EXCEPT ![h].size = @ + len]
          /\ UNCHANGED <<heapLock, slots, rc, heapPmo, radix, pages, bug>>
    /\ UNCHANGED <<ownerLock, xfer, rw>>

-----------------------------------------------------------------------------
(* sys_transfer_pmo_owner(x, q).  obj_get the PMO; q = caller returns 0. *)
TransferBegin(t) ==
    LET p == ProcOf[t] IN
    /\ "transfer" \in CallsOf[t] /\ Idle(t)
    /\ \E i \in SlotIds, q \in CapGroupCaps[p] \ {p} :
        LET x == slots[p][i] IN
        /\ x # NULL
        /\ rc' = [rc EXCEPT ![x] = @ + 1]
        /\ xfer' = [xfer EXCEPT ![t] = [pc |-> "owner", pmo |-> x, to |-> q]]
    /\ UNCHANGED <<pmo, used, heapLock, ownerLock, slots, heapPmo, radix, pages, rw, bug>>

\* The two heap_size_locks in the order the code takes them.
\* Fault model: the caller's lock is always taken first.
LockOrderCallerFirst(p, q) == <<p, q>>

LockOrder(p, q) == IF Addr[q] < Addr[p] THEN <<q, p>> ELSE <<p, q>>

(* lock(owner_lock); a PMO the caller does not own is refused (EINVAL): *)
(* unlock, obj_put.                                                      *)
\* Fault model: the EINVAL path unlocks but forgets obj_put.
TransferLockOwnerNoPut(t) ==
    LET x == xfer[t].pmo IN
    /\ xfer[t].pc = "owner" /\ ownerLock[x] = NULL
    /\ IF pmo[x].owner = ProcOf[t]
       THEN /\ ownerLock' = [ownerLock EXCEPT ![x] = t]
            /\ xfer' = [xfer EXCEPT ![t].pc = "lock1"]
       ELSE /\ xfer' = [xfer EXCEPT ![t] = XferIdle]
            /\ UNCHANGED ownerLock
    /\ UNCHANGED <<pmo, used, heapLock, slots, rc, bug, heapPmo, radix, pages, rw>>

TransferLockOwner(t) ==
    LET x == xfer[t].pmo IN
    /\ xfer[t].pc = "owner" /\ ownerLock[x] = NULL
    /\ IF pmo[x].owner = ProcOf[t]
       THEN /\ ownerLock' = [ownerLock EXCEPT ![x] = t]
            /\ xfer' = [xfer EXCEPT ![t].pc = "lock1"]
            /\ UNCHANGED <<pmo, used, heapLock, slots, rc, radix, pages, bug>>
       ELSE /\ rc[x] = 1 => ~DeinitBlocked(St0, x)
            /\ Commit(PutRef(St0, x))
            /\ xfer' = [xfer EXCEPT ![t] = XferIdle]
            /\ UNCHANGED ownerLock
    /\ UNCHANGED <<heapPmo, rw>>

TransferLockHeap(t, k, next) ==
    LET g == LockOrder(ProcOf[t], xfer[t].to)[k] IN
    /\ heapLock[g] = NULL
    /\ heapLock' = [heapLock EXCEPT ![g] = t]
    /\ xfer' = [xfer EXCEPT ![t].pc = next]
    /\ UNCHANGED <<pmo, used, ownerLock, slots, rc, heapPmo, radix, pages, rw, bug>>

TransferLock1(t) == xfer[t].pc = "lock1" /\ TransferLockHeap(t, 1, "lock2")
TransferLock2(t) == xfer[t].pc = "lock2" /\ TransferLockHeap(t, 2, "move")

(* Move the charge if q stays within its limit (else ENOMEM), unlock     *)
(* both heap locks and owner_lock, obj_put the PMO.                      *)
\* Fault model: the charge is moved from the target to the caller.
TransferMoveSwapped(t) ==
    LET p == ProcOf[t]
        q == xfer[t].to
        x == xfer[t].pmo
        st == IF used[q] + pmo[x].size <= HeapLimit[q]
              THEN [St0 EXCEPT !.used[p] = @ + pmo[x].size,
                               !.used[q] = @ - pmo[x].size,
                               !.pmo[x].owner = q]
              ELSE St0
    IN
    /\ xfer[t].pc = "move"
    /\ Commit(PutRef([st EXCEPT !.heapLock[p] = NULL, !.heapLock[q] = NULL], x))
    /\ ownerLock' = [ownerLock EXCEPT ![x] = NULL]
    /\ xfer' = [xfer EXCEPT ![t] = XferIdle]
    /\ UNCHANGED <<heapPmo, rw>>

\* Fault model: the charge is moved without checking the target's limit.
TransferMoveNoLimit(t) ==
    LET p == ProcOf[t]
        q == xfer[t].to
        x == xfer[t].pmo
        st == [St0 EXCEPT !.used[p] = @ - pmo[x].size,
                          !.used[q] = @ + pmo[x].size,
                          !.pmo[x].owner = q]
    IN
    /\ xfer[t].pc = "move"
    /\ Commit(PutRef([st EXCEPT !.heapLock[p] = NULL, !.heapLock[q] = NULL], x))
    /\ ownerLock' = [ownerLock EXCEPT ![x] = NULL]
    /\ xfer' = [xfer EXCEPT ![t] = XferIdle]
    /\ UNCHANGED <<heapPmo, rw>>

TransferMove(t) ==
    LET p == ProcOf[t]
        q == xfer[t].to
        x == xfer[t].pmo
        st == IF used[q] + pmo[x].size <= HeapLimit[q]
              THEN [St0 EXCEPT !.used[p] = @ - pmo[x].size,
                               !.used[q] = @ + pmo[x].size,
                               !.pmo[x].owner = q]
              ELSE St0
    IN
    /\ xfer[t].pc = "move"
    /\ Commit(PutRef([st EXCEPT !.heapLock[p] = NULL, !.heapLock[q] = NULL], x))
    /\ ownerLock' = [ownerLock EXCEPT ![x] = NULL]
    /\ xfer' = [xfer EXCEPT ![t] = XferIdle]
    /\ UNCHANGED <<heapPmo, rw>>

-----------------------------------------------------------------------------
(* sys_read_pmo and sys_write_pmo (read_write_pmo).  obj_get the PMO;    *)
(* refuse an offset + size that wraps or passes the PMO's size, and the  *)
(* types other than DATA, DATA_NOCACHE and ANONYM (EINVAL, obj_put; the  *)
(* capability still holds a reference).  A DATA PMO is copied at once;   *)
(* an ANONYM PMO is walked page by page.  The bytes themselves and the   *)
(* direction of the copy are abstracted away.                            *)
\* Fault model: the range check forgets that offset + size may wrap.
RwRefusedNoWrapCheck(x, off, len) ==
    \/ (off + len) % Word > pmo[x].size
    \/ pmo[x].type \notin {"data", "data_nocache", "anonym"}

RwRefused(x, off, len) ==
    LET end == (off + len) % Word IN
    \/ end < off \/ end > pmo[x].size
    \/ pmo[x].type \notin {"data", "data_nocache", "anonym"}

RwStart(t, x, off, len) ==
    IF RwRefused(x, off, len) \/ pmo[x].type # "anonym" \/ len = 0
    THEN UNCHANGED <<rc, rw>>
    ELSE /\ rc' = [rc EXCEPT ![x] = @ + 1]
         /\ rw' = [rw EXCEPT ![t] = [pc |-> "page", pmo |-> x, off |-> off,
                                     len |-> len]]

SysRwPmo(t) ==
    LET p == ProcOf[t] IN
    /\ "rw" \in CallsOf[t] /\ Idle(t)
    /\ \E i \in SlotIds, off \in RwOffsets, len \in RwLens :
        /\ slots[p][i] # NULL
        /\ RwStart(t, slots[p][i], off, len)
    /\ UNCHANGED <<pmo, used, heapLock, ownerLock, slots, heapPmo, xfer, radix,
                   pages, bug>>

(* One page of the ANONYM walk: copy into the page at offset's index,    *)
(* then advance offset (wrapping like unsigned long) and size.  A        *)
(* copy_{from,to}_user fault, or the end of the walk, returns: obj_put.  *)
RwCopy(st, t, fault) ==
    LET x == rw[t].pmo
        inPage == rw[t].off % PageSize
        n == IF PageSize - inPage < rw[t].len THEN PageSize - inPage ELSE rw[t].len
    IN
    IF fault \/ st.ret # "ok" \/ n = rw[t].len
    THEN /\ st.rc[x] = 1 => ~DeinitBlocked(st, x)
         /\ Commit(PutRef(st, x))
         /\ rw' = [rw EXCEPT ![t] = RwIdle]
    ELSE /\ Commit(st)
         /\ rw' = [rw EXCEPT ![t] = [@ EXCEPT !.pc = "page",
                                              !.off = (@ + n) % Word,
                                              !.len = @ - n]]

(* get_page_from_pmo: a page already in the radix tree is copied into;   *)
(* a missing one is allocated next.                                      *)
RwPage(t) ==
    /\ rw[t].pc = "page"
    /\ IF rw[t].off \div PageSize \in radix[rw[t].pmo]
       THEN \E fault \in CopyFaults : RwCopy(St0, t, fault)
       ELSE /\ rw' = [rw EXCEPT ![t].pc = "alloc"]
            /\ UNCHANGED <<pmo, used, heapLock, slots, rc, radix, pages, bug>>
    /\ UNCHANGED <<ownerLock, heapPmo, xfer>>

(* get_pages(0) may fail (ENOMEM); else the zeroed page is committed to  *)
(* the radix tree (commit_page_to_pmo), then copied into.  radix_add of  *)
(* an index already present replaces its page.                           *)
RwAlloc(t) ==
    LET x == rw[t].pmo
        idx == rw[t].off \div PageSize
    IN
    /\ rw[t].pc = "alloc"
    /\ \E fail \in AllocFails, fault \in CopyFaults :
        RwCopy(IF fail THEN [St0 EXCEPT !.ret = "ENOMEM"]
               ELSE [St0 EXCEPT !.pages = @ + 1, !.radix[x] = @ \cup {idx}],
               t, fault /\ ~fail)
    /\ UNCHANGED <<ownerLock, heapPmo, xfer>>

-----------------------------------------------------------------------------
PmoInit0 ==
    /\ pmo = [x \in Pmos |-> NoPmo]
    /\ used = [p \in Procs |-> 0]
    /\ heapLock = [p \in Procs |-> NULL]
    /\ ownerLock = [x \in Pmos |-> NULL]
    /\ slots = [p \in Procs |-> [i \in SlotIds |-> NULL]]
    /\ rc = [x \in Pmos |-> 0]
    /\ heapPmo = [p \in Procs |-> NULL]
    /\ xfer = [t \in Threads |-> XferIdle]
    /\ radix = [x \in Pmos |-> {}]
    /\ pages = 0
    /\ rw = [t \in Threads |-> RwIdle]
    /\ bug = {}

PmoNext ==
    \E t \in Threads :
        \/ SysCreatePmo(t)
        \/ SysCreateDevicePmo(t)
        \/ SysCreateNsPmo(t)
        \/ SysDestroyNsPmo(t)
        \/ SysCapFree(t)
        \/ SysCreateTeeSharedPmo(t)
        \/ SysMapPmo(t)
        \/ SysHandleBrk(t)
        \/ TransferBegin(t)
        \/ TransferLockOwner(t)
        \/ TransferLock1(t)
        \/ TransferLock2(t)
        \/ TransferMove(t)
        \/ SysRwPmo(t)
        \/ RwPage(t)
        \/ RwAlloc(t)

(* A thread inside sys_transfer_pmo_owner keeps running kernel code; it  *)
(* spins on a lock until it gets it, and the kernel's ticket locks serve *)
(* waiters in order, so a lock released infinitely often is eventually  *)
(* taken (strong fairness on the thread's steps in the call; only one of *)
(* them is enabled at a time).  Starting a system call is the program's *)
(* choice and is not fair.                                               *)
TransferStep(t) ==
    \/ TransferLockOwner(t)
    \/ TransferLock1(t)
    \/ TransferLock2(t)
    \/ TransferMove(t)

PmoFairness == \A t \in Threads : SF_pmoVars(TransferStep(t))

PmoSpec == PmoInit0 /\ [][PmoNext]_pmoVars /\ PmoFairness

-----------------------------------------------------------------------------
PmoTypeOK ==
    /\ pmo \in [Pmos -> PmoRec]
    /\ used \in [Procs -> Nat]
    /\ heapLock \in [Procs -> Threads \cup {NULL}]
    /\ ownerLock \in [Pmos -> Threads \cup {NULL}]
    /\ slots \in [Procs -> [SlotIds -> Pmos \cup {NULL}]]
    /\ rc \in [Pmos -> Nat]
    /\ heapPmo \in [Procs -> Pmos \cup {NULL}]
    /\ xfer \in [Threads -> XferRec]
    /\ radix \in [Pmos -> SUBSET PageIdx]
    /\ pages \in Nat
    /\ rw \in [Threads -> RwRec]

\* The bytes charged to a cap_group: the sizes of the live PMOs it owns.
Charged(p) == MapThenSumSet(LAMBDA x : pmo[x].size,
                            {x \in Pmos : pmo[x].live /\ pmo[x].owner = p})

(* heap_size_used of every cap_group is exactly the size of the live     *)
(* PMOs it owns, through creation failures, frees run by whichever       *)
(* thread drops the last reference, heap growth and owner transfers.     *)
ChargeMatchesOwnership == \A p \in Procs : used[p] = Charged(p)

(* A PMO lives exactly while it is referenced, and its count is its      *)
(* capability slots plus the obj_get of each transfer in progress: a     *)
(* cap_free racing a transfer never frees the PMO under it.             *)
PmoRefcountSound ==
    \A x \in Pmos :
        /\ rc[x] = SlotRefs(slots, x)
                   + Cardinality({t \in Threads : xfer[t].pc # "idle" /\ xfer[t].pmo = x})
                   + Cardinality({t \in Threads : rw[t].pc # "idle" /\ rw[t].pmo = x})
        /\ pmo[x].live <=> rc[x] > 0

(* Every physical page get_pages handed to read_write_pmo is in exactly  *)
(* one PMO's radix tree until pmo_deinit frees it: no page is lost by a  *)
(* failed walk, a free run by whichever thread drops the last reference, *)
(* or a commit to an index that is already present.                      *)
NoPageLeak == pages = MapThenSumSet(LAMBDA x : Cardinality(radix[x]), Pmos)

(* Pages are committed only at indices inside the PMO: an offset near    *)
(* the top of the address range, whose end wraps around, is refused and *)
(* never reaches the page walk.                                          *)
PagesWithinPmo ==
    \A x \in Pmos : \A i \in radix[x] : i * PageSize < pmo[x].size

(* No cap_group is charged beyond its heap_size_limit.                   *)
HeapWithinLimit == \A p \in Procs : used[p] <= HeapLimit[p]

(* No side record of a PMO is kfree'd twice.                             *)
NoDoubleFree == "double_free" \notin bug

\* The accounting state seen through the abstract specification.
Acct == INSTANCE PmoAccount WITH
            owner <- [x \in Pmos |-> IF pmo[x].live THEN pmo[x].owner ELSE NULL],
            size <- [x \in Pmos |-> IF pmo[x].live THEN pmo[x].size ELSE 0]

(* The PMO system calls implement the atomic accounting of PmoAccount:    *)
(* however the transfer's lock steps interleave with frees, brk and other *)
(* transfers, ownership and charge change only as one whole creation,     *)
(* free, transfer within the target's limit, or heap growth charged to    *)
(* the heap PMO's owner within its limit.                                 *)
AccountingRefined == Acct!AcctSpec

(* Every sys_transfer_pmo_owner returns: two transfers in opposite       *)
(* directions take the heap locks in the same order and never wait on   *)
(* each other.                                                           *)
TransfersComplete ==
    \A t \in Threads : xfer[t].pc # "idle" ~> xfer[t].pc = "idle"

=============================================================================
