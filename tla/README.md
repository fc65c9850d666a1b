# TLA+ models of the TEE kernel's IPC, process recycling and memory objects

This directory holds TLA+ models of four kernel components of this
repository, and the TLC configurations that check them:

- the IPC connection engine, `src/kernel/ipc/connection.c`;
- process exit and resource recycling, `src/kernel/object/recycle.c`;
- physical memory objects (PMOs), their heap accounting and their pages,
  `src/kernel/object/memory.c`;
- the front end of the kernel allocator, `src/kernel/mm/kmalloc.c`.

The first two are modelled together because they interact. The recycler has to stop
IPC that is in flight, and IPC system calls have to notice that a process is
exiting.

## The system

A process (a `cap_group`) owns threads and a capability table. A server
thread calls `sys_register_server` and names its *register_cb_thread*.

Registration:
- A client calls `sys_register_client`.
- This takes the register_cb_thread's `register_lock`.
- It creates an INVALID `ipc_connection`, with capabilities in both tables.
- It blocks the client and donates the client's scheduling context (sc) to
  the register_cb_thread.
- The server's code then calls `sys_ipc_register_cb_return`. This names a
  *handler* (shadow) thread, makes the connection VALID, unlocks, clears its
  own sc and switches back to the client.

Calls:
- `sys_ipc_call` try-locks the connection's `ownership`, then the handler's
  `ipc_lock`.
- It migrates the client's sc into the handler.
- `sys_ipc_return` undoes this and switches back.
  - Step-1: the handler is exiting.
  - Step-2: the client is exiting.
  - In both cases the connection is invalidated, and an exiting client is
    retired instead of resumed.

Exit and recycling:
- `sys_exit_group` marks the threads of a process TE_EXITING and notifies
  the user-level recycler.
- The recycler calls `sys_cap_group_recycle` until it stops returning
  -EAGAIN.
- **Phase-1** stops every connection (taking its ownership for good) and
  every registration (taking the register_lock for good). It then forces
  handler threads and waiting threads to TE_EXITED.
- The call then waits for the kernel stacks of the process's threads.
- **Phase-2** frees every slot:
  - the connections (`__recycle_connection`, which arms a handler's *exit
    routine* or sets it TS_EXIT);
  - the shared-memory capabilities;
  - every copy of the process's threads.
- `sys_ipc_close_connection` runs the same stop and recycle steps for a
  single connection.

## Modules

| module | models | state | actions |
|---|---|---|---|
| `KObject` | capability tables and reference counts (`cap_alloc`, `cap_copy`, `cap_free`, `obj_get`/`obj_put`). This code is not in the tree, so it is modelled from `spec.md`. | pure operators | none |
| `IPC` | `connection.c` | `thr` (thread_ctx: state, exit state, sc, plus a ghost `wait`), `cfg` (general_ipc_config), `conn` (ipc_connection), `slots`, `rc`, `bug` (BUG_ONs that fired) | `RegisterServer`, `RegisterClient`, `CbReturnUnlock`, `CbReturnSwitch`, `IpcCall`, `IpcReturn`, `ExitRoutineReturn` |
| `Recycle` | `recycle.c`, composed with `IPC` | also `proc` (notify_recycler, recycled) and `rec` (the recycler) | `ExitGroup`, `SchedExit`, `RecycleStop`, `RecycleReclaim`, `CloseConnection` |
| `Pmo` | `memory.c` under CHCORE_OH_TEE (see below) | `pmo`, `used`, `heapLock`, `ownerLock`, `slots`, `rc`, `heapPmo`, `xfer`, `radix`, `pages`, `rw`, `bug` | `SysCreatePmo`, `SysCreateDevicePmo`, `SysCreateNsPmo`, `SysDestroyNsPmo`, `SysCapFree`, `SysCreateTeeSharedPmo`, `SysMapPmo`, `SysHandleBrk`, `TransferBegin`, `TransferLockOwner`, `TransferLock1`, `TransferLock2`, `TransferMove`, `SysRwPmo`, `RwPage`, `RwAlloc` |
| `Kmalloc` | `kmalloc.c`: `_kmalloc`'s choice of block and `size_to_page_order` | | |
| `PmoAccount` | the abstract accounting that `Pmo` refines | `owner`, `size`, `used` | `Alloc`, `Free`, `Transfer`, `Grow` |
| `MCPmo` | cap_groups A, B, C with one thread each and three PMOs | | |
| `MC` | a server process S (sMain, register thread sReg, handlers sH1 and sH2) and a client process C (c1, c2, two shm PMOs) | | |

How the code maps to actions:
- Each system call is one atomic action. The kernel is not preemptible
  inside a call; other cores observe it only through the try-locks it takes.
- `sys_ipc_register_cb_return` is split at its `unlock(register_lock)`. The
  register_cb_thread stays on its CPU until its switch, and another
  registration can run in between.
- `sys_cap_group_recycle` is split into two steps:
  - `RecycleStop`: the Phase-1 loops, which may return -EAGAIN;
  - `RecycleReclaim`: `wait_for_kernel_stack` and Phase-2.
- The slot loops run under the table's write lock. They are RECURSIVE
  operators (`StopLoop`, `ReclaimLoop`) that keep `for_each_set_bit`'s slot
  order, because a slot freed ahead of the loop is skipped.
- The helpers a call runs are operators the action composes:
  `CreateConnection` inside `RegisterClient`, and `IpcSendCap` and
  `MigrateToServer` (thread_migrate_to_server) inside `IpcCall`.
- `ipc_send_cap` runs inside `IpcCall`. Its copy loop and its rollback
  are RECURSIVE operators (`CapCopyLoop`, `FreeCopies`). A cap names a
  slot of the caller's table, and `CallCaps` lists the `cap_buf` contents
  a caller passes.
- `PROJECT.json` "map" gives the source lines of every definition.

Data abstraction:
- An sc is named by the user thread that owns it. `kern_sc` is the one
  kmalloc'ed for an exit routine; `freed_sc` is that one after kfree.
- A badge is the client process.
- Messages, addresses and shm sizes are left out.
- A thread object is freed when no capability slot names it (`Freed`).

## Runs

Runs that pass:

| run | checks | bounds |
|---|---|---|
| `MC_ipc` | TypeOK, RefcountSound, HandlerServesOneCall, ShadowArmedClean, CallsComplete, CallTransferAllOrNothing | 2 connections; c1 registers; c1 and c2 call and close; one handler per connection; exit routine or not; calls pass no cap, C's slot 5, slots 4 and 5, or three caps (MAX_CAP_TRANSFER scaled to 3, refused), and copy_to_user may fault (15778 states) |
| `MC_server_exit` | TypeOK, KernelAssertionsHold, RefcountSound, TeardownComplete, ValidConnectionsLive, HandlerServesOneCall, CallsComplete | sMain is registered; c1 and c2 register and call; sMain exits; 1 connection (552 states) |
| `MC_client_exit` | the same, without HandlerServesOneCall | k1 is already connected to sH1, which has an exit routine; c1 and c2 call and close; sMain or c2 exits (294 states) |

The exit runs use one connection. With two, finding F1 below breaks them.
With one connection and two client threads, every order is still reached:
- a call in flight during Phase-1;
- a registration in flight during an exit;
- a close racing a call;
- both processes exiting.

Violation runs, one per finding:

| run | property | finding |
|---|---|---|
| `MC_v_ret_overwrite` | ReclaimMeetsOnlyInvalidConns | F1: `stop_connection` overwrites `*ret` (recycle.c:258), so an earlier -EAGAIN is lost and Phase-2 hits BUG_ON(valid) |
| `MC_v_cb_sc_order` | RegisterThreadHasSc | F2: `unlock(register_lock)` comes before `sc = NULL` (connection.c:991-995), so a concurrent registration's donated sc is erased |
| `MC_v_shared_handler_close` | ShadowArmedClean | F3: closing connections of a shared handler that has an exit routine fires BUG_ON(sc) or BUG_ON(is_locked) (recycle.c:181/192) |
| `MC_v_close_strands` | CallsComplete | F3b: closing one connection of a busy shared handler sets it TS_EXIT, so its current client is never resumed (recycle.c:228) |
| `MC_v_register_uaf` | NoResumeOfFreedThread | F4: a client blocked in registration is retired and freed by the recycler, and is then switched to (connection.c:998) |
| `MC_v_null_register` | RegisterConfigPresent | F5: `stop_ipc_registration` dereferences a NULL config when the process exits before `sys_register_server` (recycle.c:359) |
| `MC_v_wrong_table_free` | TeardownComplete | F6: Phase-2 frees the client's shm slot id in the server's table (recycle.c:528) |

What the properties mean:
- **TypeOK**: the type invariant.
- **RefcountSound**: the count of each connection or PMO equals its
  capability slots plus the calls in flight on it.
- **TeardownComplete**: after recycling, the table is empty, no copy of the
  process's threads remains anywhere, and no live connection names one of
  its handlers.
- **ValidConnectionsLive**: a VALID connection has a handler, and neither
  side has been recycled.
- **CallTransferAllOrNothing** (action property): a `sys_ipc_call` step
  that leaves its caller running leaves every table and count as it was.
  `ipc_send_cap` copies caps one by one into the server's table and, on a
  failed `cap_copy` or `copy_to_user`, frees the copies made so far,
  counting down from i-1 to 0. MC_ipc reaches the partial case: S has one
  free slot and the call passes two caps.
- **HandlerServesOneCall**: at most one blocked caller per handler, and none
  while the handler runs its exit routine.
- **CallsComplete** (liveness): a thread blocked in a call or a registration
  is eventually resumed or retired.

Every property of every passing run has a mutant in `PROJECT.json`. A
mutant is an operator defined just before the one it replaces, marked
"Fault model". Each mutant breaks its property under that run's
configuration.

## Memory objects and heap accounting

Under `CHCORE_OH_TEE` every PMO is charged to an owner cap_group:
- `pmo_init` checks `heap_size_used + len` against `heap_size_limit` under
  the owner's `heap_size_lock`, rounds `len` up to a page and adds it;
- `pmo_deinit` runs when the last reference goes and subtracts the size
  from the current owner;
- `sys_transfer_pmo_owner` takes the PMO's `owner_lock`, then both
  cap_groups' heap locks in address order, and moves the charge if the
  target stays within its limit;
- `sys_handle_brk` creates the heap PMO (`addr = 0`), and charges later
  growth to the calling cap_group.

`Pmo` models this, with `MCPmo` instantiating it:

| state | code |
|---|---|
| `pmo[x]` | `struct pmobject`: live, type, rounded size, owner, and the side record (`tee_shm_private` or `ns_pmo_private`, with whether it was kfree'd) |
| `used[p]`, `heapLock[p]` | `heap_size_used`, `heap_size_lock` |
| `ownerLock[x]` | `owner_lock` |
| `slots`, `rc` | PMO capabilities and reference counts (`KObject`) |
| `heapPmo[p]` | the PMO of the heap vmr |
| `xfer[t]` | where a thread is in `sys_transfer_pmo_owner` |
| `radix[x]` | the page indices committed to the PMO's radix tree |
| `pages` | pages `get_pages` handed to `read_write_pmo` and not yet freed |
| `rw[t]` | where a thread is in the page walk of `read_write_pmo`: PMO, offset, remaining size |
| `bug` | double frees and BUG_ONs that fired |

Actions:
- Every system call is one action. `create_pmo`, `pmo_init` and
  `pmo_deinit` are the operators `CreatePmo`, `PmoInit` and `PmoDeinit`,
  which the calls compose.
- `sys_transfer_pmo_owner` is split into five steps, so that other cores
  can run between its lock acquisitions:
  - `TransferBegin`: `obj_get`;
  - `TransferLockOwner`: the owner_lock and the EINVAL path;
  - `TransferLock1` and `TransferLock2`: the two heap locks;
  - `TransferMove`: the charge, the unlocks and `obj_put`.
- `sys_read_pmo`/`sys_write_pmo` (`read_write_pmo`) is split too:
  - `SysRwPmo`: `obj_get`, the range check with its wrap test
    (`RwRefused`), the type check, and the one-step copy of DATA PMOs;
  - `RwPage`: `get_page_from_pmo` for the page at the current offset,
    then the copy when the page is present;
  - `RwAlloc`: `get_pages` (which may fail) and `commit_page_to_pmo`,
    then the copy.
  Offsets are `unsigned long`, scaled down to `OffsetBits` bits: the end
  `offset + size` and the advancing offset wrap at `2^OffsetBits`. A
  failing `copy_{from,to}_user` ends the walk (`CopyFaults`). The bytes and
  the direction of the copy are not modelled.
- `pmo_deinit` of a SHM, FILE or ANONYM PMO frees every committed page
  through the radix tree's `value_deleter` (`FreeRadix`).
- A call that needs a heap lock that another thread holds waits for it,
  and so does the last `obj_put`.
- `CallsOf` names the calls each thread's code makes. `CapGroupCaps`
  names the cap_groups to which a cap_group holds capabilities.

Run `MC_pmo` (passes, 63308 states, about a minute):
- A and B create, map, free and transfer PMOs to each other at the same
  time. A also creates TEE shared PMOs in B, and B creates device and
  non-secure PMOs and destroys them.
- C only grows its heap.
- Each table has one slot, each limit is 2 bytes and each page is
  2 bytes. So a second PMO, a transfer into a cap_group that already owns
  one, and a capability copy into a full table all fail.
- `get_pages` may fail in the page walk.
- B reads and writes its PMOs with offsets 0, 3 and 7 and length 2 in a
  3-bit offset space over 2-byte PMOs: one walk in range, one refused by
  the size test, and one whose end wraps to 1 and is refused only by the
  wrap test. `get_pages` and the copy may fail. B also frees its PMOs, so
  committed pages are freed by `pmo_deinit`.

It checks:
- **PmoTypeOK**, with `heap_size_used` a natural number, so a subtraction
  that would wrap the `size_t` is caught;
- **PmoRefcountSound**: a PMO lives exactly while it is referenced, and
  its count is its slots plus the transfers holding it;
- **PagesWithinPmo**: pages are committed only at indices inside their
  PMO, so a wrapping `offset + size` never reaches the walk;
- **TransfersComplete** (liveness): every transfer returns. So two
  transfers in opposite directions never deadlock, and a transfer refused
  at the target's limit releases both heap locks;
- **AccountingRefined** (refinement): `Pmo` implements `PmoAccount`. The
  invariant of `PmoAccount` (`used` of every cap_group is the sum of the
  sizes it owns) is inductive, so this also gives the match between
  `heap_size_used` and ownership.

`Pmo.tla` also defines three properties that no run checks:
- `ChargeMatchesOwnership`: it follows from AccountingRefined. It is kept
  because the brk defect below violates it.
- `NoPageLeak`: every page from `get_pages` is in exactly one radix tree
  until `pmo_deinit`. With one reader/writer it adds nothing, and with two
  the defect below violates it.
- `HeapWithinLimit`: violated by the `pmo_init` defect below.

`PmoAccount` is the abstract specification of heap accounting. It has no
locks, capabilities or intermediate states:
- every live PMO has one owner and a size;
- `used` is changed only by four atomic actions:
  - `Alloc`;
  - `Free`;
  - `Transfer`, which is allowed only within the target's limit;
  - `Grow`, which charges the owner of the heap PMO, within the limit.

The refinement mapping:
- takes the owner and size of the live PMOs;
- maps a freed PMO to no owner;
- keeps `used` unchanged.

Under this mapping:
- a successful `TransferMove` is one `Transfer`;
- a transfer whose `obj_put` frees the PMO is one `Free`;
- a creation that fails after `pmo_init`, the lock steps and capability
  copies are stuttering steps.

The limit on creation is left out of `PmoAccount`, because `pmo_init`
does not keep it (see below).

Fairness for `MC_pmo`:
- Strong fairness on a thread's steps inside `sys_transfer_pmo_owner`. It
  spins on kernel ticket locks, which serve waiters in order.
- No fairness for starting a call.

Run `MC_v_tee_double_free` (violation of **NoDoubleFree**), finding F7:
- A's table is full when A calls `sys_create_tee_shared_pmo` for B, so
  `cap_copy` fails (memory.c:960).
- `cap_free` drops the only reference, and `pmo_deinit` kfrees the TEE
  record (memory.c:629).
- `out_free_uuid` then kfrees it again (memory.c:977).

Three more defects are recorded as hazards in `PROJECT.json`. TLC showed
each one while the model was being written, but no run keeps those
instances:
- `pmo_init` checks the limit before it rounds the length up
  (memory.c:456), so a cap_group whose charge is not page aligned after a
  brk exceeds its limit (**HeapWithinLimit**).
- `sys_handle_brk` charges the caller for growth of a heap PMO that a
  transfer gave to another cap_group (memory.c:716). Later,
  `pmo_deinit` subtracts the grown size from the new owner
  (**ChargeMatchesOwnership**).
- `read_write_pmo` looks a page up and commits a new one without a lock
  (memory.c:171-184). Two cap_groups that share an ANONYM PMO through
  `sys_map_pmo` and write the same missing page both allocate it, and the
  second `radix_add` replaces the first page, which is then never freed
  (**NoPageLeak**, 9 steps). `radix_add` is not in the tree; it is
  modelled as replacing the entry. If it refused instead, the
  `BUG_ON(ret != 0)` at memory.c:583 would fire.

`MC_pmo` stays clear of these three instances in these ways:
- C, which grows its heap, neither creates nor transfers PMOs;
- only B reads and writes PMOs.

### The kmalloc front end

`Kmalloc` translates how `_kmalloc` picks a block:
- ZERO_SIZE_PTR for 0 bytes;
- the slab up to `SLAB_MAX_SIZE`;
- one buddy page up to `BUDDY_PAGE_SIZE`;
- above that, `2^size_to_page_order(size)` pages.

`size_to_page_order` is a loop that halves the page count (`Halvings`),
followed by a round-up when the count is not a power of two. `Pmo` extends
`Kmalloc`. `MC_pmo` gives the constants the values this kernel is built
with: 4096-byte buddy pages and 2048 as the slab limit (memory.c:474:
"kmalloc(>2048) returns continous physical pages").

The block depends on the size alone and not on the state. So `MCPmo`
checks it as an assumption, `KmallocBlocksFit`, which TLC evaluates once
before it explores any state. The assumption covers every request size on
either side of the slab limit, and of each page and power-of-two boundary
up to nine pages. For each size, the buddy block holds the request and is
less than twice its size. Without the final round-up of
`size_to_page_order`, the assumption fails. `PMO_DATA` is the one PMO
type that `pmo_init` kmallocs, and `MC_pmo` creates none. The slab and buddy allocators themselves are not in this
tree.

Not modelled in `memory.c`:
- `sys_unmap_pmo`, `map_pmo_in_current_cap_group`, `sys_get_phys_addr`
  and `sys_handle_mprotect`, which act only on vmregions and page tables;
- page faults, the other path that commits pages to a radix tree;
- the `mapped` flag of non-secure PMOs;
- vmregions and page tables, which are mm code outside this tree.

## Fairness of the IPC runs

Weak fairness is assumed for:
- `IpcReturn`, `CbReturnUnlock`, `CbReturnSwitch` and
  `ExitRoutineReturn`: handler and register_cb threads run server code that
  always returns;
- `SchedExit`: the scheduler retires a running TE_EXITING thread at its
  next `sched()`.

No fairness is assumed for:
- client calls, registrations, exits and closes (program choices);
- the user-level recycler, which is not in the tree. CallsComplete
  therefore holds however late recycling happens, or if it never happens.

## Not modelled

- Capability transfer on `sys_ipc_return`. Its early returns (connection.c:849
  and 860) go back to `usys_ipc_return`, which is `_Noreturn` and ends in
  `__builtin_unreachable()`. What the handler does next is undefined, so
  the model has no next step to give it. The transfer on `sys_ipc_call` is
  modelled.
- The ipc_msg placement check.
- No property states the leak of `create_connection` (connection.c:260-312).
  The result of the shm `cap_copy` is not checked. When the server has
  one free slot, the shm copy takes it, the connection `cap_copy` fails,
  and the call returns with the shm copy left in the server's table.
  `CreateConnection` models this, and MC_ipc reaches it: c1 registers, calls
  with one cap, then registers again. The leaked copy keeps its count, so
  RefcountSound still holds.
- kmalloc failure: `_kmalloc` ends in `BUG_ON(!addr)` (kmalloc.c:110),
  so kmalloc never returns NULL and the NULL checks after it (memory.c:477,
  memory.c:939, recycle.c:197, connection.c:157, 169, 610 and 956) are
  dead code. A failed allocation stops the kernel.
- Notifications and channels (`stop_notification`, `stop_channel`).
- `notify_user_recycler` and its ring buffer. When the buffer is full, the
  exit message is parked in a list. The list is filled at its head, and
  the recycler is not signalled (recycle.c:84-93). The buffer code and the
  recycler that drains it are not in the tree.
- The user-level recycler, file servers, the futex port, boot, platform and
  TrustZone glue.

`PROJECT.json` lists each of these with its reason, and the hazards still
open.
