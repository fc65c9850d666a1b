----------------------------- MODULE PmoAccount -----------------------------
(***************************************************************************)
(* What the heap accounting of memory.c promises, with no locks, no       *)
(* capabilities and no intermediate states: every live PMO has one owner *)
(* and a size, and each cap_group is charged exactly the sizes it owns.   *)
(* A PMO is created charged to a cap_group, freed uncharged from its      *)
(* owner, moved to another cap_group in one step if that one stays        *)
(* within its limit, and grown (the heap PMO) within its owner's limit.   *)
(*                                                                         *)
(* The limit on creation is not part of this promise: pmo_init's check is *)
(* stated separately (Pmo!HeapWithinLimit).                               *)
(***************************************************************************)
EXTENDS Naturals

CONSTANTS Procs, Pmos, HeapLimit, NULL

VARIABLES owner, size, used

acctVars == <<owner, size, used>>

AcctInit ==
    /\ owner = [x \in Pmos |-> NULL]
    /\ size = [x \in Pmos |-> 0]
    /\ used = [p \in Procs |-> 0]

\* pmo_init: a new PMO of n bytes, charged to p.
Alloc(x, p, n) ==
    /\ owner[x] = NULL
    /\ owner' = [owner EXCEPT ![x] = p]
    /\ size' = [size EXCEPT ![x] = n]
    /\ used' = [used EXCEPT ![p] = @ + n]

\* pmo_deinit: the last reference is gone; the owner is uncharged.
Free(x) ==
    /\ owner[x] # NULL
    /\ owner' = [owner EXCEPT ![x] = NULL]
    /\ size' = [size EXCEPT ![x] = 0]
    /\ used' = [used EXCEPT ![owner[x]] = @ - size[x]]

\* sys_transfer_pmo_owner: the charge moves with the PMO, within q's limit.
Transfer(x, q) ==
    LET p == owner[x] IN
    /\ p # NULL /\ q # p
    /\ used[q] + size[x] <= HeapLimit[q]
    /\ owner' = [owner EXCEPT ![x] = q]
    /\ used' = [used EXCEPT ![p] = @ - size[x], ![q] = @ + size[x]]
    /\ UNCHANGED size

\* sys_handle_brk: the heap PMO grows by n, charged to its owner.
Grow(x, n) ==
    LET p == owner[x] IN
    /\ p # NULL
    /\ used[p] + n <= HeapLimit[p]
    /\ size' = [size EXCEPT ![x] = @ + n]
    /\ used' = [used EXCEPT ![p] = @ + n]
    /\ UNCHANGED owner

\* The sizes are those of the next state (n ranges over Nat).
AcctNext ==
    \E x \in Pmos :
        \/ \E p \in Procs : Alloc(x, p, size'[x])
        \/ Free(x)
        \/ \E q \in Procs : Transfer(x, q)
        \/ size'[x] > size[x] /\ Grow(x, size'[x] - size[x])

AcctSpec == AcctInit /\ [][AcctNext]_acctVars

=============================================================================
