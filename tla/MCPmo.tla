------------------------------- MODULE MCPmo -------------------------------
(***************************************************************************)
(* Model-checking instances of Pmo: cap_groups A, B and C (struct         *)
(* addresses in that order) with one thread each, 2-byte heap limits and  *)
(* 2-byte pages, so that a second PMO or a transfer into a cap_group that  *)
(* owns one is refused.                                                            *)
(***************************************************************************)
EXTENDS Pmo

CONSTANTS A, B, C, tA, tB, tC, x1, x2, x3, u1, u2

MCProcs == {A, B, C}
MCThreads == {tA, tB, tC}
MCPmos == {x1, x2, x3}
MCProcOf == [t \in MCThreads |-> CASE t = tA -> A [] t = tB -> B [] OTHER -> C]
MCHeapLimit == [p \in MCProcs |-> 2]
MCUuidOf == [p \in MCProcs |-> IF p = B THEN u2 ELSE u1]
MCAddr == [p \in MCProcs |-> CASE p = A -> 1 [] p = B -> 2 [] OTHER -> 3]

(* A and B create, share, free and transfer PMOs to each other,          *)
(* A through TEE shared memory, B through device and non-secure PMOs; B   *)
(* alone reads and writes PMOs (sys_read_pmo, sys_write_pmo); C           *)
(* grows its heap and keeps its heap PMO.                                  *)
MCCalls == [t \in MCThreads |->
              CASE t = tA -> {"create", "map", "transfer", "tee_shared"}
                [] t = tB -> {"create", "cap_free", "transfer", "device",
                              "ns", "destroy_ns", "rw"}
                [] OTHER -> {"brk"}]

(* A and B hold capabilities to themselves and each other; C only to      *)
(* itself, so it is reached by no other cap_group.                         *)
MCCapGroupCaps == [p \in MCProcs |-> IF p = C THEN {C} ELSE {A, B}]

\* kmalloc requests on each side of the slab limit, and of every page and
\* power-of-two boundary up to nine pages.
MCKmallocSizes == {0, 1, 2048, 2049} \cup
                  UNION {{4096 * k - 1, 4096 * k, 4096 * k + 1} : k \in 1..9}

(* kmalloc gives every request size above a block that holds it and is  *)
(* no more than twice as large: size_to_page_order rounds the page count *)
(* up to a power of two, not down.  The choice depends on the size alone *)
(* and not on the state, so it is an assumption TLC checks once, before  *)
(* exploring any state, and a failed one stops the run.                  *)
ASSUME KmallocBlocksFit == \A n \in KmallocSizes : BlockFits(n)

\* A creates TEE shared PMOs in other cap_groups and fills its own table.
MCCallsTeeCreate == [t \in MCThreads |-> IF t = tA THEN {"tee_shared", "create"} ELSE {}]

=============================================================================
