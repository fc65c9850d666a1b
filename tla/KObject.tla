------------------------------ MODULE KObject ------------------------------
(***************************************************************************)
(* Capability tables and reference counts of kernel objects.               *)
(*                                                                         *)
(* The code of cap_alloc, cap_copy, cap_free and obj_get/obj_put           *)
(* (kernel/object/cap_group.c, object.c) is not part of this source tree;  *)
(* these operators follow spec.md section 4.1.  A table is a function from *)
(* slot ids to an object or NULL; only connections and PMOs carry a        *)
(* counted reference here (thread lifetime is the lifetime of its          *)
(* process, see Recycle).  All operators are pure: the IPC and Recycle     *)
(* actions compose them.                                                   *)
(***************************************************************************)
EXTENDS Naturals, FiniteSets

CONSTANT NULL

\* cap_alloc scans the slot bitmap for the first free slot.
FirstFree(tbl) ==
    CHOOSE i \in DOMAIN tbl :
        /\ tbl[i] = NULL
        /\ \A j \in DOMAIN tbl : j < i => tbl[j] # NULL

HasFree(tbl) == \E i \in DOMAIN tbl : tbl[i] = NULL

\* cap_alloc(p, o): install o in p's first free slot (takes over one unit).
CapAlloc(slots, p, o) == [slots EXCEPT ![p][FirstFree(slots[p])] = o]

\* Fault model: obj_put forgotten.
RefDecMissing(rc, o) == rc

\* obj_get / obj_put on an object that carries a reference count.
RefInc(rc, o) == IF o \in DOMAIN rc THEN [rc EXCEPT ![o] = @ + 1] ELSE rc
RefDec(rc, o) == IF o \in DOMAIN rc THEN [rc EXCEPT ![o] = @ - 1] ELSE rc

\* Every slot, in every table, that names object o (the object's "copies").
Copies(slots, o) ==
    UNION {{<<p, i>> : i \in {j \in DOMAIN slots[p] : slots[p][j] = o}} :
           p \in DOMAIN slots}

\* Number of slots naming o, the units of o's count held by tables.
SlotRefs(slots, o) == Cardinality(Copies(slots, o))

=============================================================================
