------------------------------- MODULE Kmalloc -------------------------------
(***************************************************************************)
(* The front end of the kernel allocator (kernel/mm/kmalloc.c): where     *)
(* _kmalloc takes a block of a given size from.  A request of 0 bytes     *)
(* gets ZERO_SIZE_PTR, one up to SLAB_MAX_SIZE goes to the slab, a larger *)
(* one gets 2^order buddy pages, with order 0 up to one page and          *)
(* size_to_page_order above.  The slab and the buddy system themselves    *)
(* are not in this tree.  A NULL from either is a BUG_ON (kmalloc.c:110): *)
(* kmalloc never returns NULL, so callers' NULL checks are dead code.     *)
(***************************************************************************)
EXTENDS Naturals

CONSTANTS
    BuddyPageSize,  \* BUDDY_PAGE_SIZE, a power of two
    SlabMaxSize,    \* SLAB_MAX_SIZE = 1 << SLAB_MAX_ORDER
    KmallocSizes    \* request sizes checked

\* ROUND_UP(x, n) for a power of two n.
RoundUpTo(x, n) == ((x + n - 1) \div n) * n

(* The while loop of size_to_page_order: halve tmp until it is at most 1, *)
(* counting the halvings.                                                 *)
RECURSIVE Halvings(_, _)
Halvings(tmp, order) == IF tmp > 1 THEN Halvings(tmp \div 2, order + 1) ELSE order

(* size_to_page_order: the number of pages, floor(log2) of it, plus one   *)
(* when the pages are not a power of two.                                 *)
\* Fault model: the final round-up to a power of two is missing.
size_to_page_order_floor(size) ==
    Halvings(RoundUpTo(size, BuddyPageSize) \div BuddyPageSize, 0)

size_to_page_order(size) ==
    LET pg_num == RoundUpTo(size, BuddyPageSize) \div BuddyPageSize
        order == Halvings(pg_num, 0)
    IN IF pg_num > 2^order THEN order + 1 ELSE order

(* _kmalloc's choice of allocator and buddy order for a request.          *)
KmallocBlock(size) ==
    CASE size = 0 -> [from |-> "zero", order |-> 0]
      [] size <= SlabMaxSize -> [from |-> "slab", order |-> 0]
      [] size <= BuddyPageSize -> [from |-> "buddy", order |-> 0]
      [] OTHER -> [from |-> "buddy", order |-> size_to_page_order(size)]

\* The bytes of a buddy block of the given order.
BuddyBytes(order) == BuddyPageSize * 2^order

(* A request larger than the slab gets the smallest power-of-two run of  *)
(* buddy pages that holds it: never fewer bytes than asked (a PMO_DATA   *)
(* of several pages is zeroed and used to its end), never a block twice  *)
(* as large as needed.                                                    *)
BlockFits(n) ==
    LET b == KmallocBlock(n) IN
    b.from = "buddy" =>
        /\ n <= BuddyBytes(b.order)
        /\ b.order > 0 => BuddyBytes(b.order - 1) < n

=============================================================================
