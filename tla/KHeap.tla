------------------------------- MODULE KHeap -------------------------------
(***************************************************************************)
(* The kernel heap, kernel/utils/memory.c: a bump allocator over one fixed *)
(* region.  kmalloc rounds the request up to words and takes it from the   *)
(* front of what is left; kmalloc_a first moves the front to a page        *)
(* boundary; kfree gives nothing back.  Addresses and sizes are uint32_t,  *)
(* so the sums wrap at WORD.                                               *)
(***************************************************************************)
EXTENDS Integers, FiniteSets

CONSTANTS
  WORD,        \* 2^32: uint32_t arithmetic is modulo WORD
  HEAP_START, heap_end,
  PAGE_SIZE,
  Sizes,       \* the sizes callers ask for
  MaxBlocks    \* bound: blocks allocated in one behaviour

ASSUME WordAssumption == WORD \in Nat
ASSUME PageAssumption == PAGE_SIZE \in Nat \ {0} /\ PAGE_SIZE % 4 = 0
ASSUME HeapAssumption ==
  /\ HEAP_START \in Nat \ {0} /\ heap_end \in Nat /\ HEAP_START <= heap_end
  /\ HEAP_START % PAGE_SIZE = 0 /\ heap_end % PAGE_SIZE = 0
\* No request is so large that rounding it up or adding it to an address
\* wraps.  kmalloc does not test for that; its callers pass the sizes of
\* structures, tables, stacks and the frame bitmap.
ASSUME SizesAssumption ==
  /\ Sizes \subseteq Nat
  /\ heap_end + PAGE_SIZE < WORD
  /\ \A size \in Sizes : heap_end + size + 3 < WORD
ASSUME MaxBlocksAssumption == MaxBlocks \in Nat

VARIABLES
  heap_current,
  blocks,      \* history: [addr, size] of every block handed out
  paged,       \* history: the blocks that kmalloc_a handed out
  result       \* what the last call returned

hvars == <<heap_current, blocks, paged, result>>

\* (x + unit - 1) & ~(unit - 1), for unit a power of two.
AlignUp(x, unit) ==
  LET y == (x + unit - 1) % WORD IN y - (y % unit)

\* Mutant: the whole region is checked against, not what is left of it.
FitsRegion(front, size) == (HEAP_START + size) % WORD < heap_end
\* Whether the request fits: not if it would use the last byte.
Fits(front, size) == (front + size) % WORD < heap_end

\* kmalloc, entered with heap_current = front.
Allocate(front, request, aligned) ==
  LET size  == AlignUp(request, 4)
      block == [addr |-> front, size |-> size]
  IN  IF Fits(front, size)
      THEN /\ heap_current' = (front + size) % WORD
           /\ blocks' = blocks \cup {block}
           /\ paged' = IF aligned THEN paged \cup {block} ELSE paged
           /\ result' = front
      ELSE /\ heap_current' = front
           /\ result' = 0
           /\ UNCHANGED <<blocks, paged>>

kmalloc(request) == Allocate(heap_current, request, FALSE)

\* Mutant: the front is moved back to the boundary.
kmalloc_a_back(request) == Allocate(heap_current - (heap_current % PAGE_SIZE), request, TRUE)
\* The front is moved to the boundary even if the allocation then fails.
kmalloc_a(request) == Allocate(AlignUp(heap_current, PAGE_SIZE), request, TRUE)

\* kmalloc_p, kmalloc_ap: *phys_addr gets the address returned, 0 included.

kfree(block) == UNCHANGED hvars

Init ==
  /\ heap_current = HEAP_START
  /\ blocks = {} /\ paged = {} /\ result = 0

Next ==
  \/ /\ Cardinality(blocks) < MaxBlocks
     /\ \E request \in Sizes : kmalloc(request) \/ kmalloc_a(request)
  \/ \E block \in blocks : kfree(block)

Spec == Init /\ [][Next]_hvars
-----------------------------------------------------------------------------
TypeOK ==
  /\ heap_current \in HEAP_START..heap_end
  /\ blocks \subseteq [addr : HEAP_START..heap_end, size : 0..heap_end]
  /\ paged \subseteq blocks
  /\ result \in {0} \cup (HEAP_START..heap_end)

End(block) == block.addr + block.size

\* No two overlap; all lie between the start of the heap and its end; every one
\* begins a word, and those of kmalloc_a, for directories and tables, a page.
BlocksDisjoint ==
  \A a, b \in blocks : a = b \/ End(a) <= b.addr \/ End(b) <= a.addr
BlocksInHeap ==
  \A b \in blocks : HEAP_START <= b.addr /\ End(b) < heap_end
BlocksAligned ==
  /\ \A b \in blocks : b.addr % 4 = 0
  /\ \A b \in paged : b.addr % PAGE_SIZE = 0

(***************************************************************************)
(* Blocks never overlap, lie inside the heap and are aligned as the caller *)
(* asked, whatever the order of kmalloc, kmalloc_a and failed calls, and   *)
(* of requests for words and for pages.                                    *)
(***************************************************************************)
BlocksSound == BlocksDisjoint /\ BlocksInHeap /\ BlocksAligned
=============================================================================
