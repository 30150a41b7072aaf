---------------------------- MODULE KHeapProofs ----------------------------
(***************************************************************************)
(* Proofs about module KHeap: for every heap region, page size and set of  *)
(* request sizes that cannot wrap, the blocks handed out are aligned, lie  *)
(* in the heap and never overlap.                                          *)
(***************************************************************************)
EXTENDS KHeap, TLAPS
-----------------------------------------------------------------------------
(***************************************************************************)
(* Arithmetic of alignment.                                                *)
(***************************************************************************)
LEMMA Divide ==
  ASSUME NEW n \in Nat \ {0}, NEW y \in Nat
  PROVE  y \div n \in Nat /\ y % n \in 0..(n-1) /\ y = n * (y \div n) + (y % n)
  BY SMT

LEMMA MultipleMod ==
  ASSUME NEW n \in Nat \ {0}, NEW q \in Nat
  PROVE  (n * q) % n = 0
  BY SMT

LEMMA FloorIsMultiple ==
  ASSUME NEW n \in Nat \ {0}, NEW y \in Nat
  PROVE  (y - (y % n)) % n = 0
  <1>1. PICK q \in Nat : y - (y % n) = n * q
    <2>1. PICK q \in Nat, r \in 0..(n-1) : r = y % n /\ y = n * q + r
      BY Divide
    <2>2. n * q \in Nat
      OBVIOUS
    <2>3. y - r = n * q
      BY <2>1, <2>2
    <2> QED  BY <2>1, <2>3
  <1> QED  BY <1>1, MultipleMod

LEMMA FloorBelowMultiple ==
  ASSUME NEW n \in Nat \ {0}, NEW y \in Nat, NEW h \in Nat, h % n = 0, y < h + n
  PROVE  y - (y % n) <= h
  BY SMT

LEMMA MultipleOfFour ==
  ASSUME NEW m \in Nat, NEW q \in Nat
  PROVE  (4 * m * q) % 4 = 0
  BY SMT

LEMMA PageIsWordAligned ==
  ASSUME NEW n \in Nat \ {0}, NEW y \in Nat, n % 4 = 0, y % n = 0
  PROVE  y % 4 = 0
  <1>1. PICK m \in Nat : n = 4 * m
    <2>1. n \div 4 \in Nat /\ n = 4 * (n \div 4)
      BY Divide
    <2> QED  BY <2>1
  <1>2. PICK q \in Nat : y = n * q
    <2>1. y \div n \in Nat /\ y = n * (y \div n)
      BY Divide
    <2> QED  BY <2>1
  <1>3. y = 4 * m * q
    BY <1>1, <1>2
  <1> QED  BY <1>3, MultipleOfFour

LEMMA SumOfWords ==
  ASSUME NEW x \in Nat, NEW y \in Nat, x % 4 = 0, y % 4 = 0
  PROVE  (x + y) % 4 = 0
  BY SMT

LEMMA WrapFree == ASSUME NEW x \in Nat, x < WORD PROVE x % WORD = x
  BY WordAssumption, SMT

\* AlignUp yields the first boundary at or after x.
LEMMA AlignUpBounds ==
  ASSUME NEW unit \in Nat \ {0}, NEW x \in Nat, x + unit - 1 < WORD
  PROVE  /\ AlignUp(x, unit) \in Nat
         /\ x <= AlignUp(x, unit) /\ AlignUp(x, unit) <= x + unit - 1
         /\ AlignUp(x, unit) % unit = 0
  <1> DEFINE y == x + unit - 1
  <1>1. y \in Nat /\ y % WORD = y
    BY WrapFree
  <1>2. AlignUp(x, unit) = y - (y % unit)
    BY <1>1 DEF AlignUp
  <1>3. y % unit \in 0..(unit - 1)
    BY <1>1, Divide
  <1>4. (y - (y % unit)) % unit = 0
    BY <1>1, FloorIsMultiple
  <1> QED  BY <1>1, <1>2, <1>3, <1>4
-----------------------------------------------------------------------------
(***************************************************************************)
(* The inductive invariant: every block ends at or before the front, the   *)
(* front is word aligned and has not passed the end of the heap.           *)
(***************************************************************************)
HeapInv ==
  /\ TypeOK
  /\ heap_current % 4 = 0
  /\ \A b \in blocks : End(b) <= heap_current
  /\ BlocksDisjoint /\ BlocksInHeap /\ BlocksAligned

LEMMA HeapInit == Init => HeapInv
  <1> SUFFICES ASSUME Init PROVE HeapInv  OBVIOUS
  <1>1. HEAP_START % 4 = 0
    BY HeapAssumption, PageAssumption, PageIsWordAligned
  <1>2. HEAP_START \in HEAP_START..heap_end
    BY HeapAssumption
  <1> QED
    BY <1>1, <1>2 DEF Init, HeapInv, TypeOK, BlocksDisjoint, BlocksInHeap, BlocksAligned

\* What both allocation functions do once the front is where they want it.
LEMMA AllocateKeeps ==
  ASSUME HeapInv, NEW front \in Nat, NEW aligned \in BOOLEAN,
         NEW request \in Nat, heap_end + request + 3 < WORD,
         heap_current <= front, front <= heap_end, front % 4 = 0,
         aligned => front % PAGE_SIZE = 0,
         Allocate(front, request, aligned)
  PROVE  HeapInv'
  <1> DEFINE size  == AlignUp(request, 4)
             block == [addr |-> front, size |-> size]
  <1> USE HeapAssumption DEF HeapInv
  <1>w. /\ WORD \in Nat
        /\ heap_current \in HEAP_START..heap_end
    BY WordAssumption DEF TypeOK
  <1>s. size \in Nat /\ size <= request + 3 /\ size % 4 = 0
    BY <1>w, AlignUpBounds
  <1>f. (front + size) % WORD = front + size
    BY <1>w, <1>s, WrapFree
  <1>1. CASE Fits(front, size)
    <2>1. /\ heap_current' = front + size
          /\ blocks' = blocks \cup {block}
          /\ paged' = IF aligned THEN paged \cup {block} ELSE paged
          /\ result' = front
      BY <1>1, <1>f DEF Allocate
    <2>2. front + size < heap_end
      BY <1>1, <1>f DEF Fits
    <2>3. /\ block \in [addr : HEAP_START..heap_end, size : 0..heap_end]
          /\ End(block) = heap_current'
      BY <1>w, <1>s, <2>1, <2>2 DEF End
    <2>4. TypeOK'
      BY <1>w, <1>s, <2>1, <2>2, <2>3 DEF TypeOK
    <2>5. heap_current' % 4 = 0
      BY <1>s, <2>1, SumOfWords
    <2>6. \A b \in blocks' : End(b) <= heap_current'
      <3> SUFFICES ASSUME NEW b \in blocks PROVE End(b) <= heap_current'
        BY <2>1, <2>3, <1>s
      <3>1. End(b) \in Nat /\ End(b) <= heap_current
        BY DEF TypeOK, End
      <3> QED  BY <3>1, <2>1, <1>w, <1>s
    <2>7. BlocksDisjoint'
      <3> SUFFICES ASSUME NEW b \in blocks PROVE End(b) <= block.addr
        BY <2>1 DEF BlocksDisjoint, End
      <3>1. End(b) \in Nat /\ End(b) <= heap_current
        BY DEF TypeOK, End
      <3> QED  BY <3>1, <1>w
    <2>8. BlocksInHeap'
      BY <2>1, <2>2, <2>3, <1>w, <1>s DEF BlocksInHeap, End
    <2>9. BlocksAligned'
      BY <2>1 DEF BlocksAligned
    <2> QED  BY <2>4, <2>5, <2>6, <2>7, <2>8, <2>9
  <1>2. CASE ~Fits(front, size)
    <2>1. heap_current' = front /\ result' = 0 /\ UNCHANGED <<blocks, paged>>
      BY <1>2 DEF Allocate
    <2>2. TypeOK'
      BY <2>1, <1>w DEF TypeOK
    <2>3. \A b \in blocks' : End(b) <= heap_current'
      <3> SUFFICES ASSUME NEW b \in blocks PROVE End(b) <= front
        BY <2>1
      <3>1. End(b) \in Nat /\ End(b) <= heap_current
        BY DEF TypeOK, End
      <3> QED  BY <3>1, <1>w
    <2> QED
      BY <2>1, <2>2, <2>3 DEF BlocksDisjoint, BlocksInHeap, BlocksAligned, End
  <1> QED  BY <1>1, <1>2

\* The front that kmalloc_a moves to.
LEMMA AlignedFront ==
  ASSUME HeapInv
  PROVE  /\ AlignUp(heap_current, PAGE_SIZE) \in Nat
         /\ heap_current <= AlignUp(heap_current, PAGE_SIZE)
         /\ AlignUp(heap_current, PAGE_SIZE) <= heap_end
         /\ AlignUp(heap_current, PAGE_SIZE) % PAGE_SIZE = 0
         /\ AlignUp(heap_current, PAGE_SIZE) % 4 = 0
  <1> DEFINE front == AlignUp(heap_current, PAGE_SIZE)
             y == heap_current + PAGE_SIZE - 1
  <1>1. /\ heap_current \in Nat /\ heap_current <= heap_end
        /\ PAGE_SIZE \in Nat \ {0} /\ PAGE_SIZE % 4 = 0
        /\ heap_end \in Nat /\ heap_end % PAGE_SIZE = 0
        /\ y < WORD
    BY HeapAssumption, PageAssumption, SizesAssumption, WordAssumption DEF HeapInv, TypeOK
  <1>2. front \in Nat /\ heap_current <= front /\ front % PAGE_SIZE = 0
    BY <1>1, AlignUpBounds
  <1>3. front <= heap_end
    <2>1. y \in Nat /\ y < heap_end + PAGE_SIZE /\ y % WORD = y
      BY <1>1, WrapFree
    <2>2. front = y - (y % PAGE_SIZE)
      BY <2>1 DEF AlignUp
    <2> QED  BY <2>1, <2>2, <1>1, FloorBelowMultiple
  <1>4. front % 4 = 0
    BY <1>1, <1>2, PageIsWordAligned
  <1> QED  BY <1>2, <1>3, <1>4

LEMMA AlignedKeeps ==
  ASSUME HeapInv, NEW request \in Nat, heap_end + request + 3 < WORD, kmalloc_a(request)
  PROVE  HeapInv'
  BY AlignedFront, AllocateKeeps DEF kmalloc_a

LEMMA HeapStep == HeapInv /\ [Next]_hvars => HeapInv'
  <1> SUFFICES ASSUME HeapInv, [Next]_hvars PROVE HeapInv'  OBVIOUS
  <1>s. \A request \in Sizes : request \in Nat /\ heap_end + request + 3 < WORD
    BY SizesAssumption
  <1>1. ASSUME NEW request \in Sizes, kmalloc(request) PROVE HeapInv'
    <2>1. heap_current \in Nat /\ heap_current <= heap_end /\ heap_current % 4 = 0
      BY HeapAssumption DEF HeapInv, TypeOK
    <2>2. Allocate(heap_current, request, FALSE)
      BY <1>1 DEF kmalloc
    <2>3. heap_current <= heap_current
      BY <2>1
    <2>4. request \in Nat /\ heap_end + request + 3 < WORD
      BY <1>s
    <2> QED  BY <2>1, <2>2, <2>3, <2>4, AllocateKeeps
  <1>2. ASSUME NEW request \in Sizes, kmalloc_a(request) PROVE HeapInv'
    BY <1>2, <1>s, AlignedKeeps
  <1>3. CASE UNCHANGED hvars
    BY <1>3 DEF hvars, HeapInv, TypeOK, BlocksDisjoint, BlocksInHeap, BlocksAligned, End
  <1> QED  BY <1>1, <1>2, <1>3 DEF Next, kfree

LEMMA HeapInvariant == Spec => []HeapInv
  BY HeapInit, HeapStep, PTL DEF Spec

(***************************************************************************)
(* The front of the heap and every block stay in range, for all constants. *)
(***************************************************************************)
THEOREM HeapTypeCorrect == Spec => []TypeOK
  <1>1. HeapInv => TypeOK  BY DEF HeapInv
  <1> QED  BY <1>1, HeapInvariant, PTL

(***************************************************************************)
(* No two blocks handed out by kmalloc and kmalloc_a overlap, every block  *)
(* lies inside the heap and begins a word, those of kmalloc_a a page.      *)
(***************************************************************************)
THEOREM HeapBlocksSound == Spec => []BlocksSound
  <1>1. HeapInv => BlocksSound  BY DEF HeapInv, BlocksSound
  <1> QED  BY <1>1, HeapInvariant, PTL
=============================================================================
