---------------------------- MODULE PagingProofs ----------------------------
(***************************************************************************)
(* Proofs about module Paging: for every geometry of pages and tables and  *)
(* every bitmap, whoever allocates in between and whichever allocations    *)
(* fail, the tables of a directory are its own, both arrays of a directory *)
(* agree, no frame is given to two user pages, and the directories         *)
(* implement separate address spaces.                                      *)
(***************************************************************************)
EXTENDS Paging, KHeapProofs, FiniteSetTheorems
-----------------------------------------------------------------------------
(***************************************************************************)
(* Arithmetic of pages.                                                    *)
(***************************************************************************)
\* A non-empty set of naturals has a least element.
LEMMA LeastNatural ==
  ASSUME NEW S \in SUBSET Nat, S # {}
  PROVE  \E x \in S : \A y \in S : x <= y
  <1>1. PICK x \in S : \A y \in S : <<y, x>> \notin OpToRel(<, Nat)
    BY NatLessThanWellFounded, WFMin, Zenon
  <1>2. \A y \in S : ~(y < x)
    BY <1>1 DEF OpToRel
  <1> QED  BY <1>2

LEMMA MinOfNaturals ==
  ASSUME NEW S \in SUBSET Nat, S # {}
  PROVE  Min(S) \in S
  BY LeastNatural, Zenon DEF Min

LEMMA ProductNat == ASSUME NEW m \in Nat, NEW n \in Nat PROVE m * n \in Nat
  BY SMT

LEMMA QuotientBelow ==
  ASSUME NEW n \in Nat \ {0}, NEW m \in Nat, NEW y \in Nat, y < m * n
  PROVE  y \div n \in 0..m-1
  BY SMT

LEMMA QuotientOfMultiple ==
  ASSUME NEW n \in Nat \ {0}, NEW q \in Nat
  PROVE  (q * n) \div n = q /\ (q * n) % n = 0
  BY SMT

LEMMA DivideExact ==
  ASSUME NEW n \in Nat \ {0}, NEW y \in Nat, y % n = 0
  PROVE  y \div n \in Nat /\ y = (y \div n) * n
  <1>1. y \div n \in Nat /\ y = n * (y \div n)
    BY Divide
  <1> QED  BY <1>1

\* A number is its quotient and its remainder.
LEMMA SameQuotient ==
  ASSUME NEW n \in Nat \ {0}, NEW x \in Nat, NEW y \in Nat,
         x \div n = y \div n, x % n = y % n
  PROVE  x = y
  BY Divide

LEMMA QuotientMonotone ==
  ASSUME NEW n \in Nat \ {0}, NEW x \in Nat, NEW y \in Nat, x <= y
  PROVE  x \div n <= y \div n
  BY SMT

LEMMA ProductMonotone ==
  ASSUME NEW n \in Nat, NEW x \in Nat, NEW y \in Nat, x <= y
  PROVE  x * n <= y * n
  BY SMT
-----------------------------------------------------------------------------
(***************************************************************************)
(* The constants.                                                          *)
(***************************************************************************)
LEMMA Geometry ==
  /\ PAGE_ENTRIES \in Nat \ {0} /\ PAGE_SIZE \in Nat \ {0}
  /\ PAGE_SIZE = 4 * PAGE_ENTRIES
  /\ TABLE_SIZE = PAGE_SIZE /\ DIRECTORY_SIZE = 2 * PAGE_SIZE + 4
  /\ VPages = 0 .. PAGE_ENTRIES * PAGE_ENTRIES - 1
  /\ PAGE_ENTRIES * PAGE_ENTRIES \in Nat
  /\ Cardinality(VPages) = PAGE_ENTRIES * PAGE_ENTRIES
  /\ (PAGE_ENTRIES * PAGE_ENTRIES) * PAGE_SIZE = WORD
  <1>1. /\ PAGE_ENTRIES \in Nat \ {0} /\ PAGE_SIZE \in Nat \ {0}
        /\ PAGE_SIZE = 4 * PAGE_ENTRIES
    BY PagingAssumption, PageAssumption DEF TABLE_SIZE
  <1>2. DIRECTORY_SIZE = 2 * PAGE_SIZE + 4 /\ TABLE_SIZE = PAGE_SIZE
    BY <1>1 DEF DIRECTORY_SIZE, TABLE_SIZE
  <1> DEFINE n == PAGE_ENTRIES * PAGE_ENTRIES
  <1>3. n \in Nat /\ n > 0
    BY <1>1
  <1>4. Cardinality(0..n-1) = n
    <2> HIDE DEF n
    <2> QED  BY <1>3, FS_Interval
  <1> QED  BY <1>1, <1>2, <1>3, <1>4, PagingAssumption DEF VPages

\* The pages of the heap: the addresses a table or a directory may have.
LEMMA HeapPageIntro ==
  ASSUME NEW x \in Nat, x <= heap_end, x % PAGE_SIZE = 0
  PROVE  x \in HeapPages
  <1>1. x \div PAGE_SIZE \in Nat /\ x = (x \div PAGE_SIZE) * PAGE_SIZE
    BY DivideExact, PageAssumption
  <1>2. x \div PAGE_SIZE <= heap_end \div PAGE_SIZE /\ heap_end \div PAGE_SIZE \in Nat
    BY QuotientMonotone, DivideExact, PageAssumption, HeapAssumption
  <1> QED  BY <1>1, <1>2 DEF HeapPages

LEMMA HeapPageElim ==
  ASSUME NEW x \in HeapPages
  PROVE  /\ x \in Nat /\ x <= heap_end /\ x % PAGE_SIZE = 0
         /\ x \in {p * PAGE_SIZE : p \in VPages}
  <1>1. PICK p \in 0 .. heap_end \div PAGE_SIZE : x = p * PAGE_SIZE
    BY DEF HeapPages
  <1>2. heap_end \div PAGE_SIZE \in Nat /\ (heap_end \div PAGE_SIZE) * PAGE_SIZE = heap_end
    BY DivideExact, PageAssumption, HeapAssumption
  <1>3. p \in Nat /\ p <= heap_end \div PAGE_SIZE
    BY <1>1, <1>2
  <1>4. x \in Nat /\ x <= heap_end /\ x % PAGE_SIZE = 0
    <2>1. PAGE_SIZE \in Nat \ {0}
      BY PageAssumption
    <2>2. p * PAGE_SIZE \in Nat
      BY <1>3, <2>1, ProductNat
    <2>3. p * PAGE_SIZE <= (heap_end \div PAGE_SIZE) * PAGE_SIZE
      BY <1>2, <1>3, <2>1, ProductMonotone
    <2>4. (p * PAGE_SIZE) % PAGE_SIZE = 0
      BY <1>3, <2>1, QuotientOfMultiple
    <2> QED  BY <1>1, <1>2, <2>2, <2>3, <2>4, Zenon
  <1>5. p \in VPages
    <2>1. x < WORD
      BY <1>4, HeapAssumption, SizesAssumption, WordAssumption, PageAssumption
    <2>2. x \div PAGE_SIZE \in 0 .. PAGE_ENTRIES * PAGE_ENTRIES - 1
      BY <1>4, <2>1, Geometry, QuotientBelow
    <2>3. x \div PAGE_SIZE = p
      BY <1>1, <1>3, QuotientOfMultiple, PageAssumption
    <2> QED  BY <2>2, <2>3, Geometry
  <1> QED  BY <1>1, <1>4, <1>5

LEMMA ZeroIsHeapPage == 0 \in HeapPages
  <1>1. 0 % PAGE_SIZE = 0
    BY PageAssumption, SMT
  <1> QED  BY <1>1, HeapPageIntro, HeapAssumption

\* A virtual page is an index of the directory and one of the table.
LEMMA PageIndexes ==
  ASSUME NEW v \in VPages
  PROVE  v \in Nat /\ dir_index(v) \in Index /\ table_index(v) \in Index
  <1>1. v \in Nat /\ v < PAGE_ENTRIES * PAGE_ENTRIES
    BY Geometry
  <1>2. v \div PAGE_ENTRIES \in 0..PAGE_ENTRIES-1
    BY <1>1, Geometry, QuotientBelow
  <1>3. v % PAGE_ENTRIES \in 0..PAGE_ENTRIES-1
    BY <1>1, Geometry, Divide
  <1> QED  BY <1>1, <1>2, <1>3 DEF dir_index, table_index, Index

LEMMA PageOfIndexes ==
  ASSUME NEW v \in VPages, NEW w \in VPages,
         dir_index(v) = dir_index(w), table_index(v) = table_index(w)
  PROVE  v = w
  BY PageIndexes, Geometry, SameQuotient DEF dir_index, table_index

\* The entry of the beginning of a page holds that address.
LEMMA EntryAt ==
  ASSUME NEW p \in VPages, NEW fl
  PROVE  Entry(p * PAGE_SIZE, fl) = [addr |-> p * PAGE_SIZE, flags |-> fl]
  <1>1. p \in Nat
    BY PageIndexes
  <1>2. (p * PAGE_SIZE) % PAGE_SIZE = 0 /\ p * PAGE_SIZE \in Nat
    BY <1>1, Geometry, QuotientOfMultiple, ProductNat
  <1> QED  BY <1>2 DEF Entry

LEMMA EntryAtHeapPage ==
  ASSUME NEW x \in HeapPages, NEW fl
  PROVE  Entry(x, fl) = [addr |-> x, flags |-> fl]
  BY HeapPageElim, EntryAt

LEMMA EntryIsEntry ==
  ASSUME NEW p \in VPages, NEW fl \in SUBSET Flags
  PROVE  Entry(p * PAGE_SIZE, fl) \in Entries
  <1>1. [addr |-> p * PAGE_SIZE, flags |-> fl] \in Entries
    BY DEF Entries
  <1> QED  BY <1>1, EntryAt

\* Neither NoEntry nor Garbage is an entry or has a flag of one.
LEMMA NoEntryFlags ==
  /\ NoEntry.flags = {"ABSENT"} /\ "USER" \notin NoEntry.flags /\ "USER" \notin Garbage.flags
  /\ NoEntry \notin Entries /\ Garbage \notin Entries
  /\ \A x, fl : fl \in SUBSET Flags => [addr |-> x, flags |-> fl] # NoEntry
  BY DEF NoEntry, Garbage, Flags, Entries

\* A present entry, read as an address, is odd and so no table's.
LEMMA WordIsNoTable ==
  ASSUME NEW e \in Entries
  PROVE  Word(e) \in Nat /\ Word(e) # 0 /\ ~IsTable(Word(e))
  <1>1. PICK p \in VPages : e.addr = p * PAGE_SIZE
    BY DEF Entries
  <1>2. e.addr \in Nat /\ e.addr % 4 = 0
    <2>1. p \in Nat /\ PAGE_SIZE \in Nat \ {0} /\ PAGE_SIZE % 4 = 0
      BY PageIndexes, PageAssumption
    <2>2. p * PAGE_SIZE \in Nat /\ (p * PAGE_SIZE) % PAGE_SIZE = 0
      BY <2>1, ProductNat, QuotientOfMultiple
    <2> QED  BY <1>1, <2>1, <2>2, PageIsWordAligned
  <1>3. Word(e) = e.addr + 3 \/ Word(e) = e.addr + 7
    BY <1>2 DEF Word
  <1>4. Word(e) \in Nat /\ Word(e) # 0 /\ Word(e) % 4 = 3
    BY <1>2, <1>3
  <1>5. \A x \in HeapPages : x % 4 = 0
    BY HeapPageElim, PageIsWordAligned, PageAssumption
  <1> QED  BY <1>4, <1>5 DEF IsTable
-----------------------------------------------------------------------------
(***************************************************************************)
(* The inductive invariant.  Directories and tables are blocks of the      *)
(* heap, but for the directory at 0, so that a new one is apart from all   *)
(* others; no table is entered twice; both arrays of a directory name the  *)
(* same table; a directory yet to be created has none.                     *)
(***************************************************************************)
BlockAt(a, size) == [addr |-> a, size |-> size] \in blocks

\* The processor's entry of a table.
Grants(x, t) == x # NoEntry /\ x.addr = t /\ "WRITABLE" \in x.flags

DirectoriesOwned == \A d \in directories \ {0} : BlockAt(d, DIRECTORY_SIZE)
TablesOwned == \A d \in directories, i \in Index :
  IsTable(tables[d][i]) => BlockAt(tables[d][i], TABLE_SIZE)
TablesDistinct == \A d, e \in directories, i, j \in Index :
  IsTable(tables[d][i]) /\ tables[d][i] = tables[e][j] => d = e /\ i = j
EntriesMatch == \A d \in directories, i \in Index :
  IsTable(tables[d][i]) => Grants(tables_physical[d][i], tables[d][i])
NoTablesYet == \A d \in HeapPages \ directories, i \in Index : ~IsTable(tables[d][i])

Structure ==
  /\ HeapInv /\ PagingTypeOK
  /\ DirectoriesOwned /\ TablesOwned /\ TablesDistinct /\ EntriesMatch /\ NoTablesYet

PagingInv == Structure /\ FramesOwned

\* The types PagingTypeOK gives the arrays.
TableWords == HeapPages \cup {Word(e) : e \in Entries}
PhysicalEntries == [addr : HeapPages, flags : SUBSET Flags] \cup {NoEntry}
Contents == Entries \cup {Garbage} \cup {NotPresent(t) : t \in HeapPages}
Bitmaps == [0 .. NFrames \div WordBits - 1 -> SUBSET (0..WordBits-1)]

LEMMA PagingTypes ==
  PagingTypeOK <=>
    /\ TypeOK
    /\ directories \subseteq HeapPages /\ current_directory \in directories
    /\ \A d \in HeapPages \ {0} : tables[d] \in [Index -> HeapPages]
    /\ tables \in [HeapPages -> [Index -> TableWords]]
    /\ tables_physical \in [HeapPages -> [Index -> PhysicalEntries]]
    /\ physical_addr \in [HeapPages -> HeapPages] /\ cr3 \in HeapPages
    /\ \A t \in HeapPages \ {0} : pages[t] \in [Index -> Entries \cup {NoEntry, Garbage}]
    /\ pages \in [HeapPages -> [Index -> Contents]]
    /\ frames \in Bitmaps
    /\ lost \in BOOLEAN
  BY DEF PagingTypeOK, TableWords, PhysicalEntries, Contents, Bitmaps

\* Every entry and every page of a heap table is something memory may hold.
LEMMA ContentTypes ==
  /\ Entries \cup {NoEntry, Garbage} \subseteq Contents
  /\ \A t \in HeapPages : NotPresent(t) \in Contents
  /\ 0 \in TableWords /\ HeapPages \subseteq TableWords
  /\ \A e \in Entries : Word(e) \in TableWords
  <1>1. NoEntry = NotPresent(0)
    BY DEF NoEntry, NotPresent
  <1> QED  BY <1>1, ZeroIsHeapPage DEF Contents, TableWords

\* Rounding up yields the least multiple.
LEMMA AlignUpLeast ==
  ASSUME NEW unit \in Nat \ {0}, NEW x \in Nat, x + unit - 1 < WORD,
         NEW h \in Nat, h % unit = 0, x <= h
  PROVE  AlignUp(x, unit) <= h
  <1>1. x + unit - 1 \in Nat /\ x + unit - 1 < h + unit
    OBVIOUS
  <1>2. (x + unit - 1) % WORD = x + unit - 1
    BY <1>1, WrapFree
  <1> QED  BY <1>1, <1>2, FloorBelowMultiple DEF AlignUp

\* What is left of the heap shrinks as the front moves on.
LEMMA RoomShrinks ==
  ASSUME NEW x \in HEAP_START..heap_end, NEW y \in HEAP_START..heap_end, x <= y
  PROVE  /\ AlignUp(x, PAGE_SIZE) \in Nat /\ AlignUp(y, PAGE_SIZE) \in Nat
         /\ AlignUp(x, PAGE_SIZE) <= AlignUp(y, PAGE_SIZE)
         /\ y <= AlignUp(y, PAGE_SIZE)
         /\ x % PAGE_SIZE = 0 => AlignUp(x, PAGE_SIZE) = x
  <1>1. /\ x \in Nat /\ y \in Nat /\ PAGE_SIZE \in Nat \ {0}
        /\ x + PAGE_SIZE - 1 < WORD /\ y + PAGE_SIZE - 1 < WORD
    BY HeapAssumption, SizesAssumption, PageAssumption, WordAssumption
  <1>2. /\ AlignUp(x, PAGE_SIZE) \in Nat /\ x <= AlignUp(x, PAGE_SIZE)
        /\ AlignUp(y, PAGE_SIZE) \in Nat /\ y <= AlignUp(y, PAGE_SIZE)
        /\ AlignUp(y, PAGE_SIZE) % PAGE_SIZE = 0
    BY <1>1, AlignUpBounds
  <1>3. AlignUp(x, PAGE_SIZE) <= AlignUp(y, PAGE_SIZE)
    <2>1. x <= AlignUp(y, PAGE_SIZE)
      BY <1>1, <1>2
    <2> QED  BY <1>1, <1>2, <2>1, AlignUpLeast
  <1>4. x % PAGE_SIZE = 0 => AlignUp(x, PAGE_SIZE) = x
    <2> SUFFICES ASSUME x % PAGE_SIZE = 0 PROVE AlignUp(x, PAGE_SIZE) = x
      OBVIOUS
    <2>1. AlignUp(x, PAGE_SIZE) <= x
      BY <1>1, AlignUpLeast
    <2> QED  BY <1>1, <1>2, <2>1
  <1> QED  BY <1>2, <1>3, <1>4

LEMMA RoomIsNat ==
  ASSUME HeapInv
  PROVE  Room \in Nat
  BY AlignedFront, HeapAssumption DEF Room

\* What kmalloc_a hands out, or that not enough is left.
LEMMA NewBlock ==
  ASSUME HeapInv, NEW request \in {TABLE_SIZE, DIRECTORY_SIZE}, kmalloc_a(request)
  PROVE  /\ HeapInv' /\ result' \in HeapPages
         /\ \/ /\ result' = 0 /\ blocks' = blocks
               /\ Room <= request /\ Room' = Room
            \/ /\ result' # 0
               /\ blocks' = blocks \cup {[addr |-> result', size |-> request]}
               /\ \A b \in blocks : b.addr + b.size <= result'
               /\ Room > request /\ Room' < Room
  <1> DEFINE front == AlignUp(heap_current, PAGE_SIZE)
             size == AlignUp(request, 4)
  <1>1. request \in Nat /\ request > 0 /\ request % 4 = 0 /\ heap_end + request + 3 < WORD
    BY Geometry, PagingAssumption, HeapAssumption, WordAssumption
  <1>2. HeapInv'
    BY <1>1, AlignedKeeps
  <1>3. size = request
    <2>1. (request + 4 - 1) % WORD = request + 3
      <3>1. request + 3 \in Nat /\ request + 3 < WORD /\ request + 4 - 1 = request + 3
        BY <1>1, HeapAssumption, WordAssumption
      <3> QED  BY <3>1, WrapFree
    <2>2. (request + 3) - ((request + 3) % 4) = request
      BY <1>1
    <2> QED  BY <2>1, <2>2, <1>1 DEF AlignUp
  <1>4. /\ front \in HeapPages /\ heap_current <= front /\ heap_current \in Nat
        /\ front \in HEAP_START..heap_end /\ front \in Nat /\ front % PAGE_SIZE = 0
    BY AlignedFront, HeapPageIntro, HeapAssumption DEF HeapInv, TypeOK
  <1>5. front # 0
    BY <1>4, HeapAssumption
  <1>6. (front + size) % WORD = front + request
    <2>1. front + request \in Nat /\ front + request < WORD
      <3> HIDE DEF front
      <3>1. WORD \in Nat /\ heap_end \in Nat /\ front <= heap_end
        BY <1>4, HeapAssumption, WordAssumption
      <3> QED  BY <3>1, <1>1, <1>4
    <2> QED  BY <1>3, <2>1, WrapFree
  <1>r. Room = heap_end - front /\ Room' = heap_end - AlignUp(heap_current', PAGE_SIZE)
    BY DEF Room
  <1>f. heap_end \in Nat
    BY HeapAssumption
  <1>7. CASE Fits(front, size)
    <2>1. /\ blocks' = blocks \cup {[addr |-> front, size |-> request]} /\ result' = front
          /\ heap_current' = front + request
      BY <1>3, <1>6, <1>7 DEF kmalloc_a, Allocate
    <2>2. ASSUME NEW b \in blocks PROVE b.addr + b.size <= front
      <3>1. b.addr + b.size \in Nat /\ b.addr + b.size <= heap_current
        BY HeapAssumption DEF HeapInv, TypeOK, End
      <3> QED  BY <3>1, <1>4
    <2>3. front + request < heap_end
      BY <1>3, <1>6, <1>7 DEF Fits
    <2>4. Room > request /\ Room' < Room
      <3> HIDE DEF front
      <3>1. front + request \in HEAP_START..heap_end
        BY <1>1, <1>4, <1>f, <2>3, HeapAssumption
      <3>2. AlignUp(front + request, PAGE_SIZE) \in Nat /\ front + request <= AlignUp(front + request, PAGE_SIZE)
        BY <3>1, RoomShrinks
      <3> QED  BY <1>1, <1>4, <1>r, <1>f, <2>1, <2>3, <3>2
    <2> QED  BY <1>2, <1>4, <1>5, <2>1, <2>2, <2>4
  <1>8. CASE ~Fits(front, size)
    <2>1. blocks' = blocks /\ result' = 0 /\ heap_current' = front
      BY <1>8 DEF kmalloc_a, Allocate
    <2>2. ~(front + request < heap_end)
      BY <1>3, <1>6, <1>8 DEF Fits
    <2>3. Room <= request /\ Room' = Room
      <3> HIDE DEF front
      <3>1. AlignUp(front, PAGE_SIZE) = front
        BY <1>4, RoomShrinks
      <3> QED  BY <1>1, <1>4, <1>r, <1>f, <2>1, <2>2, <3>1
    <2> QED  BY <1>2, <2>1, <2>3, ZeroIsHeapPage
  <1> QED  BY <1>7, <1>8
-----------------------------------------------------------------------------
(***************************************************************************)
(* map_page and unmap_page: whichever way they go, the structure stays as  *)
(* it should be, and one page of the current directory changes, no other   *)
(* page of any; or, with too little memory for a table, what the directory *)
(* at 0 maps is lost; or the kernel goes astray.                           *)
(***************************************************************************)
OthersKept(v) ==
  \A d \in HeapPages, w \in VPages :
    d # current_directory \/ w # v => Walk(d, w)' = Walk(d, w)
AllKept == \A d \in HeapPages, w \in VPages : Walk(d, w)' = Walk(d, w)
LowLost ==
  /\ \A d \in HeapPages \ {0}, w \in VPages : Walk(d, w)' = Walk(d, w)
  /\ \A w \in VPages : Walk(0, w)' \in {NoEntry, Garbage}

MapOutcome(v, e) ==
  \/ OthersKept(v) /\ Walk(current_directory, v)' = e /\ Room' <= Room
  \/ LowLost /\ Table(v) = 0 /\ Room <= TABLE_SIZE /\ Room' = Room
  \/ AllKept /\ Table(v) # 0 /\ ~IsTable(Table(v)) /\ Room' = Room

\* A page that begins behind all blocks is no directory and no table.
LEMMA BehindAll ==
  ASSUME Structure, NEW t \in Nat \ {0}, \A b \in blocks : b.addr + b.size <= t
  PROVE  /\ t \notin directories
         /\ \A d \in directories, i \in Index : IsTable(tables[d][i]) => tables[d][i] # t
  <1>1. ASSUME NEW a, NEW size \in {TABLE_SIZE, DIRECTORY_SIZE}, BlockAt(a, size), a = t PROVE FALSE
    <2>1. a + size <= t
      BY <1>1 DEF BlockAt
    <2>2. size \in Nat /\ size > 0
      BY Geometry
    <2> QED  BY <1>1, <2>1, <2>2
  <1>2. t \notin directories
    BY <1>1 DEF Structure, DirectoriesOwned
  <1>3. \A d \in directories, i \in Index : IsTable(tables[d][i]) => tables[d][i] # t
    BY <1>1 DEF Structure, TablesOwned
  <1> QED  BY <1>2, <1>3

\* The types of the tables that a walk goes through.
LEMMA TableTypes ==
  ASSUME Structure
  PROVE  /\ current_directory \in directories /\ directories \subseteq HeapPages
         /\ \A d \in HeapPages \ {0}, i \in Index : tables[d][i] \in HeapPages
         /\ \A d \in HeapPages, i \in Index : IsTable(tables[d][i]) => d \in directories
         /\ \A t \in HeapPages \ {0} : pages[t] \in [Index -> Entries \cup {NoEntry, Garbage}]
  BY PagingTypes DEF Structure, NoTablesYet

\* What a walk finds.
LEMMA WalkTypes ==
  ASSUME Structure, NEW d \in HeapPages, NEW w \in VPages
  PROVE  Walk(d, w) \in Entries \cup {NoEntry, Garbage}
  BY TableTypes, PageIndexes DEF Walk, IsTable

LEMMA ZeroIsNoTable == ~IsTable(0)
  BY DEF IsTable

\* A table of the current directory is written to.
LEMMA MapExisting ==
  ASSUME Structure, NEW v \in VPages, NEW e \in Entries \cup {NoEntry},
         IsTable(Table(v)),
         pages' = [pages EXCEPT ![Table(v)][table_index(v)] = e],
         UNCHANGED <<hvars, directories, tables, tables_physical, physical_addr,
                     current_directory, cr3, lost>>,
         frames' \in Bitmaps
  PROVE  Structure' /\ MapOutcome(v, e)
  <1> DEFINE c == current_directory
             i == dir_index(v)
             t == Table(v)
  <1>1. /\ c \in directories /\ c \in HeapPages /\ i \in Index /\ table_index(v) \in Index
        /\ t \in HeapPages \ {0} /\ t = tables[c][i]
    BY TableTypes, PageIndexes DEF IsTable, Table
  <1>2. /\ DOMAIN pages = HeapPages /\ \A u \in HeapPages : DOMAIN pages[u] = Index
        /\ \A u \in HeapPages : pages'[u] = IF u = t THEN [pages[t] EXCEPT ![table_index(v)] = e] ELSE pages[u]
    BY <1>1, PagingTypes DEF Structure
  <1>3. PagingTypeOK'
    <2> DEFINE new == [pages[t] EXCEPT ![table_index(v)] = e]
    <2>1. new \in [Index -> Entries \cup {NoEntry, Garbage}] /\ new \in [Index -> Contents]
      BY <1>1, TableTypes, ContentTypes
    <2>2. pages' = [pages EXCEPT ![t] = new]
      OBVIOUS
    <2>3. pages' \in [HeapPages -> [Index -> Contents]]
      BY <1>1, <2>1, <2>2, PagingTypes DEF Structure
    <2>4. \A u \in HeapPages \ {0} : pages'[u] \in [Index -> Entries \cup {NoEntry, Garbage}]
      BY <1>2, <2>1, TableTypes
    <2>5. TypeOK'
      BY DEF Structure, PagingTypeOK, TypeOK, hvars
    <2> QED  BY <2>3, <2>4, <2>5 DEF Structure, PagingTypeOK, Contents, Bitmaps
  <1>4. HeapInv'
    BY DEF Structure, HeapInv, TypeOK, hvars, BlocksDisjoint, BlocksInHeap, BlocksAligned, End
  <1>5. Structure'
    BY <1>3, <1>4 DEF Structure, DirectoriesOwned, TablesOwned, TablesDistinct, EntriesMatch, NoTablesYet,
                      BlockAt, hvars
  <1>6. Walk(c, v)' = e
    BY <1>1, <1>2 DEF Walk, IsTable
  <1>7. ASSUME NEW d \in HeapPages, NEW w \in VPages, d # c \/ w # v
        PROVE  Walk(d, w)' = Walk(d, w)
    <2> DEFINE j == dir_index(w)
               u == tables[d][j]
    <2>1. j \in Index /\ table_index(w) \in Index
      BY PageIndexes
    <2>2. CASE ~IsTable(u)
      BY <2>2 DEF Walk
    <2>3. CASE IsTable(u) /\ u # t
      BY <2>1, <2>3, <1>2 DEF Walk, IsTable
    <2>4. CASE IsTable(u) /\ u = t
      <3>1. d = c /\ j = i
        BY <2>1, <2>4, <1>1, TableTypes DEF Structure, TablesDistinct
      <3>2. table_index(w) # table_index(v)
        BY <3>1, <1>7, PageOfIndexes
      <3>3. pages'[t][table_index(w)] = pages[t][table_index(w)]
        BY <3>2, <2>1, <1>1, <1>2
      <3> QED  BY <2>4, <3>3 DEF Walk
    <2> QED  BY <2>2, <2>3, <2>4
  <1>8. Room' = Room /\ Room \in Nat
    BY RoomIsNat DEF Room, hvars, Structure
  <1> QED  BY <1>5, <1>6, <1>7, <1>8 DEF OthersKept, MapOutcome

LEMMA PhysicalEntryAt ==
  ASSUME NEW t \in HeapPages, NEW fl
  PROVE  PhysicalEntry(t, fl) \in PhysicalEntries /\ Grants(PhysicalEntry(t, fl), t)
  <1> DEFINE f == {"WRITABLE"} \cup (IF "USER" \in fl THEN {} ELSE {"USER"})
  <1>1. f \in SUBSET Flags /\ "WRITABLE" \in f
    BY DEF Flags
  <1>2. PhysicalEntry(t, fl) = [addr |-> t, flags |-> f]
    BY EntryAtHeapPage DEF PhysicalEntry
  <1>3. [addr |-> t, flags |-> f] # NoEntry
    BY <1>1, NoEntryFlags
  <1> HIDE DEF f
  <1>4. [addr |-> t, flags |-> f] \in [addr : HeapPages, flags : SUBSET Flags]
    BY <1>1
  <1> QED  BY <1>1, <1>2, <1>3, <1>4 DEF Grants, PhysicalEntries

\* One element of one of several arrays is assigned.
Assigned(f, a, b, x) == [f EXCEPT ![a][b] = x]

LEMMA OneElement ==
  ASSUME NEW f \in [HeapPages -> [Index -> Contents]], NEW a \in HeapPages, NEW b \in Index,
         NEW x \in Contents
  PROVE  /\ Assigned(f, a, b, x) \in [HeapPages -> [Index -> Contents]]
         /\ \A u \in HeapPages : u # a => Assigned(f, a, b, x)[u] = f[u]
         /\ x = f[a][b] => Assigned(f, a, b, x) = f
  <1> DEFINE g == Assigned(f, a, b, x)
  <1>1. f[a] \in [Index -> Contents] /\ g = [f EXCEPT ![a] = [f[a] EXCEPT ![b] = x]]
    BY DEF Assigned
  <1>2. [f[a] EXCEPT ![b] = x] \in [Index -> Contents]
    BY <1>1
  <1>3. g \in [HeapPages -> [Index -> Contents]]
    BY <1>1, <1>2
  <1>4. \A u \in HeapPages : u # a => g[u] = f[u]
    BY <1>1
  <1>5. ASSUME x = f[a][b] PROVE g = f
    <2>1. [f[a] EXCEPT ![b] = x] = f[a]
      BY <1>1, <1>5
    <2> QED  BY <1>1, <2>1
  <1> QED  BY <1>3, <1>4, <1>5

\* A new table is entered in the current directory and written to.
LEMMA MapNew ==
  ASSUME Structure, NEW v \in VPages, NEW e \in Entries, NEW fl,
         Table(v) = 0, kmalloc_a(TABLE_SIZE), result' # 0,
         Enter(current_directory, dir_index(v), result', fl),
         pages' = [pages EXCEPT
           ![result'] = [Cleared(result') EXCEPT ![table_index(v)] = e],
           ![current_directory][dir_index(v)] = IF current_directory = 0 THEN NotPresent(result') ELSE @],
         UNCHANGED <<directories, physical_addr, current_directory, cr3, lost>>,
         frames' \in Bitmaps
  PROVE  Structure' /\ MapOutcome(v, e)
  <1> DEFINE c == current_directory
             i == dir_index(v)
             t == result'
             new == [Cleared(t) EXCEPT ![table_index(v)] = e]
  <1>1. /\ c \in directories /\ c \in HeapPages /\ directories \subseteq HeapPages
        /\ i \in Index /\ table_index(v) \in Index /\ tables[c][i] = 0
    BY TableTypes, PageIndexes DEF Table
  <1>2. /\ HeapInv' /\ t \in HeapPages /\ t \in Nat /\ t # 0 /\ IsTable(t)
        /\ blocks' = blocks \cup {[addr |-> t, size |-> TABLE_SIZE]}
        /\ t \notin directories /\ t # c
        /\ \A d \in directories, j \in Index : IsTable(tables[d][j]) => tables[d][j] # t
        /\ Room' <= Room
    <2>1. /\ HeapInv' /\ t \in HeapPages
          /\ blocks' = blocks \cup {[addr |-> t, size |-> TABLE_SIZE]}
          /\ \A b \in blocks : b.addr + b.size <= t
          /\ Room' < Room
      BY NewBlock DEF Structure
    <2>2. t \in Nat \ {0}
      BY <2>1, HeapPageElim
    <2>3. /\ t \notin directories
          /\ \A d \in directories, j \in Index : IsTable(tables[d][j]) => tables[d][j] # t
      BY <2>1, <2>2, BehindAll
    <2>4. Room \in Nat /\ Room' \in Int
      <3>1. AlignUp(heap_current', PAGE_SIZE) \in Nat
        <4>1. heap_current' \in HEAP_START..heap_end
          BY <2>1 DEF HeapInv, TypeOK
        <4>2. heap_current' <= heap_current'
          BY <4>1, HeapAssumption
        <4> QED  BY <4>1, <4>2, RoomShrinks
      <3> QED  BY <3>1, RoomIsNat, HeapAssumption DEF Room, Structure
    <2> QED  BY <1>1, <2>1, <2>2, <2>3, <2>4 DEF IsTable
  <1>t. /\ tables' = [tables EXCEPT ![c][i] = t]
        /\ tables_physical' = [tables_physical EXCEPT ![c][i] = PhysicalEntry(t, fl)]
    BY DEF Enter
  <1>3. \A d \in HeapPages, j \in Index :
          tables'[d][j] = IF d = c /\ j = i THEN t ELSE tables[d][j]
    BY <1>1, <1>t, PagingTypes DEF Structure
  <1>4. \A d \in HeapPages, j \in Index :
          tables_physical'[d][j] = IF d = c /\ j = i THEN PhysicalEntry(t, fl) ELSE tables_physical[d][j]
    BY <1>1, <1>t, PagingTypes DEF Structure
  <1>n. new \in [Index -> Entries \cup {NoEntry, Garbage}] /\ new \in [Index -> Contents]
        /\ \A j \in Index : new[j] = IF j = table_index(v) THEN e ELSE NoEntry
    BY <1>1, ContentTypes DEF Cleared
  <1>p. /\ pages' \in [HeapPages -> [Index -> Contents]]
        /\ \A u \in HeapPages \ {0} : pages'[u] = IF u = t THEN new ELSE pages[u]
    <2>1. pages \in [HeapPages -> [Index -> Contents]]
      BY PagingTypes DEF Structure
    <2>2. PICK wide : wide = [pages EXCEPT ![t] = new]
      OBVIOUS
    <2>3. wide \in [HeapPages -> [Index -> Contents]]
          /\ \A u \in HeapPages : wide[u] = IF u = t THEN new ELSE pages[u]
      BY <1>2, <1>n, <2>1, <2>2
    <2>4. pages' = Assigned(wide, c, i, IF c = 0 THEN NotPresent(t) ELSE pages[c][i])
      BY <2>2 DEF Assigned
    <2>5. pages[c][i] = wide[c][i] /\ wide[c][i] \in Contents /\ NotPresent(t) \in Contents
      BY <1>1, <1>2, <2>3, ContentTypes
    <2> HIDE DEF c, i, new
    <2>6. PICK x \in Contents : pages' = Assigned(wide, c, i, x) /\ (c # 0 => x = wide[c][i])
      BY <2>4, <2>5
    <2>7. /\ pages' \in [HeapPages -> [Index -> Contents]]
          /\ \A u \in HeapPages : u # c => pages'[u] = wide[u]
          /\ c # 0 => pages' = wide
      <3>1. c \in HeapPages /\ i \in Index /\ wide \in [HeapPages -> [Index -> Contents]] /\ x \in Contents
        BY <1>1, <2>3
      <3>2. /\ Assigned(wide, c, i, x) \in [HeapPages -> [Index -> Contents]]
            /\ \A u \in HeapPages : u # c => Assigned(wide, c, i, x)[u] = wide[u]
            /\ x = wide[c][i] => Assigned(wide, c, i, x) = wide
        BY ONLY <3>1, OneElement, Zenon
      <3> QED  BY <2>6, <3>2
    <2> QED  BY <1>2, <2>3, <2>7
  <1> HIDE DEF new
  <1>5. PagingTypeOK'
    <2>1. tables' \in [HeapPages -> [Index -> TableWords]]
      BY <1>1, <1>2, <1>t, ContentTypes, PagingTypes DEF Structure
    <2>2. \A d \in HeapPages \ {0} : tables'[d] \in [Index -> HeapPages]
      BY <1>1, <1>2, <1>t, PagingTypes DEF Structure
    <2>3. tables_physical' \in [HeapPages -> [Index -> PhysicalEntries]]
      BY <1>1, <1>2, <1>t, PhysicalEntryAt, PagingTypes DEF Structure
    <2>4. \A u \in HeapPages \ {0} : pages'[u] \in [Index -> Entries \cup {NoEntry, Garbage}]
      BY <1>n, <1>p, TableTypes
    <2> QED
      BY <1>2, <1>p, <2>1, <2>2, <2>3, <2>4
      DEF Structure, PagingTypeOK, HeapInv, Contents, TableWords, PhysicalEntries, Bitmaps
  <1>6. DirectoriesOwned' /\ TablesOwned'
    BY <1>1, <1>2, <1>3 DEF Structure, DirectoriesOwned, TablesOwned, BlockAt
  <1>7. TablesDistinct'
    <2> SUFFICES ASSUME NEW d \in directories, NEW f \in directories, NEW j \in Index, NEW k \in Index,
                        IsTable(tables'[d][j]), tables'[d][j] = tables'[f][k]
                 PROVE  d = f /\ j = k
      BY DEF TablesDistinct
    <2> QED  BY <1>1, <1>2, <1>3 DEF Structure, TablesDistinct
  <1>8. EntriesMatch'
    BY <1>1, <1>2, <1>3, <1>4, PhysicalEntryAt DEF Structure, EntriesMatch
  <1>9. NoTablesYet'
    BY <1>1, <1>3 DEF Structure, NoTablesYet
  <1>10. Structure'
    BY <1>2, <1>5, <1>6, <1>7, <1>8, <1>9 DEF Structure
  <1>11. Walk(c, v)' = e
    <2>1. tables'[c][i] = t /\ pages'[t][table_index(v)] = e
      BY <1>1, <1>2, <1>3, <1>n, <1>p
    <2> QED  BY <1>2, <2>1 DEF Walk
  <1>12. ASSUME NEW d \in HeapPages, NEW w \in VPages, d # c \/ w # v
         PROVE  Walk(d, w)' = Walk(d, w)
    <2> DEFINE j == dir_index(w)
               u == tables[d][j]
    <2>1. j \in Index /\ table_index(w) \in Index
      BY PageIndexes
    <2>2. CASE d = c /\ j = i
      <3>1. table_index(w) # table_index(v)
        BY <1>12, <2>2, PageOfIndexes
      <3>2. pages'[t][table_index(w)] = NoEntry
        BY <3>1, <2>1, <1>2, <1>n, <1>p
      <3> QED  BY <2>2, <3>2, <1>1, <1>2, <1>3 DEF Walk
    <2>3. CASE ~(d = c /\ j = i)
      <3>1. tables'[d][j] = u
        BY <2>1, <2>3, <1>3
      <3>2. CASE ~IsTable(u)
        BY <3>1, <3>2 DEF Walk
      <3>3. CASE IsTable(u)
        <4>1. u # t /\ u \in HeapPages \ {0}
          BY <2>1, <3>3, <1>2, TableTypes DEF IsTable
        <4>2. pages'[u] = pages[u]
          BY <4>1, <1>p
        <4> QED  BY <3>1, <3>3, <4>1, <4>2 DEF Walk
      <3> QED  BY <3>2, <3>3
    <2> QED  BY <2>2, <2>3
  <1> QED  BY <1>2, <1>10, <1>11, <1>12 DEF OthersKept, MapOutcome

\* There is no memory for a table: low memory is taken for one.
LEMMA MapLow ==
  ASSUME Structure, NEW v \in VPages, NEW e \in Entries,
         MapInLowMemory(v, e),
         UNCHANGED <<directories, physical_addr, current_directory, cr3>>,
         frames' \in Bitmaps
  PROVE  Structure' /\ MapOutcome(v, e)
  <1> DEFINE c == current_directory
             i == dir_index(v)
             words == [j \in Index |-> IF j = table_index(v) THEN Word(e) ELSE 0]
             low == [Cleared(0) EXCEPT ![table_index(v)] = e]
  <1>1. /\ Table(v) = 0 /\ kmalloc_a(TABLE_SIZE) /\ result' = 0
        /\ tables' = [tables EXCEPT ![0] = words]
        /\ tables_physical' = [tables_physical EXCEPT ![c][i] = PhysicalEntry(0, e.flags)]
        /\ pages' = [pages EXCEPT ![0] = low]
        /\ UNCHANGED lost
    BY DEF MapInLowMemory
  <1>2. /\ c \in directories /\ c \in HeapPages /\ directories \subseteq HeapPages
        /\ i \in Index /\ table_index(v) \in Index /\ tables[c][i] = 0 /\ 0 \in HeapPages
    BY <1>1, TableTypes, PageIndexes, ZeroIsHeapPage DEF Table
  <1>3. HeapInv' /\ blocks' = blocks /\ Room <= TABLE_SIZE /\ Room' = Room
    BY <1>1, NewBlock DEF Structure
  <1>4. /\ words \in [Index -> TableWords]
        /\ \A j \in Index : ~IsTable(words[j])
    BY <1>2, ContentTypes, WordIsNoTable, ZeroIsNoTable
  <1>5. low \in [Index -> Contents]
    BY <1>2, ContentTypes DEF Cleared
  <1> HIDE DEF words, low
  <1>6. \A d \in HeapPages \ {0} : tables'[d] = tables[d] /\ pages'[d] = pages[d]
    BY <1>1, PagingTypes DEF Structure
  <1>7. \A j \in Index : tables'[0][j] = words[j]
    BY <1>1, <1>2, PagingTypes DEF Structure
  <1>8. \A d \in HeapPages, j \in Index :
          tables_physical'[d][j] = IF d = c /\ j = i THEN PhysicalEntry(0, e.flags) ELSE tables_physical[d][j]
    BY <1>1, <1>2, PagingTypes DEF Structure
  <1>9. PagingTypeOK'
    <2>1. tables' \in [HeapPages -> [Index -> TableWords]]
      BY <1>1, <1>2, <1>4, PagingTypes DEF Structure
    <2>2. \A d \in HeapPages \ {0} : tables'[d] \in [Index -> HeapPages]
      BY <1>6, PagingTypes DEF Structure
    <2>3. tables_physical' \in [HeapPages -> [Index -> PhysicalEntries]]
      BY <1>1, <1>2, PhysicalEntryAt, PagingTypes DEF Structure
    <2>4. pages' \in [HeapPages -> [Index -> Contents]]
      BY <1>1, <1>2, <1>5, PagingTypes DEF Structure
    <2>5. \A u \in HeapPages \ {0} : pages'[u] \in [Index -> Entries \cup {NoEntry, Garbage}]
      BY <1>6, TableTypes
    <2> QED
      BY <1>1, <1>3, <2>1, <2>2, <2>3, <2>4, <2>5
      DEF Structure, PagingTypeOK, HeapInv, Contents, TableWords, PhysicalEntries, Bitmaps
  <1>10. ASSUME NEW d \in HeapPages, NEW j \in Index, IsTable(tables'[d][j])
         PROVE  d # 0 /\ tables'[d][j] = tables[d][j] /\ ~(d = c /\ j = i)
    <2>1. d # 0
      BY <1>4, <1>7, <1>10
    <2> QED  BY <1>2, <1>6, <1>10, <2>1, ZeroIsNoTable
  <1>11. DirectoriesOwned' /\ TablesOwned'
    BY <1>2, <1>3, <1>10 DEF Structure, DirectoriesOwned, TablesOwned, BlockAt
  <1>12. TablesDistinct'
    <2> SUFFICES ASSUME NEW d \in directories, NEW f \in directories, NEW j \in Index, NEW k \in Index,
                        IsTable(tables'[d][j]), tables'[d][j] = tables'[f][k]
                 PROVE  d = f /\ j = k
      BY DEF TablesDistinct
    <2> QED  BY <1>2, <1>10 DEF Structure, TablesDistinct
  <1>13. EntriesMatch' /\ NoTablesYet'
    BY <1>2, <1>8, <1>10 DEF Structure, EntriesMatch, NoTablesYet
  <1>14. Structure'
    BY <1>3, <1>9, <1>11, <1>12, <1>13 DEF Structure
  <1>15. LowLost
    <2>1. ASSUME NEW d \in HeapPages \ {0}, NEW w \in VPages PROVE Walk(d, w)' = Walk(d, w)
      <3>1. tables'[d][dir_index(w)] = tables[d][dir_index(w)]
        BY <1>6
      <3>2. \A t : IsTable(t) => pages'[t] = pages[t]
        BY <1>6 DEF IsTable
      <3> QED  BY <3>1, <3>2 DEF Walk
    <2>2. ASSUME NEW w \in VPages PROVE Walk(0, w)' \in {NoEntry, Garbage}
      <3>1. ~IsTable(tables'[0][dir_index(w)])
        BY <1>4, <1>7, PageIndexes
      <3> QED  BY <3>1 DEF Walk
    <2> QED  BY <2>1, <2>2 DEF LowLost
  <1> QED  BY <1>1, <1>3, <1>14, <1>15 DEF MapOutcome

LEMMA MapAstray ==
  ASSUME Structure, NEW v \in VPages, NEW e, GoAstray(v),
         UNCHANGED <<directories, physical_addr, current_directory, cr3>>,
         frames' \in Bitmaps
  PROVE  Structure' /\ MapOutcome(v, e)
  <1>1. /\ Table(v) # 0 /\ ~IsTable(Table(v)) /\ lost' \in BOOLEAN
        /\ UNCHANGED <<hvars, tables, tables_physical, pages>>
    BY DEF GoAstray
  <1>2. PagingTypeOK'
    BY <1>1 DEF Structure, PagingTypeOK, TypeOK, hvars, Bitmaps
  <1>3. Structure'
    BY <1>1, <1>2 DEF Structure, HeapInv, TypeOK, BlocksDisjoint, BlocksInHeap, BlocksAligned, End,
           DirectoriesOwned, TablesOwned, TablesDistinct, EntriesMatch, NoTablesYet, BlockAt, hvars
  <1>4. AllKept /\ Room' = Room
    BY <1>1 DEF AllKept, Walk, Room, hvars
  <1> QED  BY <1>1, <1>3, <1>4 DEF MapOutcome

LEMMA MapPage ==
  ASSUME Structure, NEW v \in VPages, NEW p \in VPages, NEW fl \in SUBSET Flags,
         map_page(v, p * PAGE_SIZE, fl),
         UNCHANGED <<directories, physical_addr, current_directory, cr3>>,
         frames' \in Bitmaps
  PROVE  Structure' /\ MapOutcome(v, [addr |-> p * PAGE_SIZE, flags |-> fl])
  <1> DEFINE e == Entry(p * PAGE_SIZE, fl)
  <1>1. e \in Entries /\ e = [addr |-> p * PAGE_SIZE, flags |-> fl]
    BY EntryIsEntry, EntryAt
  <1>2. MapInTable(v, e) \/ MapInNewTable(v, e) \/ MapInLowMemory(v, e) \/ GoAstray(v)
    BY DEF map_page
  <1> HIDE DEF e
  <1>3. ASSUME MapInTable(v, e) PROVE Structure' /\ MapOutcome(v, e)
    BY <1>1, <1>3, MapExisting DEF MapInTable
  <1>4. ASSUME MapInNewTable(v, e) PROVE Structure' /\ MapOutcome(v, e)
    BY <1>1, <1>4, MapNew DEF MapInNewTable
  <1> QED  BY <1>1, <1>2, <1>3, <1>4, MapLow, MapAstray
-----------------------------------------------------------------------------
(***************************************************************************)
(* The frame bitmap.                                                       *)
(***************************************************************************)
LEMMA FrameIndexes ==
  ASSUME NEW f \in 0..NFrames-1
  PROVE  /\ f \in Nat /\ f \div WordBits \in 0 .. NFrames \div WordBits - 1
         /\ f % WordBits \in 0..WordBits-1
  <1>1. f \in Nat /\ WordBits \in Nat \ {0} /\ NFrames \in Nat
    BY PagingAssumption
  <1>2. PICK words \in Nat : words = NFrames \div WordBits /\ NFrames = words * WordBits
    BY <1>1, PagingAssumption, DivideExact
  <1>3. f < words * WordBits
    BY <1>1, <1>2
  <1>4. f \div WordBits \in 0 .. words - 1
    BY <1>1, <1>3, QuotientBelow
  <1> QED  BY <1>1, <1>2, <1>4, Divide

\* Setting a bit sets it and clears none; clearing one clears no other.
LEMMA SetBit ==
  ASSUME frames \in Bitmaps, NEW f \in 0..NFrames-1,
         frames' = [frames EXCEPT ![f \div WordBits] = @ \cup {f % WordBits}]
  PROVE  /\ frames' \in Bitmaps /\ Bit(f)'
         /\ \A g \in 0..NFrames-1 : Bit(g) => Bit(g)'
  BY FrameIndexes DEF Bit, Bitmaps

LEMMA ClearBit ==
  ASSUME frames \in Bitmaps, NEW f \in 0..NFrames-1,
         frames' = [frames EXCEPT ![f \div WordBits] = @ \ {f % WordBits}]
  PROVE  /\ frames' \in Bitmaps
         /\ \A g \in 0..NFrames-1 : g # f /\ Bit(g) => Bit(g)'
  <1>1. frames' \in Bitmaps
    BY FrameIndexes DEF Bitmaps
  <1>2. ASSUME NEW g \in 0..NFrames-1, g # f, Bit(g) PROVE Bit(g)'
    <2>1. g \in Nat /\ f \in Nat /\ WordBits \in Nat \ {0}
      BY FrameIndexes, PagingAssumption
    <2>2. g \div WordBits # f \div WordBits \/ g % WordBits # f % WordBits
      <3> SUFFICES ASSUME g \div WordBits = f \div WordBits, g % WordBits = f % WordBits
                   PROVE  FALSE
        OBVIOUS
      <3>1. g = f
        BY <2>1, SameQuotient
      <3> QED  BY <3>1, <1>2
    <2> QED  BY <1>2, <2>2, FrameIndexes DEF Bit, Bitmaps
  <1> QED  BY <1>1, <1>2

LEMMA FirstFree ==
  \/ first_free_frame \in 0..NFrames-1 /\ ~Bit(first_free_frame)
  \/ first_free_frame = WORD - 1
  <1> DEFINE free == {f \in 0..NFrames-1 : ~Bit(f)}
  <1>1. CASE free = {}
    BY <1>1 DEF first_free_frame
  <1>2. CASE free # {}
    <2>1. free \in SUBSET Nat
      BY PagingAssumption
    <2>2. Min(free) \in free
      BY <1>2, <2>1, MinOfNaturals
    <2> QED  BY <1>2, <2>2 DEF first_free_frame
  <1> QED  BY <1>1, <1>2

LEMMA ModUnique ==
  ASSUME NEW n \in Nat \ {0}, NEW q \in Nat, NEW r \in 0..n-1
  PROVE  (n * q + r) % n = r
  BY SMT

\* What alloc_frame multiplies out: a free frame, or, without one, the last
\* page of the address space; never the value it tests for.
LEMMA Physical ==
  \E p \in VPages :
    /\ (first_free_frame * PAGE_SIZE) % WORD = p * PAGE_SIZE
    /\ (first_free_frame * PAGE_SIZE) % WORD # WORD - 1
    /\ \/ p \in 0..NFrames-1 /\ ~Bit(p)
       \/ p >= NFrames
  <1> DEFINE n == PAGE_ENTRIES * PAGE_ENTRIES
  <1>1. /\ n \in Nat /\ n * PAGE_SIZE = WORD /\ VPages = 0..n-1
        /\ PAGE_SIZE \in Nat \ {0} /\ NFrames \in Nat /\ NFrames < n
    BY Geometry, PagingAssumption
  <1> HIDE DEF n
  <1>m. \A p \in Nat : p * PAGE_SIZE # WORD - 1
    <2> SUFFICES ASSUME NEW p \in Nat, p * PAGE_SIZE = WORD - 1 PROVE FALSE
      OBVIOUS
    <2>1. n # 0 /\ n - 1 \in Nat /\ PAGE_SIZE - 1 \in 0..PAGE_SIZE-1 /\ PAGE_SIZE > 1
      BY <1>1, PageAssumption
    <2>2. WORD - 1 = PAGE_SIZE * (n - 1) + (PAGE_SIZE - 1)
      BY <1>1, <2>1
    <2>3. (WORD - 1) % PAGE_SIZE = PAGE_SIZE - 1
      BY <1>1, <2>1, <2>2, ModUnique
    <2>4. (p * PAGE_SIZE) % PAGE_SIZE = 0
      BY <1>1, QuotientOfMultiple
    <2>5. PAGE_SIZE - 1 # 0
      BY <1>1, <2>1
    <2>6. (WORD - 1) % PAGE_SIZE = 0
      BY <2>4, Zenon
    <2> QED  BY ONLY <2>3, <2>5, <2>6
  <1>2. CASE first_free_frame \in 0..NFrames-1 /\ ~Bit(first_free_frame)
    <2> DEFINE p == first_free_frame
    <2>1. p \in VPages /\ p \in Nat /\ p < n
      BY <1>1, <1>2
    <2>2. p * PAGE_SIZE \in Nat /\ p * PAGE_SIZE < n * PAGE_SIZE
      <3> HIDE DEF p
      <3> QED  BY <1>1, <2>1
    <2>3. (p * PAGE_SIZE) % WORD = p * PAGE_SIZE
      BY <1>1, <2>2, WrapFree
    <2> QED  BY <1>2, <1>m, <2>1, <2>3
  <1>3. CASE first_free_frame = WORD - 1
    <2>1. n - 1 \in VPages /\ n - 1 >= NFrames
      BY <1>1
    <2>2. WORD \in Nat \ {0} /\ PAGE_SIZE <= WORD
      BY <1>1
    <2>3. (WORD - 1) * PAGE_SIZE = WORD * (PAGE_SIZE - 1) + (WORD - PAGE_SIZE)
      BY <1>1, <2>2
    <2>4. PAGE_SIZE - 1 \in Nat /\ WORD - PAGE_SIZE \in 0..WORD-1
      BY <1>1, <2>2
    <2>5. ((WORD - 1) * PAGE_SIZE) % WORD = WORD - PAGE_SIZE
      BY <2>2, <2>3, <2>4, ModUnique
    <2>6. WORD - PAGE_SIZE = (n - 1) * PAGE_SIZE
      BY <1>1
    <2>7. n - 1 \in Nat
      BY <1>1, <2>1
    <2> QED  BY <1>3, <1>m, <2>1, <2>5, <2>6, <2>7
  <1> QED  BY <1>2, <1>3, FirstFree

LEMMA FrameType ==
  ASSUME Structure, NEW x \in UserPages
  PROVE  FrameOf(x) \in Nat
  <1>1. x[1] \in HeapPages /\ x[2] \in VPages /\ "USER" \in Walk(x[1], x[2]).flags
    BY TableTypes DEF UserPages
  <1>2. Walk(x[1], x[2]) \in Entries \cup {NoEntry, Garbage}
    BY <1>1, WalkTypes
  <1>3. Walk(x[1], x[2]) \in Entries
    BY <1>1, <1>2 DEF NoEntry, Garbage
  <1>4. PICK p \in VPages : Walk(x[1], x[2]).addr = p * PAGE_SIZE
    BY <1>3 DEF Entries
  <1> QED  BY <1>4, PageIndexes, Geometry, QuotientOfMultiple DEF FrameOf

\* If one page of the current directory changes, to nothing, to an entry of
\* the kernel or to a frame that was free, no frame gets a second owner.
LEMMA OnePage ==
  ASSUME Structure, FramesOwned, NEW v \in VPages, OthersKept(v), UNCHANGED directories,
         \A f \in 0..NFrames-1 : Bit(f) => Bit(f)',
         NEW c, c = current_directory, NEW e, Walk(c, v)' = e,
         "USER" \in e.flags =>
           /\ e.addr \div PAGE_SIZE \in Nat
           /\ \/ e.addr \div PAGE_SIZE >= NFrames
              \/ Bit(e.addr \div PAGE_SIZE)' /\ ~Bit(e.addr \div PAGE_SIZE)
  PROVE  FramesOwned'
  <1> DEFINE own == <<c, v>>
             f == e.addr \div PAGE_SIZE
  <1>1. ASSUME NEW x \in UserPages', x # own
        PROVE  x \in UserPages /\ FrameOf(x)' = FrameOf(x) /\ FrameOf(x) \in Nat
    <2>1. x \in directories \X VPages /\ "USER" \in Walk(x[1], x[2])'.flags
      BY DEF UserPages
    <2>2. Walk(x[1], x[2])' = Walk(x[1], x[2])
      BY <1>1, <2>1, TableTypes DEF OthersKept
    <2>3. x \in UserPages
      BY <2>1, <2>2 DEF UserPages
    <2> QED  BY <2>2, <2>3, FrameType DEF FrameOf
  <1>2. own \in UserPages' => FrameOf(own)' = f /\ "USER" \in e.flags
    <2>1. own[1] = c /\ own[2] = v
      OBVIOUS
    <2>2. Walk(own[1], own[2])' = e
      BY <2>1
    <2> QED  BY <2>2 DEF UserPages, FrameOf
  <1> SUFFICES ASSUME NEW x \in UserPages', FrameOf(x)' < NFrames
               PROVE  /\ Bit(FrameOf(x))'
                      /\ \A y \in UserPages' \ {x} : FrameOf(y)' # FrameOf(x)'
    BY DEF FramesOwned
  <1>n. NFrames \in Nat
    BY PagingAssumption
  <1>3. CASE x = own
    <2>1. FrameOf(x)' = f /\ f \in Nat /\ f < NFrames /\ Bit(f)' /\ ~Bit(f)
      BY <1>2, <1>3, <1>n
    <2>2. ASSUME NEW y \in UserPages' \ {x}, FrameOf(y)' = f PROVE FALSE
      <3>1. y \in UserPages /\ FrameOf(y) = f
        BY <1>1, <1>3, <2>2
      <3> QED  BY <2>1, <3>1 DEF FramesOwned
    <2>3. Bit(FrameOf(x))'
      BY <2>1 DEF Bit
    <2> QED  BY <2>1, <2>2, <2>3
  <1>4. CASE x # own
    <2>0. PICK g : g = FrameOf(x)
      OBVIOUS
    <2>1. x \in UserPages /\ FrameOf(x)' = g /\ g \in Nat /\ g < NFrames
      BY <1>1, <1>4, <2>0
    <2>2. Bit(g) /\ \A y \in UserPages \ {x} : FrameOf(y) # g
      BY <2>0, <2>1 DEF FramesOwned
    <2>3. Bit(FrameOf(x))'
      <3>1. g \in 0..NFrames-1
        BY <2>1, <1>n
      <3>2. Bit(g)'
        BY <2>2, <3>1
      <3> QED  BY <2>1, <3>2 DEF Bit
    <2>4. ASSUME NEW y \in UserPages' \ {x} PROVE FrameOf(y)' # g
      <3>1. CASE y = own
        <4>1. FrameOf(y)' = f /\ "USER" \in e.flags
          BY <1>2, <3>1
        <4>2. f # g
          BY <4>1, <2>1, <2>2, <1>n
        <4> QED  BY <4>1, <4>2
      <3>2. CASE y # own
        BY <1>1, <2>2, <3>2
      <3> QED  BY <3>1, <3>2
    <2> QED  BY <2>1, <2>3, <2>4
  <1> QED  BY <1>3, <1>4
-----------------------------------------------------------------------------
(***************************************************************************)
(* The steps.                                                              *)
(***************************************************************************)
\* No user page is added or moved and the bits of those that are stay set.
LEMMA FramesKept ==
  ASSUME FramesOwned,
         \A x \in UserPages' : x \in UserPages /\ FrameOf(x)' = FrameOf(x),
         \A f \in {FrameOf(x) : x \in UserPages} : f < NFrames /\ Bit(f) => Bit(f)'
  PROVE  FramesOwned'
  <1> SUFFICES ASSUME NEW x \in UserPages', FrameOf(x)' < NFrames
               PROVE  /\ Bit(FrameOf(x))'
                      /\ \A y \in UserPages' \ {x} : FrameOf(y)' # FrameOf(x)'
    BY DEF FramesOwned
  <1>1. PICK g : g = FrameOf(x)
    OBVIOUS
  <1>2. x \in UserPages /\ FrameOf(x)' = g /\ g < NFrames
    BY <1>1
  <1>3. Bit(g) /\ \A y \in UserPages \ {x} : FrameOf(y) # g
    BY <1>1, <1>2 DEF FramesOwned
  <1>4. Bit(g)'
    BY <1>1, <1>2, <1>3
  <1> QED  BY <1>2, <1>3, <1>4 DEF Bit

\* The user pages there are were there before.
LEMMA UsersKept ==
  ASSUME \A d \in directories', w \in VPages :
           "USER" \in Walk(d, w)'.flags => d \in directories /\ Walk(d, w)' = Walk(d, w)
  PROVE  \A x \in UserPages' : x \in UserPages /\ FrameOf(x)' = FrameOf(x)
  <1> SUFFICES ASSUME NEW x \in UserPages' PROVE x \in UserPages /\ FrameOf(x)' = FrameOf(x)
    OBVIOUS
  <1>1. x \in directories' \X VPages /\ "USER" \in Walk(x[1], x[2])'.flags
    BY DEF UserPages
  <1>2. x[1] \in directories /\ Walk(x[1], x[2])' = Walk(x[1], x[2])
    BY <1>1
  <1> QED  BY <1>1, <1>2 DEF UserPages, FrameOf

LEMMA BitsKept ==
  ASSUME Structure, \A f \in 0..NFrames-1 : Bit(f) => Bit(f)'
  PROVE  \A f \in {FrameOf(x) : x \in UserPages} : f < NFrames /\ Bit(f) => Bit(f)'
  <1> SUFFICES ASSUME NEW x \in UserPages, NEW f, f = FrameOf(x), f < NFrames, Bit(f) PROVE Bit(f)'
    OBVIOUS
  <1>1. f \in 0..NFrames-1
    BY FrameType, PagingAssumption
  <1> QED  BY <1>1

\* However map_page ends, no frame gets a second owner.
LEMMA MapFrames ==
  ASSUME PagingInv, NEW v \in VPages, NEW e, MapOutcome(v, e),
         UNCHANGED <<directories, current_directory>>,
         \A f \in 0..NFrames-1 : Bit(f) => Bit(f)',
         "USER" \in e.flags =>
           /\ e.addr \div PAGE_SIZE \in Nat
           /\ \/ e.addr \div PAGE_SIZE >= NFrames
              \/ Bit(e.addr \div PAGE_SIZE)' /\ ~Bit(e.addr \div PAGE_SIZE)
  PROVE  FramesOwned'
  <1>s. Structure /\ FramesOwned
    BY DEF PagingInv
  <1>1. CASE OthersKept(v) /\ Walk(current_directory, v)' = e
    <2>1. PICK c : c = current_directory
      OBVIOUS
    <2>2. Walk(c, v)' = e
      BY <1>1, <2>1 DEF Walk
    <2> QED  BY <1>s, <1>1, <2>1, <2>2, OnePage
  <1>2. CASE LowLost \/ AllKept
    <2>1. ASSUME NEW d \in directories', NEW w \in VPages, "USER" \in Walk(d, w)'.flags
          PROVE  d \in directories /\ Walk(d, w)' = Walk(d, w)
      <3>1. d \in directories /\ d \in HeapPages
        BY <1>s, TableTypes
      <3>2. CASE AllKept
        BY <3>1, <3>2 DEF AllKept
      <3>3. CASE LowLost
        <4>1. d # 0
          BY <2>1, <3>3, NoEntryFlags DEF LowLost
        <4> QED  BY <3>1, <3>3, <4>1 DEF LowLost
      <3> QED  BY <1>2, <3>2, <3>3
    <2>2. \A x \in UserPages' : x \in UserPages /\ FrameOf(x)' = FrameOf(x)
      BY <2>1, UsersKept
    <2> QED  BY <1>s, <2>2, BitsKept, FramesKept
  <1> QED  BY <1>1, <1>2 DEF MapOutcome

\* Nothing is mapped, unmapped or created, and no bit of a user page cleared.
LEMMA WalksKept ==
  ASSUME Structure, FramesOwned, UNCHANGED <<directories, tables, pages>>,
         \A f \in {FrameOf(x) : x \in UserPages} : f < NFrames /\ Bit(f) => Bit(f)'
  PROVE  FramesOwned'
  <1>1. \A d, w : Walk(d, w)' = Walk(d, w)
    BY DEF Walk
  <1>2. \A x \in UserPages' : x \in UserPages /\ FrameOf(x)' = FrameOf(x)
    BY <1>1, UsersKept
  <1> QED  BY <1>2, FramesKept

LEMMA PagingUnchanged ==
  ASSUME PagingInv, UNCHANGED <<hvars, pvars>>
  PROVE  PagingInv'
  <1>1. Structure'
    BY DEF PagingInv, Structure, HeapInv, TypeOK, BlocksDisjoint, BlocksInHeap, BlocksAligned, End,
           PagingTypeOK, DirectoriesOwned, TablesOwned, TablesDistinct, EntriesMatch, NoTablesYet,
           BlockAt, hvars, pvars
  <1>2. \A f : Bit(f)' = Bit(f)
    BY DEF Bit, pvars
  <1>3. FramesOwned'
    BY <1>2, WalksKept DEF PagingInv, pvars
  <1> QED  BY <1>1, <1>3 DEF PagingInv

LEMMA MapKeeps ==
  ASSUME PagingInv, NEW v \in VPages, Map(v)
  PROVE  PagingInv' /\ MapOutcome(v, [addr |-> v * PAGE_SIZE, flags |-> {"WRITABLE"}])
  <1> DEFINE e == [addr |-> v * PAGE_SIZE, flags |-> {"WRITABLE"}]
  <1>1. frames' \in Bitmaps /\ frames' = frames
    BY DEF Map, PagingInv, Structure, PagingTypeOK, Bitmaps
  <1>2. /\ map_page(v, v * PAGE_SIZE, {"WRITABLE"})
        /\ UNCHANGED <<directories, physical_addr, current_directory, cr3>>
        /\ {"WRITABLE"} \in SUBSET Flags
    BY DEF Map, Flags
  <1>3. Structure' /\ MapOutcome(v, e)
    BY <1>1, <1>2, MapPage DEF PagingInv
  <1>4. FramesOwned'
    <2>1. "USER" \notin e.flags /\ \A f : Bit(f)' = Bit(f)
      BY <1>1 DEF Bit
    <2> HIDE DEF e
    <2> QED  BY <1>2, <1>3, <2>1, MapFrames
  <1> QED  BY <1>3, <1>4 DEF PagingInv

LEMMA UnmapKeeps ==
  ASSUME PagingInv, NEW v \in VPages, unmap_page(v)
  PROVE  PagingInv' /\ MapOutcome(v, NoEntry)
  <1>s. Structure /\ frames \in Bitmaps
    BY DEF PagingInv, Structure, PagingTypeOK, Bitmaps
  <1>1. UNCHANGED <<hvars, directories, tables, tables_physical, physical_addr, frames,
                    current_directory, cr3>>
    BY DEF unmap_page
  <1>2. CASE Table(v) = 0 /\ UNCHANGED <<pages, lost>>
    <2>1. UNCHANGED <<hvars, pvars>>
      BY <1>1, <1>2 DEF pvars
    <2>2. OthersKept(v) /\ Walk(current_directory, v)' = NoEntry
      BY <1>1, <1>2 DEF OthersKept, Walk, Table
    <2>3. Room' = Room /\ Room \in Nat
      BY <1>s, <1>1, RoomIsNat DEF Room, hvars, Structure
    <2> QED  BY <2>1, <2>2, <2>3, PagingUnchanged DEF MapOutcome
  <1>3. CASE ~(Table(v) = 0 /\ UNCHANGED <<pages, lost>>)
    <2>1. Structure' /\ MapOutcome(v, NoEntry)
      BY <1>s, <1>1, <1>3, MapExisting, MapAstray DEF unmap_page
    <2>2. FramesOwned'
      <3>1. \A f : Bit(f)' = Bit(f)
        BY <1>1 DEF Bit
      <3> QED  BY <1>1, <2>1, <3>1, NoEntryFlags, MapFrames
    <2> QED  BY <2>1, <2>2 DEF PagingInv
  <1> QED  BY <1>2, <1>3

\* What alloc_frame maps a page to.
UserEntry(p) == [addr |-> p * PAGE_SIZE, flags |-> {"WRITABLE", "USER"}]

LEMMA AllocKeeps ==
  ASSUME PagingInv, NEW v \in VPages, alloc_frame(v, FALSE)
  PROVE  PagingInv' /\ \E p \in VPages : MapOutcome(v, UserEntry(p))
  <1> DEFINE physical == (first_free_frame * PAGE_SIZE) % WORD
             fl == {"WRITABLE", "USER"}
  <1>u. UNCHANGED <<directories, physical_addr, current_directory, cr3>>
    BY DEF alloc_frame
  <1>1. PICK p \in VPages : /\ physical = p * PAGE_SIZE /\ physical # WORD - 1
                            /\ \/ p \in 0..NFrames-1 /\ ~Bit(p)
                               \/ p >= NFrames
    BY Physical
  <1>2. set_frame(physical) /\ map_page(v, physical, fl)
    <2>1. {"WRITABLE"} \cup {"USER"} = fl
      OBVIOUS
    <2> QED  BY <1>1, <2>1 DEF alloc_frame
  <1>3. (p * PAGE_SIZE) \div PAGE_SIZE = p /\ p \in Nat /\ NFrames \in Nat
    BY PageIndexes, Geometry, QuotientOfMultiple, PagingAssumption
  <1>4. /\ frames' \in Bitmaps /\ \A g \in 0..NFrames-1 : Bit(g) => Bit(g)'
        /\ p < NFrames => Bit(p)' /\ ~Bit(p)
    <2>1. frames \in Bitmaps
      BY DEF PagingInv, Structure, PagingTypeOK, Bitmaps
    <2>2. CASE p >= NFrames
      <3>1. frames' = frames
        BY <1>1, <1>2, <1>3, <2>2 DEF set_frame
      <3> QED  BY <2>1, <2>2, <3>1, <1>3 DEF Bit
    <2>3. CASE ~(p >= NFrames)
      <3>1. frames' = [frames EXCEPT ![p \div WordBits] = @ \cup {p % WordBits}]
        BY <1>1, <1>2, <1>3, <2>3 DEF set_frame
      <3> QED  BY <1>1, <2>1, <2>3, <3>1, SetBit
    <2> QED  BY <2>2, <2>3
  <1>5. Structure' /\ MapOutcome(v, UserEntry(p))
    <2>1. fl \in SUBSET Flags
      BY DEF Flags
    <2> QED  BY <1>u, <1>1, <1>2, <1>4, <2>1, MapPage DEF PagingInv, UserEntry
  <1>6. FramesOwned'
    <2>1. UserEntry(p).addr \div PAGE_SIZE = p
      BY <1>3 DEF UserEntry
    <2> QED  BY <1>u, <1>3, <1>4, <1>5, <2>1, MapFrames
  <1> QED  BY <1>5, <1>6 DEF PagingInv

LEMMA ClearKeeps ==
  ASSUME PagingInv, NEW f \in 0..NFrames-1, clear_frame(f)
  PROVE  PagingInv'
  <1>1. /\ \A x \in UserPages : FrameOf(x) # f
        /\ UNCHANGED <<hvars, directories, tables, tables_physical, physical_addr, pages,
                       current_directory, cr3, lost>>
    BY DEF clear_frame
  <1>2. frames \in Bitmaps /\ frames' = [frames EXCEPT ![f \div WordBits] = @ \ {f % WordBits}]
    BY PagingAssumption DEF clear_frame, PagingInv, Structure, PagingTypeOK, Bitmaps
  <1>3. frames' \in Bitmaps /\ \A g \in 0..NFrames-1 : g # f /\ Bit(g) => Bit(g)'
    BY <1>2, ClearBit
  <1>4. Structure'
    <2>1. PagingTypeOK'
      BY <1>1, <1>3 DEF PagingInv, Structure, PagingTypeOK, TypeOK, hvars, Bitmaps
    <2> QED
      BY <1>1, <2>1 DEF PagingInv, Structure, HeapInv, TypeOK, BlocksDisjoint, BlocksInHeap,
           BlocksAligned, End, DirectoriesOwned, TablesOwned, TablesDistinct, EntriesMatch, NoTablesYet,
           BlockAt, hvars
  <1>5. FramesOwned'
    <2>1. ASSUME NEW x \in UserPages, NEW g, g = FrameOf(x), g < NFrames, Bit(g) PROVE Bit(g)'
      <3>1. g \in 0..NFrames-1 /\ g # f
        BY <1>1, <2>1, FrameType, PagingAssumption DEF PagingInv
      <3> QED  BY <1>3, <2>1, <3>1
    <2> QED  BY <1>1, <2>1, WalksKept DEF PagingInv
  <1> QED  BY <1>4, <1>5 DEF PagingInv

LEMMA SwitchKeeps ==
  ASSUME PagingInv, NEW dir \in directories, switch_page_directory(dir)
  PROVE  PagingInv'
  <1>1. /\ current_directory' = dir /\ cr3' = physical_addr[dir]
        /\ UNCHANGED <<hvars, directories, tables, tables_physical, physical_addr, pages, frames, lost>>
    BY DEF switch_page_directory
  <1>2. PagingTypeOK'
    BY <1>1, TableTypes DEF PagingInv, Structure, PagingTypeOK, TypeOK, hvars
  <1>3. Structure'
    BY <1>1, <1>2 DEF PagingInv, Structure, HeapInv, TypeOK, BlocksDisjoint, BlocksInHeap,
         BlocksAligned, End, DirectoriesOwned, TablesOwned, TablesDistinct, EntriesMatch, NoTablesYet,
         BlockAt, hvars
  <1>4. \A f : Bit(f)' = Bit(f)
    BY <1>1 DEF Bit
  <1>5. FramesOwned'
    BY <1>1, <1>4, WalksKept DEF PagingInv
  <1> QED  BY <1>3, <1>5 DEF PagingInv

\* The front of the heap never moves back.
LEMMA HeapMovesOn ==
  ASSUME HeapInv, Next
  PROVE  heap_current <= heap_current'
  <1>1. heap_current \in Nat /\ heap_current <= heap_end
    BY HeapAssumption DEF HeapInv, TypeOK
  <1>2. ASSUME NEW block \in blocks, kfree(block) PROVE heap_current <= heap_current'
    BY <1>1, <1>2 DEF kfree, hvars
  <1>3. ASSUME NEW request \in Sizes, NEW front \in Nat, heap_current <= front, front <= heap_end,
               heap_current' \in {front, (front + AlignUp(request, 4)) % WORD}
        PROVE  heap_current <= heap_current'
    <2>1. AlignUp(request, 4) \in Nat /\ AlignUp(request, 4) <= request + 3 /\ request \in Nat
          /\ heap_end + request + 3 < WORD /\ heap_end \in Nat
      <3>1. request \in Nat /\ heap_end + request + 3 < WORD /\ heap_end \in Nat
        BY SizesAssumption, HeapAssumption
      <3>2. request + 4 - 1 < WORD /\ request + 4 - 1 = request + 3
        BY <3>1, WordAssumption
      <3>3. AlignUp(request, 4) \in Nat /\ AlignUp(request, 4) <= request + 4 - 1
        BY <3>1, <3>2, AlignUpBounds
      <3> QED  BY <3>1, <3>2, <3>3
    <2>2. front + AlignUp(request, 4) < WORD
      BY <1>3, <2>1, WordAssumption
    <2>3. (front + AlignUp(request, 4)) % WORD = front + AlignUp(request, 4)
      BY <2>1, <2>2, WrapFree
    <2>4. heap_current' = front \/ heap_current' = front + AlignUp(request, 4)
      BY <1>3, <2>3
    <2> QED  BY <1>1, <1>3, <2>1, <2>4
  <1>4. ASSUME NEW request \in Sizes, kmalloc(request) PROVE heap_current <= heap_current'
    <2>1. PICK front \in Nat : front = heap_current
      BY <1>1
    <2>2. heap_current <= front /\ front <= heap_end
          /\ heap_current' \in {front, (front + AlignUp(request, 4)) % WORD}
      BY <1>1, <1>4, <2>1 DEF kmalloc, Allocate
    <2> QED  BY <1>3, <2>2
  <1>5. ASSUME NEW request \in Sizes, kmalloc_a(request) PROVE heap_current <= heap_current'
    <2>1. PICK front \in Nat : front = AlignUp(heap_current, PAGE_SIZE)
      BY AlignedFront
    <2>2. heap_current <= front /\ front <= heap_end
          /\ heap_current' \in {front, (front + AlignUp(request, 4)) % WORD}
      BY <1>5, <2>1, AlignedFront DEF kmalloc_a, Allocate
    <2> QED  BY <1>3, <2>2
  <1> QED  BY <1>2, <1>4, <1>5 DEF Next

\* Others allocate.
LEMMA OthersKeep ==
  ASSUME PagingInv, Next, UNCHANGED pvars
  PROVE  PagingInv' /\ Room' <= Room
  <1>1. HeapInv' /\ blocks \subseteq blocks'
    BY HeapStep DEF PagingInv, Structure, Next, kmalloc, kmalloc_a, kfree, Allocate, hvars
  <1>2. PagingTypeOK'
    BY <1>1 DEF PagingInv, Structure, PagingTypeOK, HeapInv, pvars
  <1>3. Structure'
    BY <1>1, <1>2 DEF PagingInv, Structure, DirectoriesOwned, TablesOwned, TablesDistinct, EntriesMatch,
                      NoTablesYet, BlockAt, pvars
  <1>4. \A f : Bit(f)' = Bit(f)
    BY DEF Bit, pvars
  <1>5. FramesOwned'
    BY <1>4, WalksKept DEF PagingInv, pvars
  <1>6. Room' <= Room
    <2>1. heap_current \in HEAP_START..heap_end /\ heap_current' \in HEAP_START..heap_end
      BY <1>1 DEF PagingInv, Structure, HeapInv, TypeOK
    <2>2. heap_current <= heap_current'
      BY HeapMovesOn DEF PagingInv, Structure
    <2> QED  BY <2>1, <2>2, RoomShrinks, HeapAssumption DEF Room
  <1> QED  BY <1>3, <1>5, <1>6 DEF PagingInv

\* A new directory is behind all blocks and maps nothing, as it did before;
\* without memory for it, the directory at 0 loses what it maps.
LEMMA CreateKeeps ==
  ASSUME PagingInv, create_page_directory
  PROVE  /\ PagingInv'
         /\ directories' = directories \cup {result'} /\ current_directory' = current_directory
         /\ \A d \in HeapPages \ {0}, w \in VPages : Walk(d, w)' = Walk(d, w)
         /\ \/ /\ result' # 0 /\ result' \in HeapPages \ directories
               /\ \A w \in VPages : Walk(0, w)' = Walk(0, w)
               /\ Room > DIRECTORY_SIZE /\ Room' < Room
            \/ /\ result' = 0
               /\ \A w \in VPages : Walk(0, w)' = NoEntry
               /\ Room <= DIRECTORY_SIZE /\ Room' = Room
  <1> DEFINE t == result'
             none == [i \in Index |-> 0]
             low == Cleared(0)
  <1>s. Structure /\ FramesOwned
    BY DEF PagingInv
  <1>1. /\ kmalloc_a(DIRECTORY_SIZE)
        /\ directories' = directories \cup {t}
        /\ tables' = [tables EXCEPT ![t] = none]
        /\ tables_physical' = [tables_physical EXCEPT ![t] = [i \in Index |-> NoEntry]]
        /\ physical_addr' = [physical_addr EXCEPT ![t] = t]
        /\ pages' = IF t = 0 THEN [pages EXCEPT ![0] = low] ELSE pages
        /\ UNCHANGED <<frames, current_directory, cr3, lost>>
    BY DEF create_page_directory
  <1>2. /\ HeapInv' /\ t \in HeapPages /\ 0 \in HeapPages
        /\ \/ t = 0 /\ blocks' = blocks /\ Room <= DIRECTORY_SIZE /\ Room' = Room
           \/ /\ t # 0 /\ t \notin directories
              /\ blocks' = blocks \cup {[addr |-> t, size |-> DIRECTORY_SIZE]}
              /\ Room > DIRECTORY_SIZE /\ Room' < Room
    <2>1. /\ HeapInv' /\ t \in HeapPages
          /\ \/ t = 0 /\ blocks' = blocks /\ Room <= DIRECTORY_SIZE /\ Room' = Room
             \/ /\ t # 0
                /\ blocks' = blocks \cup {[addr |-> t, size |-> DIRECTORY_SIZE]}
                /\ \A b \in blocks : b.addr + b.size <= t
                /\ Room > DIRECTORY_SIZE /\ Room' < Room
      BY <1>s, <1>1, NewBlock DEF Structure
    <2>2. t \in Nat
      BY <2>1, HeapPageElim
    <2> QED  BY <1>s, <2>1, <2>2, BehindAll, ZeroIsHeapPage
  <1>n. \A i \in Index : none[i] = 0
    OBVIOUS
  <1> HIDE DEF none, low
  <1>3. \A d \in HeapPages : tables'[d] = IF d = t THEN none ELSE tables[d]
    BY <1>s, <1>1, <1>2, PagingTypes DEF Structure
  <1>4. \A d \in HeapPages : d # t => tables_physical'[d] = tables_physical[d]
    BY <1>s, <1>1, PagingTypes DEF Structure
  <1>p. \A u \in HeapPages \ {0} : pages'[u] = pages[u]
    BY <1>s, <1>1, PagingTypes DEF Structure
  <1>5. PagingTypeOK'
    <2>1. none \in [Index -> HeapPages] /\ none \in [Index -> TableWords]
      BY <1>2, ContentTypes DEF none
    <2>2. tables' \in [HeapPages -> [Index -> TableWords]]
          /\ \A d \in HeapPages \ {0} : tables'[d] \in [Index -> HeapPages]
      BY <1>s, <1>1, <1>2, <1>3, <2>1, PagingTypes DEF Structure
    <2>3. tables_physical' \in [HeapPages -> [Index -> PhysicalEntries]]
      <3>1. [i \in Index |-> NoEntry] \in [Index -> PhysicalEntries]
        BY DEF PhysicalEntries
      <3> QED  BY <1>s, <1>1, <1>2, <3>1, PagingTypes DEF Structure
    <2>4. physical_addr' \in [HeapPages -> HeapPages]
      BY <1>s, <1>1, <1>2, PagingTypes DEF Structure
    <2>5. pages' \in [HeapPages -> [Index -> Contents]]
      <3>1. low \in [Index -> Contents]
        BY ContentTypes DEF low, Cleared
      <3> QED  BY <1>s, <1>1, <1>2, <3>1, PagingTypes DEF Structure
    <2>6. \A u \in HeapPages \ {0} : pages'[u] \in [Index -> Entries \cup {NoEntry, Garbage}]
      BY <1>s, <1>p, TableTypes
    <2>7. directories' \subseteq HeapPages /\ current_directory' \in directories'
      BY <1>s, <1>1, <1>2, PagingTypes DEF Structure
    <2>8. cr3' \in HeapPages /\ frames' \in Bitmaps /\ lost' \in BOOLEAN
      BY <1>s, <1>1, PagingTypes DEF Structure
    <2> QED
      BY <1>2, <2>2, <2>3, <2>4, <2>5, <2>6, <2>7, <2>8
      DEF PagingTypeOK, HeapInv, TableWords, PhysicalEntries, Contents, Bitmaps
  <1>6. DirectoriesOwned'
    BY <1>s, <1>1, <1>2 DEF Structure, DirectoriesOwned, BlockAt
  <1>7. ASSUME NEW d \in directories', NEW i \in Index, IsTable(tables'[d][i])
        PROVE  d \in directories /\ d # t /\ d \in HeapPages /\ tables'[d][i] = tables[d][i]
    <2>1. d \in HeapPages
      BY <1>s, <1>1, <1>2, TableTypes
    <2>2. d # t
      BY <1>n, <1>3, <1>7, <2>1, ZeroIsNoTable
    <2> QED  BY <1>1, <1>3, <2>1, <2>2
  <1>8. TablesOwned' /\ TablesDistinct' /\ EntriesMatch'
    <2>1. TablesOwned'
      BY <1>s, <1>2, <1>7 DEF Structure, TablesOwned, BlockAt
    <2>2. TablesDistinct'
      <3> SUFFICES ASSUME NEW d \in directories', NEW f \in directories', NEW j \in Index, NEW k \in Index,
                          IsTable(tables'[d][j]), tables'[d][j] = tables'[f][k]
                   PROVE  d = f /\ j = k
        BY DEF TablesDistinct
      <3> QED  BY <1>s, <1>7 DEF Structure, TablesDistinct
    <2>3. EntriesMatch'
      BY <1>s, <1>4, <1>7 DEF Structure, EntriesMatch
    <2> QED  BY <2>1, <2>2, <2>3
  <1>9. NoTablesYet'
    BY <1>s, <1>1, <1>3 DEF Structure, NoTablesYet
  <1>10. Structure'
    BY <1>2, <1>5, <1>6, <1>8, <1>9 DEF Structure
  <1>11. ASSUME NEW d \in HeapPages, d # 0 \/ t # 0, NEW w \in VPages PROVE Walk(d, w)' = Walk(d, w)
    <2>1. tables'[d][dir_index(w)] = tables[d][dir_index(w)]
      <3>1. CASE d # t
        BY <1>3, <3>1
      <3>2. CASE d = t
        <4>1. tables[d][dir_index(w)] \in HeapPages /\ ~IsTable(tables[d][dir_index(w)])
          BY <1>s, <1>2, <1>11, <3>2, PageIndexes, TableTypes
        <4>2. tables[d][dir_index(w)] = 0
          BY <4>1 DEF IsTable
        <4> QED  BY <1>n, <1>3, <3>2, <4>2, PageIndexes
      <3> QED  BY <3>1, <3>2
    <2>2. \A u : IsTable(u) => pages'[u] = pages[u]
      BY <1>p DEF IsTable
    <2> QED  BY <2>1, <2>2 DEF Walk
  <1>12. t = 0 => \A w \in VPages : Walk(0, w)' = NoEntry
    BY <1>n, <1>2, <1>3, PageIndexes DEF Walk
  <1>13. t # 0 => \A w \in VPages : Walk(t, w) = NoEntry
    <2> SUFFICES ASSUME t # 0, NEW w \in VPages PROVE Walk(t, w) = NoEntry
      OBVIOUS
    <2>1. tables[t][dir_index(w)] \in HeapPages /\ ~IsTable(tables[t][dir_index(w)])
      BY <1>s, <1>2, PageIndexes, TableTypes
    <2>2. tables[t][dir_index(w)] = 0
      BY <2>1 DEF IsTable
    <2> QED  BY <2>2 DEF Walk
  <1>14. FramesOwned'
    <2>1. ASSUME NEW d \in directories', NEW w \in VPages, "USER" \in Walk(d, w)'.flags
          PROVE  d \in directories /\ Walk(d, w)' = Walk(d, w)
      <3>1. d \in HeapPages /\ (d \in directories \/ d = t)
        BY <1>s, <1>1, <1>2, TableTypes
      <3>2. d # 0 \/ t # 0
        BY <1>12, <2>1, NoEntryFlags
      <3>3. Walk(d, w)' = Walk(d, w)
        BY <1>11, <3>1, <3>2
      <3>4. d # t
        <4>1. ASSUME d = t PROVE FALSE
          <5>1. Walk(d, w) = NoEntry
            BY <1>13, <3>2, <4>1
          <5> QED  BY <2>1, <3>3, <5>1, NoEntryFlags
        <4> QED  BY <4>1
      <3> QED  BY <3>1, <3>3, <3>4
    <2>2. \A x \in UserPages' : x \in UserPages /\ FrameOf(x)' = FrameOf(x)
      BY <2>1, UsersKept
    <2>3. \A f : Bit(f)' = Bit(f)
      BY <1>1 DEF Bit
    <2> QED  BY <1>s, <2>2, <2>3, FramesKept
  <1>15. PagingInv'
    BY <1>10, <1>14 DEF PagingInv
  <1> QED  BY <1>1, <1>2, <1>11, <1>12, <1>15

LEMMA PagingStep == PagingInv /\ [PagingNext]_<<hvars, pvars>> => PagingInv'
  <1> SUFFICES ASSUME PagingInv, [PagingNext]_<<hvars, pvars>> PROVE PagingInv'
    OBVIOUS
  <1>1. ASSUME NEW v \in MapPages, Map(v) \/ unmap_page(v) \/ alloc_frame(v, FALSE) PROVE PagingInv'
    <2>1. v \in VPages
      BY PagingAssumption
    <2> QED  BY <1>1, <2>1, MapKeeps, UnmapKeeps, AllocKeeps
  <1>2. ASSUME NEW f \in 0..NFrames-1, clear_frame(f) PROVE PagingInv'
    BY <1>2, ClearKeeps
  <1>3. ASSUME create_page_directory PROVE PagingInv'
    BY <1>3, CreateKeeps
  <1>4. ASSUME NEW d \in directories, switch_page_directory(d) PROVE PagingInv'
    BY <1>4, SwitchKeeps
  <1>5. ASSUME Next, UNCHANGED pvars PROVE PagingInv'
    BY <1>5, OthersKeep
  <1>6. ASSUME UNCHANGED <<hvars, pvars>> PROVE PagingInv'
    BY <1>6, PagingUnchanged
  <1> QED  BY <1>1, <1>2, <1>3, <1>4, <1>5, <1>6 DEF PagingNext
-----------------------------------------------------------------------------
(***************************************************************************)
(* What paging_init leaves: the bitmap, kernel_directory and the tables of *)
(* the identity map, one behind the other.                                 *)
(***************************************************************************)
LEMMA BootLayout ==
  /\ BITMAP_SIZE \in Nat /\ BITMAP_SIZE % 4 = 0
  /\ kernel_directory \in Nat /\ kernel_directory % PAGE_SIZE = 0
  /\ HEAP_START + BITMAP_SIZE <= kernel_directory
  /\ KernelTable(0) \in Nat /\ KernelTable(0) % PAGE_SIZE = 0
  /\ KernelTable(0) = AlignUp(kernel_directory + DIRECTORY_SIZE, PAGE_SIZE)
  /\ kernel_directory + DIRECTORY_SIZE <= KernelTable(0)
  /\ KernelTables \in Nat \ {0} /\ KernelTables * PAGE_ENTRIES = Identity
  /\ KernelTables <= PAGE_ENTRIES
  <1>1. /\ PAGE_SIZE \in Nat \ {0} /\ DIRECTORY_SIZE \in Nat /\ PAGE_ENTRIES \in Nat \ {0}
        /\ HEAP_START \in Nat /\ heap_end \in Nat /\ WORD \in Nat
        /\ heap_end + PAGE_SIZE < WORD
    BY Geometry, HeapAssumption, SizesAssumption, WordAssumption
  <1>2. BITMAP_SIZE \in Nat /\ BITMAP_SIZE % 4 = 0
    <2>1. PICK words \in Nat : words = NFrames \div WordBits
      BY PagingAssumption, Divide
    <2> QED  BY <2>1 DEF BITMAP_SIZE
  <1>3. /\ kernel_directory \in Nat /\ kernel_directory % PAGE_SIZE = 0
        /\ HEAP_START + BITMAP_SIZE <= kernel_directory
    <2>1. HEAP_START + BITMAP_SIZE \in Nat /\ HEAP_START + BITMAP_SIZE + PAGE_SIZE - 1 < WORD
      BY <1>1, <1>2, PagingAssumption
    <2> QED  BY <1>1, <2>1, AlignUpBounds DEF kernel_directory
  <1>4. /\ KernelTable(0) \in Nat /\ KernelTable(0) % PAGE_SIZE = 0
        /\ KernelTable(0) = AlignUp(kernel_directory + DIRECTORY_SIZE, PAGE_SIZE)
        /\ kernel_directory + DIRECTORY_SIZE <= KernelTable(0)
    <2> DEFINE after == kernel_directory + DIRECTORY_SIZE
    <2>1. after \in Nat /\ after + PAGE_SIZE - 1 < WORD
      BY <1>1, <1>3, PagingAssumption
    <2> HIDE DEF after
    <2>2. /\ AlignUp(after, PAGE_SIZE) \in Nat /\ AlignUp(after, PAGE_SIZE) % PAGE_SIZE = 0
          /\ after <= AlignUp(after, PAGE_SIZE)
      BY <1>1, <2>1, AlignUpBounds
    <2>3. KernelTable(0) = AlignUp(after, PAGE_SIZE)
      BY <2>2, Geometry DEF KernelTable, after
    <2> QED  BY <2>2, <2>3 DEF after
  <1>5. KernelTables \in Nat /\ KernelTables * PAGE_ENTRIES = Identity
    BY PagingAssumption, DivideExact DEF KernelTables
  <1>6. KernelTables # 0 /\ KernelTables <= PAGE_ENTRIES
    <2>1. /\ Identity \in Nat \ {0} /\ Identity <= PAGE_ENTRIES * PAGE_ENTRIES
      BY PagingAssumption, Geometry
    <2>2. KernelTables # 0
      <3>1. 0 * PAGE_ENTRIES = 0
        BY <1>1
      <3> QED  BY <1>5, <2>1, <3>1
    <2>3. ASSUME KernelTables > PAGE_ENTRIES PROVE FALSE
      <3>1. KernelTables * PAGE_ENTRIES >= (PAGE_ENTRIES + 1) * PAGE_ENTRIES
        BY <1>1, <1>5, <2>3, ProductMonotone
      <3>2. (PAGE_ENTRIES + 1) * PAGE_ENTRIES = PAGE_ENTRIES * PAGE_ENTRIES + PAGE_ENTRIES
        BY <1>1
      <3>3. PAGE_ENTRIES * PAGE_ENTRIES \in Nat
        BY <1>1
      <3> QED  BY <1>1, <1>5, <2>1, <3>1, <3>2, <3>3
    <2> QED  BY <1>1, <1>5, <2>2, <2>3
  <1> QED  BY <1>2, <1>3, <1>4, <1>5, <1>6

LEMMA SumOfPages ==
  ASSUME NEW n \in Nat \ {0}, NEW x \in Nat, NEW i \in Nat, x % n = 0
  PROVE  (x + i * n) % n = 0
  <1>1. PICK q \in Nat : x = q * n
    BY DivideExact
  <1>2. x + i * n = (q + i) * n /\ q + i \in Nat
    BY <1>1
  <1>3. ((q + i) * n) % n = 0
    BY <1>2, QuotientOfMultiple
  <1> QED  BY <1>2, <1>3

\* The tables of the identity map are spaced one page.
LEMMA TableAddress ==
  ASSUME NEW i \in 0..KernelTables
  PROVE  /\ KernelTable(i) = KernelTable(0) + i * PAGE_SIZE /\ i * PAGE_SIZE \in Nat
         /\ KernelTable(i) \in HeapPages \ {0}
         /\ KernelTable(i) <= KernelTable(KernelTables) /\ KernelTable(KernelTables) < heap_end
  <1>1. \A k \in Nat : k * PAGE_SIZE \in Nat /\ KernelTable(k) = KernelTable(0) + k * PAGE_SIZE
    BY Geometry, BootLayout DEF KernelTable
  <1>2. i \in Nat /\ KernelTables \in Nat /\ i <= KernelTables
    BY BootLayout
  <1>3. i * PAGE_SIZE <= KernelTables * PAGE_SIZE
    BY <1>2, Geometry, ProductMonotone
  <1>4. KernelTable(KernelTables) < heap_end
    BY PagingAssumption
  <1>5. KernelTable(i) \in Nat /\ KernelTable(i) <= KernelTable(KernelTables)
    BY <1>1, <1>2, <1>3, BootLayout
  <1>6. KernelTable(i) % PAGE_SIZE = 0
    <2>1. (KernelTable(0) + i * PAGE_SIZE) % PAGE_SIZE = 0
      BY <1>2, Geometry, BootLayout, SumOfPages
    <2> QED  BY <1>1, <1>2, <2>1
  <1>7. KernelTable(i) # 0
    <2>1. KernelTable(0) > 0
      BY Geometry, BootLayout, HeapAssumption
    <2> QED  BY <1>1, <1>2, <2>1, BootLayout
  <1>8. KernelTable(i) \in HeapPages
    <2>1. KernelTable(i) <= heap_end
      BY <1>1, <1>2, <1>4, <1>5, HeapAssumption, BootLayout
    <2> QED  BY <1>5, <1>6, <2>1, HeapPageIntro
  <1> QED  BY <1>1, <1>2, <1>4, <1>5, <1>7, <1>8

LEMMA TablesApart ==
  ASSUME NEW i \in 0..KernelTables, NEW j \in 0..KernelTables, i < j
  PROVE  KernelTable(i) + PAGE_SIZE <= KernelTable(j)
  <1>1. i \in Nat /\ j \in Nat /\ i + 1 <= j
    BY BootLayout
  <1>2. (i + 1) * PAGE_SIZE <= j * PAGE_SIZE /\ (i + 1) * PAGE_SIZE = i * PAGE_SIZE + PAGE_SIZE
    BY <1>1, Geometry, ProductMonotone
  <1>3. /\ KernelTable(i) = KernelTable(0) + i * PAGE_SIZE /\ i * PAGE_SIZE \in Nat
        /\ KernelTable(j) = KernelTable(0) + j * PAGE_SIZE /\ j * PAGE_SIZE \in Nat
    BY TableAddress
  <1>4. KernelTable(0) \in Nat /\ PAGE_SIZE \in Nat
    BY BootLayout, PageAssumption
  <1>5. i * PAGE_SIZE + PAGE_SIZE <= j * PAGE_SIZE
    BY <1>2
  <1> QED  BY <1>3, <1>4, <1>5

\* Page j of the k-th table maps virtual page k * PAGE_ENTRIES + j to itself.
LEMMA IdentityPage ==
  ASSUME NEW k \in 0..KernelTables-1, NEW j \in Index
  PROVE  /\ k * PAGE_ENTRIES + j \in VPages
         /\ (KernelTable(k) - KernelTable(0)) * PAGE_ENTRIES + j * PAGE_SIZE
              = (k * PAGE_ENTRIES + j) * PAGE_SIZE
  <1>1. /\ k \in Nat /\ j \in Nat /\ j < PAGE_ENTRIES /\ k + 1 <= PAGE_ENTRIES
        /\ PAGE_ENTRIES \in Nat \ {0} /\ PAGE_SIZE \in Nat
    BY BootLayout, Geometry DEF Index
  <1>2. (k + 1) * PAGE_ENTRIES <= PAGE_ENTRIES * PAGE_ENTRIES /\ (k + 1) * PAGE_ENTRIES = k * PAGE_ENTRIES + PAGE_ENTRIES
    <2>1. k + 1 \in Nat /\ PAGE_ENTRIES \in Nat
      BY <1>1
    <2>2. (k + 1) * PAGE_ENTRIES <= PAGE_ENTRIES * PAGE_ENTRIES
      BY ONLY <1>1, <2>1, ProductMonotone
    <2>3. (k + 1) * PAGE_ENTRIES = k * PAGE_ENTRIES + PAGE_ENTRIES
      BY ONLY <1>1, SMT
    <2> QED  BY <2>2, <2>3
  <1>3. k * PAGE_ENTRIES + j \in VPages
    <2>1. PICK m, e, q : m = k * PAGE_ENTRIES /\ e = PAGE_ENTRIES /\ q = PAGE_ENTRIES * PAGE_ENTRIES
      OBVIOUS
    <2>2. m \in Nat /\ e \in Nat /\ q \in Nat /\ m + e <= q /\ j \in Nat /\ j < e
      BY <1>1, <1>2, <2>1, ProductNat
    <2>3. m + j \in 0 .. q - 1
      BY ONLY <2>2
    <2> QED  BY <2>1, <2>3, Geometry
  <1>4. KernelTable(k) - KernelTable(0) = k * PAGE_SIZE
    BY <1>1, TableAddress, BootLayout
  <1>5. (k * PAGE_SIZE) * PAGE_ENTRIES + j * PAGE_SIZE = (k * PAGE_ENTRIES + j) * PAGE_SIZE
    BY <1>1
  <1> QED  BY <1>3, <1>4, <1>5

\* Every page in the range of the tables is one of them.
LEMMA IsKernelTable ==
  ASSUME NEW t \in HeapPages, t \in KernelTable(0) .. KernelTable(KernelTables) - 1
  PROVE  \E k \in 0..KernelTables-1 : t = KernelTable(k)
  <1>1. /\ t \in Nat /\ t % PAGE_SIZE = 0 /\ PAGE_SIZE \in Nat \ {0}
        /\ KernelTable(0) \in Nat /\ KernelTable(0) % PAGE_SIZE = 0 /\ KernelTable(0) <= t
        /\ KernelTables \in Nat
        /\ t < KernelTable(0) + KernelTables * PAGE_SIZE /\ KernelTables * PAGE_SIZE \in Nat
    <2>1. t \in Nat /\ t % PAGE_SIZE = 0
      BY HeapPageElim
    <2>2. KernelTable(0) \in HeapPages /\ KernelTable(KernelTables) = KernelTable(0) + KernelTables * PAGE_SIZE
      BY BootLayout, TableAddress
    <2>3. KernelTable(0) \in Nat /\ KernelTable(0) % PAGE_SIZE = 0
      BY <2>2, HeapPageElim
    <2>4. KernelTables \in Nat /\ PAGE_SIZE \in Nat \ {0}
      BY BootLayout, Geometry
    <2>5. KernelTables * PAGE_SIZE \in Nat
      BY <2>4, ProductNat
    <2> QED  BY <2>1, <2>2, <2>3, <2>4, <2>5
  <1>2. PICK a \in Nat, b \in Nat : t = a * PAGE_SIZE /\ KernelTable(0) = b * PAGE_SIZE
    <2>1. t = (t \div PAGE_SIZE) * PAGE_SIZE /\ t \div PAGE_SIZE \in Nat
      BY <1>1, DivideExact
    <2>2. KernelTable(0) = (KernelTable(0) \div PAGE_SIZE) * PAGE_SIZE
          /\ KernelTable(0) \div PAGE_SIZE \in Nat
      BY <1>1, DivideExact
    <2> QED  BY <2>1, <2>2, Zenon
  <1>3. b <= a /\ a < b + KernelTables
    <2>1. ASSUME a < b PROVE FALSE
      <3>1. (a + 1) * PAGE_SIZE <= b * PAGE_SIZE /\ (a + 1) * PAGE_SIZE = a * PAGE_SIZE + PAGE_SIZE
        BY <1>1, <1>2, <2>1, ProductMonotone
      <3> QED  BY <1>1, <1>2, <3>1
    <2>2. ASSUME a >= b + KernelTables PROVE FALSE
      <3>1. (b + KernelTables) * PAGE_SIZE <= a * PAGE_SIZE
        BY <1>1, <1>2, <2>2, ProductMonotone
      <3>2. (b + KernelTables) * PAGE_SIZE = b * PAGE_SIZE + KernelTables * PAGE_SIZE
        BY <1>1, <1>2
      <3> QED  BY <1>1, <1>2, <3>1, <3>2
    <2> QED  BY <2>1, <2>2, <1>1, <1>2
  <1>4. a - b \in 0..KernelTables-1
    BY <1>1, <1>2, <1>3
  <1>5. t = KernelTable(0) + (a - b) * PAGE_SIZE
    <2>1. a * PAGE_SIZE = b * PAGE_SIZE + (a - b) * PAGE_SIZE
      BY <1>1, <1>2
    <2> QED  BY <1>2, <2>1
  <1>6. KernelTable(a - b) = KernelTable(0) + (a - b) * PAGE_SIZE
    BY <1>4, TableAddress, BootLayout
  <1> QED  BY <1>4, <1>5, <1>6

LEMMA PagingInitHeap == PagingInit => HeapInv
  <1> SUFFICES ASSUME PagingInit PROVE HeapInv
    OBVIOUS
  <1> DEFINE bitmap == [addr |-> HEAP_START, size |-> BITMAP_SIZE]
             directory == [addr |-> kernel_directory, size |-> DIRECTORY_SIZE]
             table(i) == [addr |-> KernelTable(i), size |-> TABLE_SIZE]
             front == KernelTable(KernelTables)
  <1>1. /\ HEAP_START \in Nat \ {0} /\ heap_end \in Nat /\ HEAP_START % PAGE_SIZE = 0
        /\ PAGE_SIZE \in Nat \ {0} /\ PAGE_SIZE % 4 = 0
        /\ TABLE_SIZE = PAGE_SIZE /\ DIRECTORY_SIZE = 2 * PAGE_SIZE + 4
    BY Geometry, HeapAssumption, PageAssumption
  <1>2. /\ BITMAP_SIZE \in Nat /\ kernel_directory \in Nat /\ kernel_directory % PAGE_SIZE = 0
        /\ HEAP_START + BITMAP_SIZE <= kernel_directory
        /\ KernelTable(0) \in Nat /\ kernel_directory + DIRECTORY_SIZE <= KernelTable(0)
        /\ KernelTables \in Nat \ {0}
    BY BootLayout
  <1>3. \A i \in 0..KernelTables :
          /\ KernelTable(i) \in Nat /\ KernelTable(i) % PAGE_SIZE = 0
          /\ KernelTable(0) <= KernelTable(i)
    <2> SUFFICES ASSUME NEW i \in 0..KernelTables
                 PROVE  /\ KernelTable(i) \in Nat /\ KernelTable(i) % PAGE_SIZE = 0
                        /\ KernelTable(0) <= KernelTable(i)
      OBVIOUS
    <2>1. KernelTable(i) \in Nat /\ KernelTable(i) % PAGE_SIZE = 0
      BY TableAddress, HeapPageElim
    <2>2. KernelTable(i) = KernelTable(0) + i * PAGE_SIZE /\ i * PAGE_SIZE \in Nat
      BY TableAddress
    <2> QED  BY <2>1, <2>2, <1>2
  <1>4. front \in Nat /\ front < heap_end /\ front \in HeapPages
    BY <1>2, <1>3, TableAddress
  <1>5. \A i \in 0..KernelTables-1 : KernelTable(i) + PAGE_SIZE <= front
    BY <1>2, TablesApart
  <1>6. /\ heap_current = front /\ result = KernelTable(KernelTables - 1)
        /\ paged = {directory} \cup {table(i) : i \in 0..KernelTables-1}
        /\ blocks = paged \cup {bitmap}
    BY DEF PagingInit
  <1>7. ASSUME NEW b \in blocks
        PROVE  /\ b = bitmap \/ b = directory \/ \E i \in 0..KernelTables-1 : b = table(i)
               /\ b \in [addr : HEAP_START..heap_end, size : 0..heap_end]
               /\ b.addr % PAGE_SIZE = 0 /\ b.addr \in Nat
               /\ b.addr + b.size <= front /\ b.addr + b.size \in Nat /\ HEAP_START <= b.addr
    <2>1. CASE b = bitmap
      <3>1. HEAP_START + BITMAP_SIZE <= front
        BY <1>1, <1>2, <1>3, <1>4
      <3> QED  BY <2>1, <3>1, <1>1, <1>2, <1>4
    <2>2. CASE b = directory
      <3>1. kernel_directory + DIRECTORY_SIZE <= front
        BY <1>1, <1>2, <1>3, <1>4
      <3> QED  BY <2>2, <3>1, <1>1, <1>2, <1>4
    <2>3. CASE \E i \in 0..KernelTables-1 : b = table(i)
      <3>1. PICK i \in 0..KernelTables-1 : b = table(i)
        BY <2>3
      <3>2. KernelTable(i) \in Nat /\ KernelTable(i) % PAGE_SIZE = 0 /\ KernelTable(0) <= KernelTable(i)
        BY <1>2, <1>3
      <3>3. KernelTable(i) + PAGE_SIZE <= front
        BY <1>5
      <3> HIDE DEF front
      <3> QED  BY <3>1, <3>2, <3>3, <1>1, <1>2, <1>4
    <2> QED  BY <2>1, <2>2, <2>3, <1>6
  <1>8. TypeOK
    <2>1. result \in HEAP_START..heap_end
      <3>1. KernelTables - 1 \in 0..KernelTables-1
        BY <1>2
      <3>2. KernelTable(KernelTables - 1) \in Nat /\ KernelTable(KernelTables - 1) + PAGE_SIZE <= front
            /\ KernelTable(0) <= KernelTable(KernelTables - 1)
        BY <1>2, <1>3, <1>5, <3>1
      <3> HIDE DEF front
      <3> QED  BY <3>2, <1>1, <1>2, <1>4, <1>6
    <2>2. heap_current \in HEAP_START..heap_end
      <3>1. HEAP_START <= front
        BY <1>1, <1>2, <1>3, <1>4
      <3> HIDE DEF front
      <3> QED  BY <3>1, <1>1, <1>4, <1>6
    <2>3. paged \subseteq blocks
      BY <1>6
    <2> QED  BY <2>1, <2>2, <2>3, <1>7 DEF TypeOK
  <1>9. heap_current % 4 = 0
    BY <1>1, <1>4, <1>6, HeapPageElim, PageIsWordAligned
  <1>10. BlocksDisjoint
    <2>1. ASSUME NEW i \in 0..KernelTables-1, NEW j \in 0..KernelTables-1, i < j
          PROVE  End(table(i)) <= table(j).addr
      BY <2>1, <1>1, <1>2, TablesApart DEF End
    <2>2. ASSUME NEW i \in 0..KernelTables-1, NEW j \in 0..KernelTables-1
          PROVE  i = j \/ End(table(i)) <= table(j).addr \/ End(table(j)) <= table(i).addr
      <3>1. i = j \/ i < j \/ j < i
        BY <1>2
      <3> QED  BY <2>1, <3>1
    <2>3. End(bitmap) <= directory.addr
      BY <1>2 DEF End
    <2>4. ASSUME NEW i \in 0..KernelTables-1
          PROVE  End(directory) <= table(i).addr /\ End(bitmap) <= table(i).addr
      <3>1. KernelTable(0) <= KernelTable(i) /\ KernelTable(i) \in Nat
        BY <1>2, <1>3
      <3> QED  BY <3>1, <1>1, <1>2 DEF End
    <2> HIDE DEF bitmap, directory, table
    <2> SUFFICES ASSUME NEW a \in blocks, NEW b \in blocks
                 PROVE  a = b \/ End(a) <= b.addr \/ End(b) <= a.addr
      BY DEF BlocksDisjoint
    <2>5. /\ a = bitmap \/ a = directory \/ \E i \in 0..KernelTables-1 : a = table(i)
          /\ b = bitmap \/ b = directory \/ \E i \in 0..KernelTables-1 : b = table(i)
      BY <1>7
    <2> QED  BY <2>2, <2>3, <2>4, <2>5
  <1>11. BlocksInHeap
    BY <1>4, <1>7, <1>1 DEF BlocksInHeap, End
  <1>12. BlocksAligned
    BY <1>1, <1>6, <1>7, PageIsWordAligned DEF BlocksAligned
  <1>13. \A b \in blocks : End(b) <= heap_current
    BY <1>6, <1>7 DEF End
  <1> QED  BY <1>8, <1>9, <1>10, <1>11, <1>12, <1>13 DEF HeapInv

\* What a walk through the identity map finds.
LEMMA InitWalk ==
  ASSUME PagingInit, NEW v \in VPages
  PROVE  /\ Walk(kernel_directory, v) =
              IF v < Identity THEN Entry(v * PAGE_SIZE, {"WRITABLE"}) ELSE NoEntry
         /\ \A d \in HeapPages \ {kernel_directory} : Walk(d, v) = NoEntry
  <1> DEFINE i == dir_index(v)
             j == table_index(v)
  <1>1. /\ i \in Index /\ j \in Index /\ v \in Nat /\ v = i * PAGE_ENTRIES + j
        /\ i \in Nat /\ j \in Nat /\ j < PAGE_ENTRIES
    <2>1. v \in Nat /\ i \in Index /\ j \in Index
      BY PageIndexes
    <2>2. v = PAGE_ENTRIES * (v \div PAGE_ENTRIES) + (v % PAGE_ENTRIES)
      BY <2>1, Geometry, Divide
    <2> QED  BY <2>1, <2>2, Geometry DEF dir_index, table_index, Index
  <1>2. kernel_directory \in HeapPages /\ KernelTables \in Nat
    <2>1. kernel_directory <= heap_end
      BY BootLayout, Geometry, PagingAssumption, HeapAssumption
    <2> QED  BY <2>1, BootLayout, HeapPageIntro
  <1>3. \A d \in HeapPages : tables[d][i] = IF OfKernel(d, i) THEN KernelTable(i) ELSE 0
    BY <1>1 DEF PagingInit
  <1>4. CASE i < KernelTables
    <2>1. i \in 0..KernelTables-1 /\ i \in 0..KernelTables /\ KernelTables \in 0..KernelTables /\ 0 \in 0..KernelTables
      BY <1>1, <1>2, <1>4
    <2>2. KernelTable(i) \in HeapPages \ {0} /\ KernelTable(i) \in KernelTable(0) .. KernelTable(KernelTables) - 1
      <3>1. KernelTable(i) + PAGE_SIZE <= KernelTable(KernelTables)
        BY <2>1, <1>4, TablesApart
      <3>2. /\ KernelTable(i) = KernelTable(0) + i * PAGE_SIZE /\ i * PAGE_SIZE \in Nat
            /\ KernelTable(i) \in HeapPages \ {0} /\ KernelTable(KernelTables) \in HeapPages
        BY <2>1, TableAddress
      <3>3. KernelTable(0) \in Nat /\ KernelTable(i) \in Nat /\ KernelTable(KernelTables) \in Nat
            /\ PAGE_SIZE \in Nat \ {0}
        BY <3>2, BootLayout, HeapPageElim, PageAssumption
      <3>4. KernelTable(0) <= KernelTable(i)
        BY <3>2, <3>3
      <3> QED  BY <3>1, <3>2, <3>3, <3>4
    <2>3. pages[KernelTable(i)][j] =
            Entry((KernelTable(i) - KernelTable(0)) * PAGE_ENTRIES + j * PAGE_SIZE, {"WRITABLE"})
      BY <1>1, <2>2 DEF PagingInit
    <2>4. (KernelTable(i) - KernelTable(0)) * PAGE_ENTRIES + j * PAGE_SIZE = v * PAGE_SIZE
      BY <1>1, <2>1, IdentityPage
    <2>5. v < Identity
      <3>1. (i + 1) * PAGE_ENTRIES <= KernelTables * PAGE_ENTRIES
        <4>1. i + 1 \in Nat /\ i + 1 <= KernelTables /\ KernelTables \in Nat /\ PAGE_ENTRIES \in Nat
          BY <1>1, <1>2, <1>4, Geometry
        <4> HIDE DEF i
        <4> QED  BY ONLY <4>1, ProductMonotone
      <3>2. (i + 1) * PAGE_ENTRIES = i * PAGE_ENTRIES + PAGE_ENTRIES /\ i * PAGE_ENTRIES \in Nat
        BY <1>1, Geometry
      <3>3. KernelTables * PAGE_ENTRIES = Identity /\ PAGE_ENTRIES \in Nat
        BY BootLayout, Geometry
      <3> HIDE DEF i, j
      <3>4. i * PAGE_ENTRIES + PAGE_ENTRIES <= Identity
        BY <3>1, <3>2, <3>3
      <3>5. PICK m \in Nat : m = i * PAGE_ENTRIES
        BY <3>2
      <3>6. v = m + j /\ m + PAGE_ENTRIES <= Identity /\ Identity \in Nat
        BY <3>4, <3>5, <1>1, PagingAssumption
      <3> QED  BY <3>3, <3>6, <1>1
    <2>6. tables[kernel_directory][i] = KernelTable(i)
      BY <1>2, <1>3, <1>4 DEF OfKernel
    <2>7. \A d \in HeapPages \ {kernel_directory} : tables[d][i] = 0
      BY <1>3 DEF OfKernel
    <2> QED  BY <2>2, <2>3, <2>4, <2>5, <2>6, <2>7 DEF Walk, IsTable
  <1>5. CASE ~(i < KernelTables)
    <2>1. ~(v < Identity)
      <3>1. KernelTables * PAGE_ENTRIES <= i * PAGE_ENTRIES
        <4>1. i \in Nat /\ KernelTables <= i /\ KernelTables \in Nat /\ PAGE_ENTRIES \in Nat
          BY <1>1, <1>2, <1>5, Geometry
        <4> HIDE DEF i
        <4> QED  BY ONLY <4>1, ProductMonotone
      <3>2. KernelTables * PAGE_ENTRIES = Identity /\ Identity \in Nat
        BY BootLayout, PagingAssumption
      <3> HIDE DEF i, j
      <3>3. PICK m \in Nat : m = i * PAGE_ENTRIES
        BY <1>1, Geometry, ProductNat
      <3>4. v = m + j /\ Identity <= m
        BY <3>1, <3>2, <3>3, <1>1
      <3> QED  BY <3>2, <3>4, <1>1
    <2>2. \A d \in HeapPages : tables[d][i] = 0
      BY <1>3, <1>5 DEF OfKernel
    <2> QED  BY <1>2, <2>1, <2>2 DEF Walk
  <1> QED  BY <1>4, <1>5

LEMMA PagingInitType == PagingInit => PagingTypeOK
  <1> SUFFICES ASSUME PagingInit PROVE PagingTypeOK
    OBVIOUS
  <1>1. TypeOK
    BY PagingInitHeap DEF HeapInv
  <1>2. kernel_directory \in HeapPages \ {0} /\ KernelTables \in Nat
    <2>1. kernel_directory <= heap_end /\ kernel_directory # 0
      BY BootLayout, Geometry, PagingAssumption, HeapAssumption
    <2> QED  BY <2>1, BootLayout, HeapPageIntro
  <1>3. \A i \in Index : i < KernelTables => KernelTable(i) \in HeapPages
    <2> SUFFICES ASSUME NEW i \in Index, i < KernelTables PROVE KernelTable(i) \in HeapPages
      OBVIOUS
    <2>1. i \in 0..KernelTables
      BY <1>2, Geometry DEF Index
    <2> QED  BY <2>1, TableAddress
  <1>4. /\ tables \in [HeapPages -> [Index -> TableWords]]
        /\ \A d \in HeapPages \ {0} : tables[d] \in [Index -> HeapPages]
    BY <1>3, ZeroIsHeapPage, ContentTypes DEF PagingInit, OfKernel
  <1>5. tables_physical \in [HeapPages -> [Index -> PhysicalEntries]]
    <2>1. \A i \in Index : i < KernelTables =>
            PhysicalEntry(KernelTable(i), {"WRITABLE"}) \in PhysicalEntries
      BY <1>3, PhysicalEntryAt
    <2>2. NoEntry \in PhysicalEntries
      BY DEF PhysicalEntries
    <2> QED  BY <2>1, <2>2 DEF PagingInit, OfKernel
  <1>6. physical_addr \in [HeapPages -> HeapPages] /\ cr3 \in HeapPages
    BY ZeroIsHeapPage DEF PagingInit
  <1>7. pages \in [HeapPages -> [Index -> Entries \cup {NoEntry, Garbage}]]
    <2>1. ASSUME NEW t \in HeapPages, NEW i \in Index, t \in KernelTable(0) .. KernelTable(KernelTables) - 1
          PROVE  Entry((t - KernelTable(0)) * PAGE_ENTRIES + i * PAGE_SIZE, {"WRITABLE"}) \in Entries
      <3>1. PICK k \in 0..KernelTables-1 : t = KernelTable(k)
        BY <2>1, IsKernelTable
      <3>2. PICK p \in VPages : (t - KernelTable(0)) * PAGE_ENTRIES + i * PAGE_SIZE = p * PAGE_SIZE
        BY <3>1, IdentityPage
      <3>3. {"WRITABLE"} \in SUBSET Flags
        BY DEF Flags
      <3> QED  BY <3>2, <3>3, EntryIsEntry
    <2> QED  BY <2>1 DEF PagingInit
  <1>8. pages \in [HeapPages -> [Index -> Contents]]
    BY <1>7, ContentTypes
  <1>9. frames \in Bitmaps /\ lost \in BOOLEAN
    BY DEF PagingInit, Bitmaps
  <1>10. directories \subseteq HeapPages /\ current_directory \in directories
    BY <1>2 DEF PagingInit
  <1> QED  BY <1>1, <1>4, <1>5, <1>6, <1>7, <1>8, <1>9, <1>10, PagingTypes

LEMMA PagingInitInv == PagingInit => PagingInv
  <1> SUFFICES ASSUME PagingInit PROVE PagingInv
    OBVIOUS
  <1>1. HeapInv /\ PagingTypeOK
    BY PagingInitHeap, PagingInitType
  <1>2. directories = {kernel_directory} /\ kernel_directory \in HeapPages
    BY <1>1 DEF PagingInit, PagingTypeOK
  <1>3. DirectoriesOwned
    BY DEF PagingInit, DirectoriesOwned, BlockAt
  <1>4. ASSUME NEW i \in Index, IsTable(tables[kernel_directory][i])
        PROVE  i \in 0..KernelTables-1 /\ tables[kernel_directory][i] = KernelTable(i)
               /\ tables_physical[kernel_directory][i] = PhysicalEntry(KernelTable(i), {"WRITABLE"})
               /\ KernelTable(i) \in HeapPages
    <2>1. OfKernel(kernel_directory, i)
      BY <1>2, <1>4, ZeroIsNoTable DEF PagingInit
    <2>2. i \in 0..KernelTables-1 /\ i \in 0..KernelTables
      BY <2>1, BootLayout, Geometry DEF OfKernel, Index
    <2> QED  BY <1>2, <2>1, <2>2, TableAddress DEF PagingInit
  <1>5. TablesOwned
    BY <1>2, <1>4 DEF PagingInit, TablesOwned, BlockAt
  <1>6. TablesDistinct
    <2> SUFFICES ASSUME NEW i \in Index, NEW j \in Index, IsTable(tables[kernel_directory][i]),
                        tables[kernel_directory][i] = tables[kernel_directory][j]
                 PROVE  i = j
      BY <1>2 DEF TablesDistinct
    <2>1. i \in 0..KernelTables-1 /\ j \in 0..KernelTables-1 /\ KernelTable(i) = KernelTable(j)
          /\ KernelTable(i) \in Nat
      BY <1>4, HeapPageElim
    <2>2. KernelTables \in Nat /\ PAGE_SIZE \in Nat \ {0}
      BY BootLayout, PageAssumption
    <2>3. \/ i = j
          \/ KernelTable(i) + PAGE_SIZE <= KernelTable(j)
          \/ KernelTable(j) + PAGE_SIZE <= KernelTable(i)
      <3>1. i = j \/ i < j \/ j < i
        BY <2>1, <2>2
      <3>2. i \in 0..KernelTables /\ j \in 0..KernelTables
        BY <2>1, <2>2
      <3> QED  BY <3>1, <3>2, TablesApart
    <2> QED  BY <2>1, <2>2, <2>3
  <1>7. EntriesMatch
    BY <1>2, <1>4, PhysicalEntryAt DEF EntriesMatch
  <1>8. NoTablesYet
    BY <1>2, ZeroIsNoTable DEF NoTablesYet, PagingInit, OfKernel
  <1>9. FramesOwned
    <2>1. ASSUME NEW x \in UserPages PROVE FALSE
      <3>1. x[1] = kernel_directory /\ x[2] \in VPages /\ "USER" \in Walk(x[1], x[2]).flags
        BY <1>2 DEF UserPages
      <3>2. Walk(x[1], x[2]) \in {[addr |-> x[2] * PAGE_SIZE, flags |-> {"WRITABLE"}], NoEntry}
        BY <3>1, InitWalk, EntryAt
      <3> QED  BY <3>1, <3>2, NoEntryFlags
    <2> QED  BY <2>1 DEF FramesOwned
  <1> QED  BY <1>1, <1>3, <1>5, <1>6, <1>7, <1>8, <1>9 DEF PagingInv, Structure
-----------------------------------------------------------------------------
LEMMA PagingInvariant == PagingSpec => []PagingInv
  BY PagingInitInv, PagingStep, PTL DEF PagingSpec

(***************************************************************************)
(* Directories, tables, entries and the bitmap stay in range.  Only the    *)
(* directory at 0 can hold an entry where the address of a table belongs,  *)
(* and what memory held before a table was cleared is never taken for one. *)
(***************************************************************************)
THEOREM PagingTypeCorrect == PagingSpec => []PagingTypeOK
  <1>1. PagingInv => PagingTypeOK
    BY DEF PagingInv, Structure
  <1> QED  BY <1>1, PagingInvariant, PTL

(***************************************************************************)
(* Under all that paging.c and other callers allocate, the blocks of the   *)
(* heap stay apart, inside and aligned.                                    *)
(***************************************************************************)
THEOREM PagingBlocksSound == PagingSpec => []BlocksSound
  <1>1. PagingInv => BlocksSound
    BY DEF PagingInv, Structure, HeapInv, BlocksSound
  <1> QED  BY <1>1, PagingInvariant, PTL

(***************************************************************************)
(* No page table is entered twice, in one directory or in two, and none    *)
(* overlaps a directory, whoever allocates in between and whichever        *)
(* allocations fail: the directory at 0 that failed creations share has no *)
(* table of another directory.                                             *)
(***************************************************************************)
THEOREM TablesStayPrivate == PagingSpec => []TablesPrivate
  <1>1. PagingInv => TablesPrivate
    <2> SUFFICES ASSUME PagingInv PROVE TablesPrivate
      OBVIOUS
    <2> SUFFICES ASSUME NEW d \in directories, NEW e \in directories, NEW i \in Index, IsTable(tables[d][i])
                 PROVE  tables[d][i] \notin e .. e + DIRECTORY_SIZE - 1
      BY DEF TablesPrivate, PagingInv, Structure, TablesDistinct
    <2> DEFINE t == tables[d][i]
               table == [addr |-> t, size |-> TABLE_SIZE]
               directory == [addr |-> e, size |-> DIRECTORY_SIZE]
    <2>1. e \in Nat /\ t \in Nat /\ PAGE_SIZE \in Nat \ {0}
          /\ TABLE_SIZE = PAGE_SIZE /\ DIRECTORY_SIZE = 2 * PAGE_SIZE + 4
      BY TableTypes, HeapPageElim, Geometry DEF PagingInv, IsTable
    <2>2. table \in blocks
      BY DEF PagingInv, Structure, TablesOwned, BlockAt
    <2>3. CASE e = 0
      <3>1. HEAP_START <= t
        <4> HIDE DEF table
        <4>1. HEAP_START <= table.addr
          BY <2>2 DEF PagingInv, Structure, HeapInv, BlocksInHeap
        <4> QED  BY <4>1 DEF table
      <3> QED  BY <2>1, <2>3, <3>1, PagingAssumption, HeapAssumption
    <2>4. CASE e # 0
      <3>1. directory \in blocks
        BY <2>4 DEF PagingInv, Structure, DirectoriesOwned, BlockAt
      <3>2. table # directory
        BY <2>1
      <3>3. End(table) <= directory.addr \/ End(directory) <= table.addr
        <4> HIDE DEF table, directory
        <4> QED  BY <2>2, <3>1, <3>2 DEF PagingInv, Structure, HeapInv, BlocksDisjoint
      <3> QED  BY <2>1, <3>3 DEF End
    <2> QED  BY <2>3, <2>4
  <1> QED  BY <1>1, PagingInvariant, PTL

(***************************************************************************)
(* A page that get_physical_address finds in a table is found by the       *)
(* processor too, through the other array, in the same frame, as writable, *)
(* and for user mode only if it was mapped for that, in every directory.   *)
(***************************************************************************)
THEOREM ArraysStayInAgreement == PagingSpec => []ArraysAgree
  <1>1. PagingInv => ArraysAgree
    <2> SUFFICES ASSUME PagingInv, NEW d \in directories, NEW v \in VPages, Walk(d, v) \in Entries
                 PROVE  /\ ProcessorWalk(d, v).addr = Walk(d, v).addr
                        /\ ProcessorWalk(d, v).flags \subseteq Walk(d, v).flags
                        /\ "WRITABLE" \in Walk(d, v).flags => "WRITABLE" \in ProcessorWalk(d, v).flags
      BY DEF ArraysAgree
    <2>1. IsTable(tables[d][dir_index(v)]) /\ Walk(d, v) = pages[tables[d][dir_index(v)]][table_index(v)]
      BY NoEntryFlags DEF Walk
    <2>2. Grants(tables_physical[d][dir_index(v)], tables[d][dir_index(v)])
      BY <2>1, PageIndexes DEF PagingInv, Structure, EntriesMatch
    <2>3. ProcessorWalk(d, v) =
            [addr |-> Walk(d, v).addr,
             flags |-> tables_physical[d][dir_index(v)].flags \cap Walk(d, v).flags]
      BY <2>1, <2>2 DEF ProcessorWalk, Grants
    <2> QED  BY <2>2, <2>3 DEF Grants
  <1> QED  BY <1>1, PagingInvariant, PTL

(***************************************************************************)
(* No frame of RAM is mapped into two user pages, and each that is mapped  *)
(* is marked, for every number of frames, pages and directories.           *)
(***************************************************************************)
THEOREM FramesStayOwned == PagingSpec => []FramesOwned
  <1>1. PagingInv => FramesOwned
    BY DEF PagingInv
  <1> QED  BY <1>1, PagingInvariant, PTL

(***************************************************************************)
(* A page that is mapped while it has a table, or while there is room for  *)
(* one, is found afterwards with what it was mapped to; alloc_frame's are  *)
(* writable and open to user mode.                                         *)
(***************************************************************************)
THEOREM MappingsTakeEffect == PagingSpec => MapTakesEffect
  <1> DEFINE Effect(v) ==
        IsTable(Table(v)) \/ (Table(v) = 0 /\ Room > TABLE_SIZE) =>
          /\ Map(v) => Walk(current_directory, v)' = Entry(v * PAGE_SIZE, {"WRITABLE"})
          /\ alloc_frame(v, FALSE) => {"WRITABLE", "USER"} \subseteq Walk(current_directory, v)'.flags
  <1>1. ASSUME PagingInv, NEW v \in MapPages PROVE Effect(v)
    <2>1. v \in VPages
      BY PagingAssumption
    <2> SUFFICES ASSUME IsTable(Table(v)) \/ (Table(v) = 0 /\ Room > TABLE_SIZE)
                 PROVE  /\ Map(v) => Walk(current_directory, v)' = Entry(v * PAGE_SIZE, {"WRITABLE"})
                        /\ alloc_frame(v, FALSE) =>
                             {"WRITABLE", "USER"} \subseteq Walk(current_directory, v)'.flags
      OBVIOUS
    <2>2. ASSUME NEW e, MapOutcome(v, e) PROVE Walk(current_directory, v)' = e
      <3>1. Room \in Nat /\ TABLE_SIZE \in Nat
        BY <1>1, RoomIsNat, Geometry DEF PagingInv, Structure
      <3>2. ~(Table(v) = 0 /\ Room <= TABLE_SIZE)
        BY <3>1, ZeroIsNoTable
      <3>3. ~(Table(v) # 0 /\ ~IsTable(Table(v)))
        OBVIOUS
      <3> QED  BY <2>2, <3>2, <3>3 DEF MapOutcome
    <2>3. ASSUME Map(v) PROVE Walk(current_directory, v)' = Entry(v * PAGE_SIZE, {"WRITABLE"})
      BY <1>1, <2>1, <2>2, <2>3, MapKeeps, EntryAt
    <2>4. ASSUME alloc_frame(v, FALSE)
          PROVE  {"WRITABLE", "USER"} \subseteq Walk(current_directory, v)'.flags
      <3>1. PICK p \in VPages : MapOutcome(v, UserEntry(p))
        BY <1>1, <2>1, <2>4, AllocKeeps
      <3>2. Walk(current_directory, v)' = UserEntry(p)
        BY <2>2, <3>1
      <3> QED  BY <3>2 DEF UserEntry
    <2> QED  BY <2>3, <2>4
  <1>2. PagingInv => [\A v \in MapPages : Effect(v)]_<<hvars, pvars>>
    BY <1>1
  <1>3. PagingSpec => [][\A v \in MapPages : Effect(v)]_<<hvars, pvars>>
    BY <1>2, PagingInvariant, PTL
  <1> QED  BY <1>3 DEF MapTakesEffect
-----------------------------------------------------------------------------
(***************************************************************************)
(* The refinement.                                                         *)
(***************************************************************************)
LEMMA SpaceInit == PagingInit => Spaces!Init
  <1> SUFFICES ASSUME PagingInit PROVE Spaces!Init
    OBVIOUS
  <1>1. kernel_directory \in HeapPages
    BY PagingInitType DEF PagingInit, PagingTypeOK
  <1> DEFINE first == [v \in VPages |-> IF v < Identity THEN Entry(v * PAGE_SIZE, {"WRITABLE"}) ELSE NoEntry]
             none == [v \in VPages |-> NoEntry]
  <1>2. ASSUME NEW d \in HeapPages
        PROVE  [v \in VPages |-> Walk(d, v)] = IF d = kernel_directory THEN first ELSE none
    BY <1>1, InitWalk
  <1>3. SpaceMap = [d \in HeapPages |-> IF d = kernel_directory THEN first ELSE none]
    <2> HIDE DEF first, none
    <2> QED  BY <1>2 DEF SpaceMap
  <1>4. directories = {kernel_directory} /\ current_directory = kernel_directory
    BY DEF PagingInit
  <1>5. Room \in Nat
    BY PagingInitHeap, RoomIsNat
  <1> QED  BY <1>3, <1>4, <1>5 DEF Spaces!Init, Spaces!Unmapped

\* One page of the current directory changes, or the mapping is lost.
LEMMA SpaceMapStep ==
  ASSUME Structure, NEW v \in VPages, NEW e \in Entries \cup {NoEntry}, MapOutcome(v, e),
         UNCHANGED <<directories, current_directory>>
  PROVE  Spaces!Next \/ UNCHANGED <<directories, current_directory, SpaceMap, Room>>
  <1> DEFINE c == current_directory
  <1>1. c \in HeapPages /\ 0 \in HeapPages
    BY TableTypes, ZeroIsHeapPage
  <1>2. CASE OthersKept(v) /\ Walk(current_directory, v)' = e /\ Room' <= Room
    <2>1. SpaceMap'[c][v] \in Entries \cup {NoEntry}
      BY <1>1, <1>2 DEF SpaceMap
    <2>2. \A w \in VPages \ {v} : SpaceMap'[c][w] = SpaceMap[c][w]
      BY <1>1, <1>2 DEF SpaceMap, OthersKept
    <2>3. \A d \in HeapPages \ {c} : SpaceMap'[d] = SpaceMap[d]
      BY <1>2 DEF SpaceMap, OthersKept
    <2> QED  BY <1>2, <2>1, <2>2, <2>3 DEF Spaces!Map, Spaces!Next
  <1>3. CASE LowLost /\ Room <= TABLE_SIZE /\ Room' = Room
    <2>1. \A d \in HeapPages \ {0} : SpaceMap'[d] = SpaceMap[d]
      BY <1>3 DEF SpaceMap, LowLost
    <2>2. SpaceMap'[0] \in [VPages -> {NoEntry, Garbage}]
      BY <1>1, <1>3 DEF SpaceMap, LowLost
    <2> QED  BY <1>3, <2>1, <2>2 DEF Spaces!MapWithoutMemory, Spaces!Next
  <1>4. CASE AllKept /\ Room' = Room
    BY <1>4 DEF AllKept, SpaceMap
  <1> QED  BY <1>2, <1>3, <1>4 DEF MapOutcome

LEMMA SpaceStep ==
  ASSUME PagingInv, [PagingNext]_<<hvars, pvars>>
  PROVE  Spaces!Next \/ UNCHANGED <<directories, current_directory, SpaceMap, Room>>
  <1>s. Structure
    BY DEF PagingInv
  <1>1. ASSUME NEW v \in MapPages, Map(v) \/ unmap_page(v) \/ alloc_frame(v, FALSE)
        PROVE  Spaces!Next \/ UNCHANGED <<directories, current_directory, SpaceMap, Room>>
    <2>1. v \in VPages /\ UNCHANGED <<directories, current_directory>>
      BY <1>1, PagingAssumption DEF Map, unmap_page, alloc_frame
    <2>2. PICK e \in Entries \cup {NoEntry} : MapOutcome(v, e)
      <3>1. \A p \in VPages : UserEntry(p) \in Entries /\ [addr |-> p * PAGE_SIZE, flags |-> {"WRITABLE"}] \in Entries
        BY DEF UserEntry, Entries, Flags
      <3> QED  BY <1>1, <2>1, <3>1, MapKeeps, UnmapKeeps, AllocKeeps
    <2> QED  BY <1>s, <2>1, <2>2, SpaceMapStep
  <1>2. ASSUME create_page_directory PROVE Spaces!Next
    <2> DEFINE t == result'
    <2>1. /\ directories' = directories \cup {t} /\ current_directory' = current_directory
          /\ \A d \in HeapPages \ {0}, w \in VPages : Walk(d, w)' = Walk(d, w)
      BY <1>2, CreateKeeps
    <2>2. CASE t # 0
      <3>1. /\ t \in HeapPages \ directories /\ t # 0 /\ Room > DIRECTORY_SIZE /\ Room' < Room
            /\ \A w \in VPages : Walk(0, w)' = Walk(0, w)
        BY <1>2, <2>2, CreateKeeps
      <3>2. SpaceMap' = SpaceMap
        BY <2>1, <3>1 DEF SpaceMap
      <3>3. \E d \in HeapPages \ (directories \cup {0}) : directories' = directories \cup {d}
        BY <2>1, <3>1
      <3> QED  BY <2>1, <3>1, <3>2, <3>3 DEF Spaces!Next, Spaces!Create
    <2>3. CASE t = 0
      <3>1. Room <= DIRECTORY_SIZE /\ Room' = Room /\ \A w \in VPages : Walk(0, w)' = NoEntry
        BY <1>2, <2>3, CreateKeeps
      <3>2. SpaceMap' = [SpaceMap EXCEPT ![0] = [w \in VPages |-> NoEntry]]
        <4>1. ASSUME NEW d \in HeapPages
              PROVE  SpaceMap'[d] = IF d = 0 THEN [w \in VPages |-> NoEntry] ELSE SpaceMap[d]
          BY <2>1, <3>1 DEF SpaceMap
        <4>2. DOMAIN SpaceMap = HeapPages /\ DOMAIN SpaceMap' = HeapPages
              /\ SpaceMap = [d \in HeapPages |-> SpaceMap[d]]
              /\ SpaceMap' = [d \in HeapPages |-> SpaceMap'[d]]
          BY DEF SpaceMap
        <4> QED  BY <4>1, <4>2
      <3> QED  BY <2>1, <2>3, <3>1, <3>2 DEF Spaces!Next, Spaces!CreateWithoutMemory, Spaces!Unmapped
    <2> QED  BY <2>2, <2>3
  <1>3. ASSUME NEW d \in directories, switch_page_directory(d)
        PROVE  Spaces!Next \/ UNCHANGED <<directories, current_directory, SpaceMap, Room>>
    <2>1. current_directory' = d /\ UNCHANGED <<hvars, directories, tables, pages>>
      BY <1>3 DEF switch_page_directory
    <2>2. SpaceMap' = SpaceMap /\ Room' = Room
      BY <2>1 DEF SpaceMap, Walk, Room, hvars
    <2>3. CASE d = current_directory
      BY <2>1, <2>2, <2>3
    <2>4. CASE d # current_directory
      BY <2>1, <2>2, <2>4 DEF Spaces!Next, Spaces!Switch
    <2> QED  BY <2>3, <2>4
  <1>4. ASSUME UNCHANGED <<hvars, directories, current_directory, tables, pages>>
        PROVE  UNCHANGED <<directories, current_directory, SpaceMap, Room>>
    BY <1>4 DEF SpaceMap, Walk, Room, hvars
  <1>5. ASSUME NEW f \in 0..NFrames-1, clear_frame(f)
        PROVE  UNCHANGED <<hvars, directories, current_directory, tables, pages>>
    BY <1>5 DEF clear_frame
  <1>6. ASSUME Next, UNCHANGED pvars
        PROVE  Spaces!Next \/ UNCHANGED <<directories, current_directory, SpaceMap, Room>>
    <2>1. UNCHANGED <<directories, current_directory, tables, pages>>
      BY <1>6 DEF pvars
    <2>2. SpaceMap' = SpaceMap
      BY <2>1 DEF SpaceMap, Walk
    <2>3. Room' <= Room /\ Room \in Nat /\ Room' \in Int
      <3>1. PagingInv' /\ Room' <= Room
        BY <1>6, OthersKeep
      <3>2. HeapInv /\ HeapInv'
        BY <3>1 DEF PagingInv, Structure
      <3>3. AlignUp(heap_current', PAGE_SIZE) \in Nat
        <4>1. heap_current' \in HEAP_START..heap_end
          BY <3>2 DEF HeapInv, TypeOK
        <4>2. heap_current' <= heap_current'
          BY <4>1, HeapAssumption
        <4> QED  BY <4>1, <4>2, RoomShrinks
      <3> QED  BY <3>1, <3>2, <3>3, RoomIsNat, HeapAssumption DEF Room
    <2>4. CASE Room' = Room
      BY <2>1, <2>2, <2>4
    <2>5. CASE Room' < Room
      BY <2>1, <2>2, <2>5 DEF Spaces!Next, Spaces!Allocate
    <2> QED  BY <2>3, <2>4, <2>5
  <1>7. ASSUME UNCHANGED <<hvars, pvars>>
        PROVE  UNCHANGED <<hvars, directories, current_directory, tables, pages>>
    BY <1>7 DEF pvars
  <1> QED  BY <1>1, <1>2, <1>3, <1>4, <1>5, <1>6, <1>7 DEF PagingNext

(***************************************************************************)
(* The directories implement separate address spaces (AddressSpaces): each *)
(* call changes at most one page, of the current directory, and a new      *)
(* directory or table maps nothing by itself.  Only with too little memory *)
(* for a table or a directory is a mapping lost, and with it what the      *)
(* directory at 0 maps.                                                    *)
(***************************************************************************)
THEOREM PagingImplementsSpaces == PagingSpec => SpacesSpec
  <1>1. PagingInv /\ [PagingNext]_<<hvars, pvars>>
          => [Spaces!Next]_<<directories, current_directory, SpaceMap, Room>>
    BY SpaceStep
  <1>2. PagingSpec => Spaces!Init /\ [][Spaces!Next]_<<directories, current_directory, SpaceMap, Room>>
    BY <1>1, SpaceInit, PagingInvariant, PTL DEF PagingSpec
  <1> QED  BY <1>2 DEF SpacesSpec, Spaces!Spec
=============================================================================
