------------------------------- MODULE Paging -------------------------------
(***************************************************************************)
(* Page directories, page tables and the frame bitmap of                   *)
(* kernel/memory/paging.c, after paging_init, on the heap of module KHeap, *)
(* which other parts of the kernel allocate from as well.  A directory or  *)
(* a table is named by its address; virtual addresses are counted in       *)
(* pages, offsets within a page are left out.                              *)
(*                                                                         *)
(* Nothing tests for a failed allocation: the table or directory is taken  *)
(* to be at address 0.  Low memory is then a directory whose array tables  *)
(* is, word for word, the contents of the table at 0.  Once a word of an   *)
(* entry is followed as the address of a table, the kernel writes to some  *)
(* place in memory and paging is followed no further (lost).               *)
(*                                                                         *)
(* The processor walks the structures that CR3 points to.  It is followed  *)
(* here from the entries of a directory on; that CR3 holds their address   *)
(* is not.                                                                 *)
(***************************************************************************)
EXTENDS KHeap, FiniteSetsExt

CONSTANTS
  PAGE_ENTRIES,
  NFrames,     \* nframes
  WordBits,    \* frames in a word of the bitmap
  Identity,    \* pages paging_init maps to themselves
  MapPages     \* bound: the virtual pages that are mapped later

VPages == 0 .. PAGE_ENTRIES * PAGE_ENTRIES - 1

\* sizeof: the bitmap, a table and a directory, which is two tables of words
\* and one word.
BITMAP_SIZE == (NFrames \div WordBits) * 4
TABLE_SIZE == 4 * PAGE_ENTRIES
DIRECTORY_SIZE == 8 * PAGE_ENTRIES + 4

KernelTables == Identity \div PAGE_ENTRIES

\* Where paging_init's allocations come to lie.
kernel_directory == AlignUp(HEAP_START + BITMAP_SIZE, PAGE_SIZE)
KernelTable(i) == AlignUp(kernel_directory + DIRECTORY_SIZE, PAGE_SIZE) + i * TABLE_SIZE

ASSUME PagingAssumption ==
  /\ PAGE_ENTRIES \in Nat \ {0} /\ TABLE_SIZE = PAGE_SIZE
  /\ Cardinality(VPages) * PAGE_SIZE = WORD
  /\ WordBits \in Nat \ {0} /\ NFrames \in Nat
  /\ NFrames % WordBits = 0 /\ NFrames < Cardinality(VPages)
  /\ Identity \in Nat \ {0} /\ Identity % PAGE_ENTRIES = 0 /\ Identity =< Cardinality(VPages)
  \* What paging_init allocates fits into the heap.
  /\ HEAP_START + BITMAP_SIZE < heap_end /\ kernel_directory + DIRECTORY_SIZE < heap_end
  /\ KernelTable(KernelTables) < heap_end /\ heap_end + DIRECTORY_SIZE + 3 < WORD
  \* A directory at 0 ends before the heap.
  /\ DIRECTORY_SIZE =< HEAP_START
  /\ MapPages \subseteq VPages

VARIABLES
  directories,                 \* the directories there are
  tables,                      \* [directory -> [index -> table or 0]]
  tables_physical,             \* the same as entries for the processor
  physical_addr,
  pages,                       \* the contents of the tables
  frames,                      \* the bitmap
  current_directory, cr3,
  lost                         \* an entry was taken for the address of a table

pvars == <<directories, tables, tables_physical, physical_addr, pages,
           frames, current_directory, cr3, lost>>

\* What kmalloc_a may return.
HeapPages == {p * PAGE_SIZE : p \in 0 .. heap_end \div PAGE_SIZE}
Index == 0..PAGE_ENTRIES-1
Flags == {"WRITABLE", "USER"}
Entry(physical, flags) == [addr |-> physical - (physical % PAGE_SIZE), flags |-> flags]
Entries == [addr : {p * PAGE_SIZE : p \in VPages}, flags : SUBSET Flags]
NoEntry == [addr |-> 0, flags |-> {"ABSENT"}]
Garbage == [addr |-> 0, flags |-> {"GARBAGE"}]   \* what memory holds before memset

\* A word of low memory, seen as an element of tables: the address of a table
\* or a present entry (PRESENT is 1, WRITABLE 2, USER 4).  Seen as an entry, the
\* address of a table is not present.
Word(e) == e.addr + 3 + (IF "USER" \in e.flags THEN 4 ELSE 0)
NotPresent(t) == [addr |-> t, flags |-> {"ABSENT"}]

IsTable(t) == t \in HeapPages \ {0}

dir_index(v) == v \div PAGE_ENTRIES
table_index(v) == v % PAGE_ENTRIES
-----------------------------------------------------------------------------
(***************************************************************************)
(* The frame bitmap.                                                       *)
(***************************************************************************)
Bit(f) == f % WordBits \in frames[f \div WordBits]

\* Mutant: word and bit number are swapped.
set_frame_swapped(addr) ==
  LET f == addr \div PAGE_SIZE
  IN  frames' = IF f >= NFrames THEN frames
                ELSE [frames EXCEPT ![f % WordBits] = @ \cup {f \div WordBits}]
set_frame(addr) ==
  LET f == addr \div PAGE_SIZE
  IN  frames' = IF f >= NFrames THEN frames
                ELSE [frames EXCEPT ![f \div WordBits] = @ \cup {f % WordBits}]

\* The lowest free frame, or -1.
first_free_frame ==
  LET free == {f \in 0..NFrames-1 : ~Bit(f)}
  IN  IF free = {} THEN WORD - 1 ELSE Min(free)
-----------------------------------------------------------------------------
\* Mutant: a new table keeps what the memory held.
ClearedNot(t) == pages[t]
Cleared(t) == [i \in Index |-> NoEntry]

\* Mutant: the new table is shared with the kernel directory.
EnterShared(d, i, t, flags) ==
  /\ tables' = [tables EXCEPT ![d][i] = t, ![kernel_directory][i] = t]
  /\ tables_physical' = [tables_physical EXCEPT ![d][i] = Entry(t, flags), ![kernel_directory][i] = Entry(t, flags)]
\* Mutant: the new table is entered in the kernel directory only.
EnterInKernel(d, i, t, flags) ==
  /\ tables' = [tables EXCEPT ![kernel_directory][i] = t]
  /\ tables_physical' = [tables_physical EXCEPT ![kernel_directory][i] = Entry(t, flags)]
\* Mutant: the new table is entered without telling the processor.
EnterSoftwareOnly(d, i, t, flags) ==
  tables' = [tables EXCEPT ![d][i] = t] /\ UNCHANGED tables_physical
\* The directory entry of a new table gets the USER bit if the page has not.
PhysicalEntry(t, flags) ==
  Entry(t, {"WRITABLE"} \cup (IF "USER" \in flags THEN {} ELSE {"USER"}))
Enter(d, i, t, flags) ==
  /\ tables' = [tables EXCEPT ![d][i] = t]
  /\ tables_physical' = [tables_physical EXCEPT ![d][i] = PhysicalEntry(t, flags)]

(***************************************************************************)
(* map_page.                                                               *)
(***************************************************************************)
Table(v) == tables[current_directory][dir_index(v)]

MapInTable(v, e) ==
  /\ IsTable(Table(v))
  /\ pages' = [pages EXCEPT ![Table(v)][table_index(v)] = e]
  /\ UNCHANGED <<hvars, tables, tables_physical, lost>>

\* In the directory at 0, the new table's address is a word of low memory.
MapInNewTable(v, e) ==
  /\ Table(v) = 0
  /\ kmalloc_a(TABLE_SIZE) /\ result' # 0
  /\ Enter(current_directory, dir_index(v), result', e.flags)
  /\ pages' = [pages EXCEPT
       ![result'] = [Cleared(result') EXCEPT ![table_index(v)] = e],
       ![current_directory][dir_index(v)] = IF current_directory = 0 THEN NotPresent(result') ELSE @]
  /\ UNCHANGED lost

\* Without memory, low memory is cleared and gets the entry, and the processor
\* is told of a table there.
MapInLowMemory(v, e) ==
  /\ Table(v) = 0
  /\ kmalloc_a(TABLE_SIZE) /\ result' = 0
  /\ tables' = [tables EXCEPT ![0] =
       [j \in Index |-> IF j = table_index(v) THEN Word(e) ELSE 0]]
  /\ tables_physical' = [tables_physical EXCEPT
       ![current_directory][dir_index(v)] = PhysicalEntry(0, e.flags)]
  /\ pages' = [pages EXCEPT ![0] = [Cleared(0) EXCEPT ![table_index(v)] = e]]
  /\ UNCHANGED lost

\* An entry is followed as if it were the address of a table.
GoAstray(v) ==
  /\ Table(v) # 0 /\ ~IsTable(Table(v))
  /\ lost' = TRUE
  /\ UNCHANGED <<hvars, tables, tables_physical, pages>>

map_page(v, physical, flags) ==
  LET e == Entry(physical, flags)
  IN  MapInTable(v, e) \/ MapInNewTable(v, e) \/ MapInLowMemory(v, e) \/ GoAstray(v)

\* map_page called by the kernel; bound: it maps a page to itself.
Map(v) ==
  /\ map_page(v, v * PAGE_SIZE, {"WRITABLE"})
  /\ UNCHANGED <<directories, physical_addr, frames, current_directory, cr3>>

unmap_page(v) ==
  /\ \/ /\ Table(v) = 0
        /\ UNCHANGED <<pages, lost>>
     \/ /\ IsTable(Table(v))
        /\ pages' = [pages EXCEPT ![Table(v)][table_index(v)] = NoEntry]
        /\ UNCHANGED lost
     \/ GoAstray(v)
  /\ UNCHANGED <<hvars, directories, tables, tables_physical, physical_addr, frames,
                 current_directory, cr3>>

\* alloc_frame, which create_process calls with is_kernel FALSE and
\* is_writable TRUE.  The check compares a multiple of PAGE_SIZE with -1.
alloc_frame(v, is_kernel) ==
  LET physical == (first_free_frame * PAGE_SIZE) % WORD
  IN  /\ IF physical = WORD - 1
         THEN UNCHANGED <<hvars, tables, tables_physical, pages, frames, lost>>
         ELSE /\ set_frame(physical)
              /\ map_page(v, physical, {"WRITABLE"} \cup (IF is_kernel THEN {} ELSE {"USER"}))
      /\ UNCHANGED <<directories, physical_addr, current_directory, cr3>>

-----------------------------------------------------------------------------
(***************************************************************************)
(* Directories, and what get_physical_address finds in one of them.        *)
(***************************************************************************)
Walk(d, v) ==
  LET t == tables[d][dir_index(v)]
  IN  IF t = 0 THEN NoEntry
      ELSE IF IsTable(t) THEN pages[t][table_index(v)] ELSE Garbage

\* What the processor finds from the entries of a directory.  It grants what
\* the entry of the table and that of the page grant.
ProcessorWalk(d, v) ==
  LET entry == tables_physical[d][dir_index(v)]
      page == pages[entry.addr][table_index(v)]
  IN  IF entry = NoEntry \/ page \notin Entries THEN NoEntry
      ELSE [addr |-> page.addr, flags |-> entry.flags \cap page.flags]

\* The pages that alloc_frame mapped for user mode, in any directory.
UserPages == {x \in directories \X VPages : "USER" \in Walk(x[1], x[2]).flags}
FrameOf(x) == Walk(x[1], x[2]).addr \div PAGE_SIZE

\* clear_frame.  Nothing calls it; that a caller has unmapped the page before is
\* an assumption.
clear_frame(f) ==
  /\ \A x \in UserPages : FrameOf(x) # f
  /\ frames' = IF f >= NFrames THEN frames
               ELSE [frames EXCEPT ![f \div WordBits] = @ \ {f % WordBits}]
  /\ UNCHANGED <<hvars, directories, tables, tables_physical, physical_addr, pages,
                 current_directory, cr3, lost>>

\* create_page_directory.  Without memory the directory is the one at 0,
\* whoever uses it already.
create_page_directory ==
  /\ kmalloc_a(DIRECTORY_SIZE)
  /\ directories' = directories \cup {result'}
  /\ tables' = [tables EXCEPT ![result'] = [i \in Index |-> 0]]
  /\ tables_physical' = [tables_physical EXCEPT ![result'] = [i \in Index |-> NoEntry]]
  /\ physical_addr' = [physical_addr EXCEPT ![result'] = result']
  /\ pages' = IF result' = 0 THEN [pages EXCEPT ![0] = Cleared(0)] ELSE pages
  /\ UNCHANGED <<frames, current_directory, cr3, lost>>

switch_page_directory(dir) ==
  /\ dir \in directories
  /\ current_directory' = dir
  /\ cr3' = physical_addr[dir]
  /\ UNCHANGED <<hvars, directories, tables, tables_physical, physical_addr, pages, frames, lost>>
-----------------------------------------------------------------------------
(***************************************************************************)
(* The state paging_init leaves: kernel_directory and the tables of the    *)
(* identity map.  The physical_addr of kernel_directory is never assigned. *)
(***************************************************************************)
OfKernel(d, i) == d = kernel_directory /\ i < KernelTables

PagingInit ==
  /\ heap_current = KernelTable(KernelTables)
  /\ paged = {[addr |-> kernel_directory, size |-> DIRECTORY_SIZE]} \cup
             {[addr |-> KernelTable(i), size |-> TABLE_SIZE] : i \in 0..KernelTables-1}
  /\ blocks = paged \cup {[addr |-> HEAP_START, size |-> BITMAP_SIZE]}
  /\ result = KernelTable(KernelTables - 1)
  /\ directories = {kernel_directory} /\ current_directory = kernel_directory
  /\ tables = [d \in HeapPages |-> [i \in Index |-> IF OfKernel(d, i) THEN KernelTable(i) ELSE 0]]
  /\ tables_physical = [d \in HeapPages |-> [i \in Index |->
       IF OfKernel(d, i) THEN PhysicalEntry(KernelTable(i), {"WRITABLE"}) ELSE NoEntry]]
  /\ physical_addr = [d \in HeapPages |-> 0] /\ cr3 = 0
  /\ pages = [t \in HeapPages |-> [i \in Index |->
       IF t \in KernelTable(0) .. KernelTable(KernelTables) - 1
       THEN Entry((t - KernelTable(0)) * PAGE_ENTRIES + i * PAGE_SIZE, {"WRITABLE"})
       ELSE Garbage]]
  /\ frames = [w \in 0 .. NFrames \div WordBits - 1 |-> {}]
  /\ lost = FALSE

PagingNext ==
  \/ /\ ~lost
     /\ \/ \E v \in MapPages : Map(v) \/ unmap_page(v) \/ alloc_frame(v, FALSE)
        \/ \E f \in 0..NFrames-1 : clear_frame(f)
        \/ create_page_directory
        \/ \E d \in directories : switch_page_directory(d)
  \/ Next /\ UNCHANGED pvars   \* others use the heap

PagingSpec == PagingInit /\ [][PagingNext]_<<hvars, pvars>>
-----------------------------------------------------------------------------
PagingTypeOK ==
  /\ TypeOK
  /\ directories \subseteq HeapPages /\ current_directory \in directories
  /\ \A d \in HeapPages \ {0} : tables[d] \in [Index -> HeapPages]
  /\ tables \in [HeapPages -> [Index -> HeapPages \cup {Word(e) : e \in Entries}]]
  /\ tables_physical \in [HeapPages -> [Index -> [addr : HeapPages, flags : SUBSET Flags] \cup {NoEntry}]]
  /\ physical_addr \in [HeapPages -> HeapPages] /\ cr3 \in HeapPages
  /\ \A t \in HeapPages \ {0} : pages[t] \in [Index -> Entries \cup {NoEntry, Garbage}]
  /\ pages \in [HeapPages -> [Index -> Entries \cup {Garbage} \cup {NotPresent(t) : t \in HeapPages}]]
  /\ frames \in [0 .. NFrames \div WordBits - 1 -> SUBSET (0..WordBits-1)]
  /\ lost \in BOOLEAN

(***************************************************************************)
(* No page table of the heap serves two places: not two indexes of a       *)
(* directory, not two directories, and none lies in a directory, the one   *)
(* at address 0 included, whoever allocates in between and however often   *)
(* an allocation fails.                                                    *)
(***************************************************************************)
TablesPrivate ==
  \A d, e \in directories, i, j \in Index :
    IsTable(tables[d][i]) =>
      /\ tables[d][i] = tables[e][j] => d = e /\ i = j
      /\ tables[d][i] \notin e .. e + DIRECTORY_SIZE - 1

(***************************************************************************)
(* A page that get_physical_address finds through tables is found by the   *)
(* processor, which goes through tables_physical, in the same frame, as    *)
(* writable, and for user mode only if it was mapped for that, in every    *)
(* directory.  It is not said that user mode reaches every page mapped for *)
(* it: PhysicalEntry shuts it out of the tables made for such a page.      *)
(***************************************************************************)
ArraysAgree ==
  \A d \in directories, v \in VPages :
    LET found == ProcessorWalk(d, v)
    IN  Walk(d, v) \in Entries =>
          /\ found.addr = Walk(d, v).addr
          /\ found.flags \subseteq Walk(d, v).flags
          /\ "WRITABLE" \in Walk(d, v).flags => "WRITABLE" \in found.flags

(***************************************************************************)
(* Two user pages, of the same or of different directories, never share a  *)
(* frame of RAM, and the bitmap marks every frame in use: whatever was     *)
(* mapped over, unmapped and cleared before.                               *)
(***************************************************************************)
FramesOwned ==
  \A x \in UserPages : FrameOf(x) < NFrames =>
    /\ Bit(FrameOf(x))
    /\ \A y \in UserPages \ {x} : FrameOf(y) # FrameOf(x)

(***************************************************************************)
(* A page that map_page or alloc_frame maps is found there afterwards, if  *)
(* it has a table or there is room for one: only a mapping that needs a    *)
(* table the heap cannot give is lost, without an error (paging.c:76).     *)
(***************************************************************************)
Room == heap_end - AlignUp(heap_current, PAGE_SIZE)

MapTakesEffect ==
  [][ \A v \in MapPages : IsTable(Table(v)) \/ (Table(v) = 0 /\ Room > TABLE_SIZE) =>
        /\ Map(v) => Walk(current_directory, v)' = Entry(v * PAGE_SIZE, {"WRITABLE"})
        /\ alloc_frame(v, FALSE) => {"WRITABLE", "USER"} \subseteq Walk(current_directory, v)'.flags
    ]_<<hvars, pvars>>

(***************************************************************************)
(* The directories implement separate address spaces (AddressSpaces):      *)
(* map_page and unmap_page change one page of the current directory and no *)
(* other page of any; a fresh directory, and a fresh table, maps nothing   *)
(* else.  Only when too little memory is left for a table or a directory   *)
(* does the directory at 0, which no other than failed creations return,   *)
(* lose what it maps.                                                      *)
(***************************************************************************)
SpaceMap == [d \in HeapPages |-> [v \in VPages |-> Walk(d, v)]]

Spaces == INSTANCE AddressSpaces WITH
  Dirs <- HeapPages, First <- kernel_directory, Low <- 0,
  FirstMap <- [v \in VPages |-> IF v < Identity THEN Entry(v * PAGE_SIZE, {"WRITABLE"}) ELSE NoEntry],
  dirs <- directories, current <- current_directory,
  space <- SpaceMap,
  free <- Room

SpacesSpec == Spaces!Spec
=============================================================================
