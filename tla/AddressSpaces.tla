--------------------------- MODULE AddressSpaces ---------------------------
(***************************************************************************)
(* What kernel/memory/paging.c promises: every page directory is an        *)
(* address space of its own, a map from virtual pages to entries, and only *)
(* the current one is changed, one page at a time.  The promise holds as   *)
(* long as there is memory for tables and directories; what is left when   *)
(* there is not is stated by the actions named ...WithoutMemory.           *)
(***************************************************************************)
EXTENDS Naturals

CONSTANTS
  Dirs,      \* the directories that may be created
  VPages,    \* the virtual pages
  Entries,   \* what a page may be mapped to
  NoEntry, Garbage,
  First,     \* the directory the system starts with, and what it maps
  FirstMap,
  Low,       \* the directory that is not in the memory of directories
  TABLE_SIZE, DIRECTORY_SIZE

VARIABLES
  dirs, current, space,
  free       \* memory for tables and directories

Unmapped == [v \in VPages |-> NoEntry]

Init ==
  /\ dirs = {First} /\ current = First
  /\ space = [d \in Dirs |-> IF d = First THEN FirstMap ELSE Unmapped]
  /\ free \in Nat

Create ==
  /\ free > DIRECTORY_SIZE
  /\ \E d \in Dirs \ (dirs \cup {Low}) : dirs' = dirs \cup {d}
  /\ free' < free
  /\ UNCHANGED <<current, space>>

\* Everyone who creates a directory now gets Low, and clears it.
CreateWithoutMemory ==
  /\ free <= DIRECTORY_SIZE
  /\ dirs' = dirs \cup {Low}
  /\ space' = [space EXCEPT ![Low] = Unmapped]
  /\ UNCHANGED <<current, free>>

Switch ==
  /\ current' \in dirs \ {current}
  /\ UNCHANGED <<dirs, space, free>>

\* One page of the current space is mapped to an entry or unmapped.
Map ==
  /\ free' <= free
  /\ UNCHANGED <<dirs, current>>
  /\ \A d \in Dirs \ {current} : space'[d] = space[d]
  /\ \E v \in VPages :
       /\ space'[current][v] \in Entries \cup {NoEntry}
       /\ \A w \in VPages \ {v} : space'[current][w] = space[current][w]

\* The mapping is lost, and with it all that Low maps.
MapWithoutMemory ==
  /\ free <= TABLE_SIZE
  /\ UNCHANGED <<dirs, current, free>>
  /\ \A d \in Dirs \ {Low} : space'[d] = space[d]
  /\ space'[Low] \in [VPages -> {NoEntry, Garbage}]

\* Others take memory.
Allocate ==
  /\ free' < free
  /\ UNCHANGED <<dirs, current, space>>

Next ==
  \/ Create \/ CreateWithoutMemory \/ Switch \/ Allocate
  \/ Map \/ MapWithoutMemory

Spec == Init /\ [][Next]_<<dirs, current, space, free>>
=============================================================================
