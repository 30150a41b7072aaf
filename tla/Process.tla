------------------------------ MODULE Process ------------------------------
(***************************************************************************)
(* What the processes of module Scheduler own, kernel/process.c: a kernel  *)
(* stack, a page directory, a user stack and the saved registers that      *)
(* context_switch exchanges.                                               *)
(*                                                                         *)
(* Only the fields of cpu_state_t that matter are kept: esp and cr3, which *)
(* create_process fills in, and esi and edi, whose offsets 16 and 20       *)
(* context_switch uses for the stack pointer and the page directory.       *)
(***************************************************************************)
EXTENDS Scheduler

VARIABLES
  kernel_stack,       \* whose stack each process was given; NULL: low memory
  page_directory,     \* Kernel for kernel_directory, NULL if none was allocated
  current_directory,
  user_page,          \* [directory -> whose user stack 0xBFFFF000 maps to]
  slot,               \* cpu_state: [Proc -> [esp, cr3, esi, edi]]
  esp, cr3,           \* the registers
  heap,               \* the largest request of create_process kmalloc can serve
  stack               \* [whose stack -> whose registers context_switch pushed
                      \*   on it last]; NULL: nobody's, and low memory's index

memory == <<kernel_stack, page_directory, user_page, heap>>
cpu    == <<current_directory, slot, esp, cr3, stack>>
pvars  == <<svars, memory, cpu>>

\* Stack pointers: the top of a fresh stack, a frame on a stack in use, or 0.
\* Every switch is reached through the same calls, so whoever runs on a stack
\* leaves its frame at the same place of it: Frame(p) is that place, stack[p]
\* says whose frame it holds.
Top(p)   == <<p, "top">>
Frame(p) == <<p, "frame">>
Zero     == <<NULL, "zero">>
Pointers == (Ref \X {"top", "frame"}) \cup {Zero}
-----------------------------------------------------------------------------
(***************************************************************************)
(* create_process allocates a structure, a kernel stack and, for user      *)
(* mode, a page directory, each larger than the one before.  kmalloc never *)
(* gives memory back, so what it can serve only shrinks; each allocation   *)
(* may shrink it by any amount.  Only the first one is checked.            *)
(***************************************************************************)
STRUCT == 1
STACK == 2
DIRECTORY == 3

\* physical_addr: paging_init never sets that of kernel_directory, it is 0.
PhysicalAddr(dir) == IF dir = Kernel THEN NULL ELSE dir

Stack(p, room) == IF room >= STACK THEN p ELSE NULL
Directory(p, kernel_mode, room) ==
  IF kernel_mode THEN Kernel ELSE IF room >= DIRECTORY THEN p ELSE NULL

\* Mutant: the stack pointer the creator has saved is taken over, as by fork.
FreshCopied(p, kernel_mode) ==
  [esp |-> Top(IF kernel_mode THEN kernel_stack'[p] ELSE p),
   cr3 |-> PhysicalAddr(page_directory'[p]),
   esi |-> slot[current_process].esi, edi |-> NULL]
\* The saved registers of a new process; memset leaves esi and edi zero.
Fresh(p, kernel_mode) ==
  [esp |-> Top(IF kernel_mode THEN kernel_stack'[p] ELSE p),
   cr3 |-> PhysicalAddr(page_directory'[p]),
   esi |-> Zero, edi |-> NULL]

\* All of create_process but cpu_state, which fork overwrites.
create_process(p, kernel_mode, par) ==
  /\ heap >= STRUCT
  /\ AddProcess(p, par)
  /\ \E room1 \in 0..heap : \E room2 \in 0..room1 :
       /\ kernel_stack' = [kernel_stack EXCEPT ![p] = Stack(p, room1)]
       /\ page_directory' = [page_directory EXCEPT ![p] = Directory(p, kernel_mode, room2)]
       /\ heap' \in 0..room2
  /\ user_page' = IF kernel_mode THEN user_page
                  ELSE [user_page EXCEPT ![current_directory] = p]
  /\ UNCHANGED <<current_directory, esp, cr3, stack>>

Create(p, kernel_mode) ==
  /\ create_process(p, kernel_mode, NULL)
  /\ slot' = [slot EXCEPT ![p] = Fresh(p, kernel_mode)]

\* fork: a user process with a copy of its parent's saved registers, those of
\* the last time the parent lost the CPU; no memory is copied.
fork(child) ==
  /\ create_process(child, FALSE, current_process)
  /\ slot' = [slot EXCEPT ![child] = slot[current_process]]

\* Mutant: the stack pointer is saved where it is not read back.
SaveElsewhere(p) == [slot EXCEPT ![p].esp = Frame(esp[1])]
\* context_switch saves esp at offset 16 of cpu_state, which is esi.
Save(p) == [slot EXCEPT ![p].esi = Frame(esp[1])]

\* switch_task and context_switch, which loads esp and cr3 from offsets 16
\* and 20, if schedule found another process.  The registers pushed before
\* take the place of the frame that the stack held.  One that gets stack
\* pointer 0 goes on in low memory.
switch_task ==
  LET new == current_process'
  IN  IF new = current_process THEN UNCHANGED cpu
      ELSE /\ current_directory' = page_directory[new]
           /\ slot' = Save(current_process)
           /\ stack' = [stack EXCEPT ![esp[1]] = current_process]
           /\ esp' = slot'[new].esi
           /\ cr3' = slot'[new].edi
-----------------------------------------------------------------------------
\* The state process_init leaves: the kernel runs on its boot stack.
ProcessInit ==
  /\ Init
  /\ kernel_stack = [p \in Proc |-> IF p = Kernel THEN p ELSE NULL]
  /\ page_directory = [p \in Proc |-> IF p = Kernel THEN p ELSE NULL]
  /\ current_directory = Kernel /\ user_page = [d \in Ref |-> NULL]
  /\ slot = [p \in Proc |-> [esp |-> Top(p), cr3 |-> NULL, esi |-> Zero, edi |-> NULL]]
  /\ esp = Frame(Kernel) /\ cr3 = NULL
  /\ heap = DIRECTORY /\ stack = [r \in Ref |-> NULL]

ProcessNext ==
  \/ \E p \in Proc :
       \/ \E kernel_mode \in BOOLEAN : Create(p, kernel_mode)
       \/ fork(p)
       \/ destroy_process(p) /\ UNCHANGED <<memory, cpu>>
  \/ (schedule \/ exit) /\ switch_task /\ UNCHANGED memory

ProcessSpec == ProcessInit /\ [][ProcessNext]_pvars
-----------------------------------------------------------------------------
ProcessTypeOK ==
  /\ TypeOK
  /\ kernel_stack \in [Proc -> Ref] /\ page_directory \in [Proc -> Ref]
  /\ current_directory \in Ref /\ user_page \in [Ref -> Ref]
  /\ slot \in [Proc -> [esp : Pointers, cr3 : Ref, esi : Pointers, edi : {NULL}]]
  /\ esp \in Pointers /\ cr3 \in Ref
  /\ heap \in 0..DIRECTORY
  /\ stack \in [Ref -> Ref]

(***************************************************************************)
(* A process that gets the CPU back goes on in the frame that it left, on  *)
(* whatever stack that was, as long as no other process has pushed its own *)
(* there: creating, forking, destroying and switching lose no other frame, *)
(* and what context_switch loads is what it saved.                         *)
(***************************************************************************)
GoesOnInItsFrame ==
  [][ current_process' # current_process =>
        \A r \in Ref : stack'[r] = current_process' => esp' = Frame(r) ]_pvars

(***************************************************************************)
(* Only fork brings two processes onto one stack that create_process       *)
(* allocated: whoever overwrites the frame in which another waits there    *)
(* was forked, or the other was.  Parent and child do overwrite each       *)
(* other's frames, since fork copies the saved stack pointer.              *)
(***************************************************************************)
FramesKept ==
  [][ \A p \in Proc :
        stack[p] \notin {NULL, current_process} /\ stack'[p] # stack[p]
          => parent[current_process] # NULL \/ parent[stack[p]] # NULL ]_pvars

(***************************************************************************)
(* A process starts with the state create_process prepared ("Set up        *)
(* initial CPU state", process.c:41): the CPU is on a stack of the current *)
(* process.                                                                *)
(***************************************************************************)
StartsOnItsStack == esp[1] = current_process
=============================================================================
