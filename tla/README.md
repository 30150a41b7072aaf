# Kyro kernel: a verification project in TLA+

Kyro is a small 32-bit x86 kernel in C and assembly. It boots from a floppy,
sets up interrupts, paging and a heap, reads a login from the keyboard and then
idles. This directory models the parts of it that keep state or compute, checks
the models with TLC on small instances and proves theorems about all of them but
the boot loader with TLAPS.

Every definition is written from the source; `PROJECT.json` ("map") names the
lines each one stands for. Paths below are relative to `src/`.

## 1. The system

| Component | State | Operations | Talks to |
|---|---|---|---|
| Boot loader, `boot/boot.asm` | registers CX, BX, DX, the memory it fills | `load_kernel`, `load_loop`, `disk_error` | BIOS, then `kernel_entry.s` |
| Kernel start, `kernel/kernel.c` | none | `kernel_init`, `kernel_main` | every `*_init`, then `login_prompt`, idle loop |
| Screen, `kernel/kernel.c` | cursor and VGA memory | `clear_screen`, `print_message`, `putchar` | called by all |
| Interrupts, `kernel/interrupts/`, `kernel/pic.c`, `kernel/timer.c` | IDT, PIC masks and in-service bits, `tick_count` | `idt_init`, `pic_init`, `pic_enable_irq`, `pic_send_eoi`, `irq_common_stub`, `isr_common_stub`, `timer_handler`, `sleep`, the exception handlers | keyboard and timer handlers, whatever is interrupted |
| System calls, `kernel/syscall.c` | what the stub pushes | `syscall_init`, `syscall_handler_asm`, `syscall_handler` | a caller of `int 0x80` |
| Keyboard driver, `kernel/drivers/keyboard.c` | `keyboard_state`: ring of 256 scan codes, flags, LEDs, prefix | `keyboard_handler` (in the interrupt), `keyboard_get_char` (main thread) | PIC, terminal |
| Terminal and login, `kernel/terminal.c`, `kernel/login.c` | the line buffer | `terminal_getchar`, `terminal_get_line`, `login_prompt` | keyboard driver, users |
| Heap, `kernel/utils/memory.c` | `heap_current` | `kmalloc`, `kmalloc_p`, `kmalloc_a`, `kmalloc_ap`, `kfree` | paging, processes |
| Paging, `kernel/memory/paging.c` | directories, tables, frame bitmap, `current_directory`, CR3 | `map_page`, `unmap_page`, `alloc_frame`, `set_frame`, `clear_frame`, `create_page_directory`, `switch_page_directory` | heap, processes |
| Processes, `kernel/process.c` | `process_list`, `current_process`, per process: state, registers, stacks, directory | `create_process`, `destroy_process`, `schedule`, `switch_task`, `context_switch`, `fork`, `exit` | heap, paging |
| Users, `kernel/user.c` | `users`, `user_count`, `next_uid` | `add_user`, `remove_user`, `authenticate_user`, `get_user`, `list_users` | login, kernel start |
| Files, `kernel/fs.c` | `file_list`, `file_count` | `create_file`, `create_directory`, `delete_file`, `delete_directory`, `read_file`, `write_file`, `list_files` | shell, kernel start |
| Formatted output, `kernel/printf.c` | none | `printf`, `sprintf`, `scanf`, ... | screen |
| Strings and numbers, `kernel/utils/string.c`, `kernel/utils/math.c` | none | `strcpy`, `strncpy`, `strcmp`, `pow`, `sqrt`, `gcd`, `lcm`, ... | users, files |
| Shell, mouse, network, packages, scripting | none, or none that is used | print | printf |

What makes it hard, and what correctness means:

* **Keyboard driver.** The interrupt handler and the main thread share the ring
  without `cli`, and `keyboard_state` is not `volatile`. Correct: a FIFO; no key
  lost, invented, repeated or reordered, at a full ring and at any interleaving.
* **Input path.** Two interrupts with priorities, two EOIs for each, `hlt` after
  a test for an empty ring, LED acknowledgements among the key bytes. Correct:
  keys arrive in order, no interrupt loses its EOI, no modifier sticks, no key
  in the ring waits for another one, lines fit their buffer.
* **Ways into the kernel.** Three stubs push and pop by hand, find the vector by
  its distance from the top of the stack and use AX on the way; an interrupt
  falls between any two instructions of a thread whose locals are in registers;
  `sleep` tests and halts in two steps and adds in 32 bits. Correct: the right
  handler is called, the thread does not notice, a sleep lasts as long as asked,
  a call returns, and only an exception stops the machine.
* **Screen.** Wrapping and scrolling, an erasure of three characters for one of
  the line. Correct: the user sees the line that is returned, and the prompt.
* **Heap.** Rounding and the test at the end, for callers that want words and
  callers that want pages in turn. Correct: blocks lie apart, inside the heap and
  aligned.
* **Processes.** A linked list changed at its head and unlinked anywhere, a
  search that goes round it, a switch that addresses a structure by literal
  offsets, allocations that are not checked. Correct: the list is exact, the
  search ends, turns are fair, a process goes on in the frame it left, which no
  other overwrites, an exited one does not.
* **Paging.** Tables made on demand in whatever directory is current, a bitmap
  apart from them, a heap that runs out, allocations that are not checked. Correct:
  separate address spaces, mappings that take effect for the kernel and for the
  processor, no frame given twice.
* **Users and files.** Arrays from which entries are removed by shifting; strings
  in fields one behind the other, copied with and without a limit, with what an
  earlier one left behind their NUL. Correct: sets of accounts with exact logins,
  queues of files, strings that end in their field, listings that show them.
* **Boot.** 16-bit registers used for two things. Correct: the whole kernel is
  loaded.

## 2. Modules

| Module | Models | Composes |
|---|---|---|
| `Keyboard` | `keyboard.c`; the reader one memory access per step, in the order of the source or in the one gcc emits | refines `KeyFifo` |
| `KeyFifo` | abstract: a bounded queue that drops when full | |
| `Screen` | `print_message` and `putchar` as functions from a screen to a screen | |
| `InputPath`, `MCInputPath` | keyboard, controller, PIC, stub, handlers, `kernel_main`, `terminal_get_line` and its echo; two keyboards and a prompt for TLC | extends `Keyboard` and `Screen` |
| `KHeap` | `kmalloc` and its variants | |
| `Traps` | gates, the stubs dword by dword, the handlers they call, `tick_count`; a thread that sleeps, computes with `math.c` one loop body per step, makes system calls and faults | |
| `Scheduler` | `process_list`, states, `schedule`, `exit`, `destroy_process` | |
| `Process` | what a process owns; `create_process`, `fork`, `context_switch` | extends `Scheduler` |
| `Paging` | `paging.c` on a heap that others allocate from as well; heap addresses in bytes, virtual ones in pages | extends `KHeap`, refines `AddressSpaces` |
| `AddressSpaces` | abstract: one map of pages per directory, changed in the current one only; what is left of that without memory is in actions of their own (`...WithoutMemory`) | |
| `Strings` | `strlen`, `strcpy`, `strncpy`, `strcmp` on a memory of characters | |
| `Printf` | `printf` as a function from a format and arguments to characters | |
| `KernelData`, `MCKernelData` | `users` and `file_list`, their strings in memory, the listings; strings for TLC | extends `Strings` and `Printf`, refines `Accounts` and `NameQueues` |
| `Accounts`, `NameQueues` | abstract: a partial function from names to accounts; a queue of files per name | |
| `Boot` | `load_kernel` and `load_loop` | |
| `KeyboardProofs`, `InputPathProofs`, `KHeapProofs`, `PagingProofs`, `ProcessProofs`, `TrapsProofs`, `KernelDataProofs` | theorems | each extends the module it is about, and the proofs below that: the path's those of the keyboard, paging's those of the heap |
| `Arithmetic` | lemmas on numbers, recursion and folds | used by those |

How code becomes actions:

* *Atomicity.* Handlers run behind interrupt gates with the flag clear, so one
  handler is one step. The main thread is interruptible; where it shares memory
  with a handler (`keyboard_buffer_get`) each access is a step, `hlt` and the
  test before it are two. In `Traps` a step of the thread is a loop body or less,
  since all it touches besides `tick_count` is its own registers; a stub up to
  the return of its handler, and from there to `iret`, is one step each. Nothing
  else is shared with a handler: the call of
  `schedule` in `timer_handler` is commented out (`timer.c:25`), so functions of
  processes, paging, heap, users and files are one step each.
* *Compiler.* `Codegen = "gcc"` is the order of `keyboard_buffer_get` that gcc 12
  generates at the Makefile's `-Os`: load the count, store the decremented copy,
  read the slot, store the tail.
* *Loops.* A function is a step, so the loop of `schedule` is the least set that
  contains what the search meets (`Scheduler!Met`), and it ends where that set
  has a process that is not passed over (`Stops`); the list is the least set
  closed under `next` (`Listed`). A cyclic list or a search without an end is
  thus a state a property can see. Printing several characters is a fold. The
  numeric routines are loops of steps, so their results are checked with
  interrupts between the steps.
* *Arguments of file operations.* `KernelData` models what `write_file` leaves of its
  content and which kind of file is created; `NameQueues` allows any kept content and
  either kind. The refinement ties an operation to its name, not to its other arguments.
* *Characters.* A character is named by the key it comes from, with or without
  SHIFT; the prompt is one glyph no key has. In `KernelData` a string is a
  sequence of characters, and a field is memory: NUL ends a string and what is
  behind it stays.
* *Interfaces.* `Process` sees the heap as three levels: it can still serve a
  directory, a stack, a structure or nothing, and each allocation may lower it.
  `Paging` runs on `KHeap` itself: `map_page` and `create_page_directory` call
  `kmalloc_a`, and all other actions of the heap may come in between.
  `InputPath` takes scan code set 1, the 8259 priorities and the 8042 output
  buffer from the way the code uses them (marked external).
* *Failed allocations in `Paging`.* Nothing tests for them, so a table or a
  directory is then the memory at address 0. `create_page_directory` clears it and
  returns a directory at 0, the same one each time; `map_page` clears it and writes
  the entry there, and tells the processor of a table at 0, but the pointer in
  `tables` is 0 as before. Low memory is thus a table and a directory at once: the
  array `tables` of the directory at 0 and the entries of the table at 0 are the same
  words (`Word`, `NotPresent`). Once a present entry is followed as if it were the
  address of a table (`GoAstray`), the kernel writes to some place in memory; `lost` is
  set and the behaviour ends there. On the real addresses the 8196 bytes cleared for a
  directory also hold the beginning of the kernel, loaded at 0x1000; the model does
  not look at that.
* *Frames in `Process`.* `context_switch` is reached through the same calls each time, so
  the model takes whoever runs on a stack to leave its registers at the same place
  of it (a bound: one depth of calls). `stack` says whose registers that place
  holds. A process that is given stack pointer 0 goes on in low memory, which is
  one more stack.
* *Independence.* Each component is modelled from the state its own `_init`
  leaves. The boot loader's counter (run `boot`) and the first context switch
  (run `process_stack`) would stop the real system before some of those states;
  the other runs say what the rest of the code does once they are repaired.

## 3. Runs

| Run | Question | Answer and bounds |
|---|---|---|
| `keyboard_gcc` | What is left in gcc's order? | No key invented; a wrong one is a later key of the same slot. Two slots, six keys |
| `keyboard_lost` | Is an empty ring really empty in gcc's order? | **No**: an interrupt between load and store of the count is forgotten |
| `input_path` | Order, EOIs, line length and echo from key to screen, in source order? | All right, and the ring implements `KeyFifo`. Three presses with releases, of a letter, BACKSPACE and CAPS LOCK, on a ring of two: it fills, drops and wraps, an LED acknowledgement comes between two keys, a line is erased at its beginning and filled. `max_length` 3; a screen of 4 by 2 cells, just wide enough for prompt and line as the real one is, so that the prompt after a full line wraps and the last row scrolls |
| `input_path_live` | Is every key in the ring read, does a modifier stick, and what do ENTER and keys without a character show? | Every key is read, under the fairness below; none sticks; the echo is right. Two presses of a letter, BACKSPACE, ENTER, F1 and right CTRL, whose codes have a prefix that may be dropped or nested; same screen |
| `process` | List, states, search, turns, resumption, stacks | All hold: in particular a process goes on in the frame it left (`GoesOnInItsFrame`), as long as nobody has pushed another one over it, and only a forked child and its kin do that (`FramesKept`). Three processes: a list with a head, a middle and a tail, so unlinking has each of its cases; forks, children on the stack of their parent, and a heap that fails at each of the three allocations |
| `process_exit` | Is an exited process dispatched again? | **Yes**: `schedule` sets it READY |
| `process_stack` | Does a new process start on its stack? | **No**: `context_switch` uses offsets of `esi` and `edi` for ESP and CR3 |
| `paging` | Are address spaces separate, do mappings take effect, are frames owned, and heap blocks apart, inside and aligned? | Yes, also when allocations fail: `AddressSpaces` is implemented, and a mapping is lost only when it needs a table and there is no memory for it. Addresses of 8 bits, pages of 16 bytes, tables of four entries. `paging_init` leaves five pages of the heap, for a directory and a table, for tables only, or for less when others have allocated. These ask once for 5 bytes, neither words nor pages, in words or in pages. Two frames, one page besides the identity map, mapped and unmapped in every directory; heap and frames run out, and the directory at 0 is created, shared, mapped in and cleared |
| `kernel_data` | Do the arrays implement sets and queues, down to the characters? | Yes. Fields of three characters; strings that are empty, short, just fit and do not. Two users at a time of three added, so a number could come back; three files, so one is removed from the front, the middle and the end. `table` lets a behaviour work on one of the two arrays: no function touches both |
| `traps` | Does the interrupted thread notice, is the right handler called, are results and sleeps right, what stops the machine, does every call return? | As it should be, with the exceptions the properties name: `sqrt(2^32-1)` and `lcm(0, 0)` divide by zero and halt the system, `lcm` is right only while the product fits, and a sleep whose target is 2^32-1 misses it and lasts for another 2^32 ticks. Words of 5 bits, halves of 3, so every sum and product wraps; arguments 0, a square, a composite, the greatest word; sleeps below, at and beyond a tick, from every value of the counter |
| `syscall_number` | Does the number of a system call reach its handler? | **No**: AX holds the data segment by then. Same instance, two numbers |
| `boot` | Is the kernel loaded? | **No**: 2 of 170 sectors; the real constants |

`boot` allows deadlock, since the loader halts or jumps into the kernel, and so
do `traps` and `syscall_number`, since every exception handler ends with
`cli; hlt`.

**Fairness.** In `InputPath!Fairness`, used by `input_path_live`, the 8253
ticks for ever and the CPU executes what is next: weak fairness of ticks, of the
timer interrupt and of handlers. A tick comes every 10 ms (`timer_init(100)`,
`kernel.c`) and a handler takes microseconds, so ticks leave room for the lower
priority of the keyboard and for the main thread: strong fairness of both. The
user owes nothing: no fairness of presses and releases. Without the timer
enabled the property fails, which is its mutant: `terminal_get_line` tests and
halts in two steps. `Traps!Fairness` is the same for a thread in the kernel: the
stubs and the thread go on when they can (weak), and the timer interrupt, which is
not possible while a stub runs, comes again and again (strong). That ticks leave
room for the thread is in the guard of `Interrupt` (`paced`): it moves between
two interrupts unless it has halted. No fairness of calls or keys.

**Disagreements.** The five violated properties are the findings in
`PROJECT.json`, with the line of the code that says otherwise. The models hold
more that the code does and that nobody would want. It is stated here and not as
properties because the models already say so in a definition, or because a
property that does hold names it as its exception:

* `kernel_directory->physical_addr` is never set, so CR3 is 0 (`paging.c:40-58`,
  `PagingInit`), and the directory a process gets begins with virtual pointers
  rather than with `tables_physical`.
* The USER bit of a directory entry is inverted (`paging.c:79`, `PhysicalEntry`): user
  mode cannot reach its stack, whose table is made for it. `ArraysAgree` says what is left.
* `create_page_directory` does not test whether it got memory (`paging.c:23`): it clears
  low memory and returns the directory at 0, which the next failed creation returns and
  clears again while a process uses it (`CreateWithoutMemory` of `AddressSpaces`).
* `map_page` does not test whether it got a table: the mapping is lost without an
  error (`paging.c:76`, `MapInLowMemory`). The antecedent of `MapTakesEffect` names
  the condition.
* The bitmap starts empty while the kernel occupies the low 8 MB (`PagingInit`).
* `alloc_frame` compares a multiple of 4096 with -1; out of frames it maps
  0xFFFFF000 (`paging.c:153`, `alloc_frame`).
* `create_process` checks the first of its allocations only (`process.c:31`,
  `Stack`, `Directory`), and maps the user stack in its creator's directory
  (`process.c:39`, `user_page`).
* A forked child is dispatched on the stack of its parent, with the stack pointer that the
  parent saved last, and pushes its registers over the frame in which the parent waits
  (`process.c:141`, `fork`); the parent goes on in the frame of the child. `fork` copies
  no memory either (`process.c:133`). `FramesKept` and `GoesOnInItsFrame` name the exception.
* A line of more than 31 characters never matches a user name, and a line of 63 returns
  without its ENTER, which then ends the password (`login.c:12`, `LineFull`,
  `ReturnLine`).
* `sleep` returns at once when its target wraps and lasts 2^32 ticks when the
  target is the greatest number and a `hlt` passes it (`timer.c:37`); `SleepExact`
  and `CallsReturn` leave these starting points out by name: nothing is claimed of a
  sleep over the wrap of `tick_count`.
* `sqrt` and `lcm` can divide by zero (`math.c:40`, `:56`), which halts the
  system; `OnlyFaultsStop` names the arguments.
* The shell process is created and never dispatched (`kernel.c:187`), so keys
  typed after the login are read by nobody (`InputPath`, place "idle").

## 4. Proofs

TLC's instances are small; the theorems hold for every value of the constants
that the assumptions admit.

| Theorem | Property of a run | For every |
|---|---|---|
| `KeyboardProofs!TypeCorrect`, `NoKeyInvented`, `KeysOnlyOvertaken` | `TypeOK`, `CountNeverOverstates`, `OnlyOvertaken` | ring size, set of bytes, both access orders |
| `KeyboardProofs!RingIsFifo`, `InputPathProofs!PathRingIsFifo` | `FifoSpec` | ring size, source order; alone, and below boot, interrupts and login |
| `InputPathProofs!PathTypeCorrect`, `NoEoiStolen`, `KeysStayInOrder`, `ModifiersComeUp`, `LinesFit`, `EchoStays` | `PathTypeOK`, `NoStolenEoi`, `TypedInOrder`, `NoStuckModifier`, `LineFits`, `EchoShown` | keyboard, ring size, line buffer, prompt and screen on which both fit a row |
| `KHeapProofs!HeapTypeCorrect`, `HeapBlocksSound` | the last: `BlocksSound` | heap, page size and set of request sizes |
| `PagingProofs!PagingTypeCorrect`, `PagingBlocksSound`, `TablesStayPrivate`, `ArraysStayInAgreement`, `FramesStayOwned`, `MappingsTakeEffect`, `PagingImplementsSpaces` | `PagingTypeOK`, `BlocksSound`, `TablesPrivate`, `ArraysAgree`, `FramesOwned`, `MapTakesEffect`, `SpacesSpec` | geometry of pages, tables and frames |
| `ProcessProofs!ListStaysExact`, `WaitingAreReady`, `SearchAlwaysEnds`, `NobodyGetsTwoTurns`, `AlwaysResumes`, `OnlyForkSharesStacks`, `ProcessTypeCorrect` | `ListExact`, `OthersReady`, `SearchEnds`, `RoundRobin`, `GoesOnInItsFrame`, `FramesKept`, `ProcessTypeOK` | set of processes |
| `ProcessProofs!ProcessIsScheduler` | none: `Process` implements `Scheduler`, whose properties it thus has | the same |
| `TrapsProofs!TrapsTypeCorrect`, `HandlerIsRight`, `SleepIsExact`, `OnlyFaultsStopIt`, `ResultsAreRight`, `ThreadSeesNothing` | `TypeOK`, `RightHandler`, `SleepExact`, `OnlyFaultsStop`, `ResultRight`; the last is an action property of its own | word width, arguments, calls |
| `KernelDataProofs!DataTypeCorrect`, `NamesStayUnique`, `StringsEnd`, `LoginsStayExact`, `UsersImplementAccounts`, `FilesImplementQueues`, `UsersListed`, `FilesListed` | `TypeOK`, `OneEntryPerUser`, `FieldsEnd`, `LoginsExact`, `AccountsSpec`, `FilesSpec`, `UsersShown`, `FilesShown` | table sizes, field lengths, sets of strings without NUL |

*Keyboard.* `TypeOK` is not inductive: `buffer_count` could drop below zero.
What helps is what the reader holds between its accesses: from the test in
`GetStart` until the count is stored, the count stays positive, because
interrupts only increase it, and the copy it loaded is positive and no larger
than the count. Added to `TypeOK` this is the inductive invariant, in both access orders,
from which `CountNeverOverstates` follows with the count of keys the reader has taken
but not yet accounted for. For the refinement, head and tail stay
`buffer_count` slots apart (one more while the tail is ahead of the count), so
that a put writes the slot behind the contents and a get removes the first one;
in source order each step then maps to a step of `KeyFifo` or to a stutter. In
gcc's order that distance is lost. What remains (`TurnInv`) is that head and tail
are the numbers of keys put and taken, modulo the ring, and that a slot holds the
latest key put there; a key read is therefore the one due or one typed whole turns later.

*Input path.* `PathInv` joins the keyboard's invariant, unchanged below the
interrupts, with facts about each other part: at most one interrupt frame,
the flag clear with it, and in service exactly what its stage says (`FrameInv`,
from which `NoStolenEoi`); before `sti` nothing has
touched the keyboard, so `keyboard_init` discards nothing (`BootInv`); an edit
finds room (`LineInv`). `NoStuckModifier` needs to know which release is still on its
way (`ModInv`): a modifier the driver believes down has a key down or a release
among the bytes to come, and so has, behind it, every press among those bytes. `TypedInOrder` is inductive by
itself once what an interrupt takes from the front, and a press puts at the end,
of the bytes on their way is counted (`PlacesFinite`). For the screen, each function's fold is
walked character by character (`PutsWalks`, `PrintWalks`). That the cursor stays
on the screen is an invariant of every character; `EchoShown` is not: it takes
the column as well (`EchoInv`), since an erasure undoes a character only if the row
was not left in between. The column is that of the prompt's end and the length of the line, and
after a line that filled its buffer the prompt ends at another column, maybe of the
next row. It also takes that no key yields `'\r'`, which would be
appended to the line but not shown.

*Heap.* Blocks lie below `heap_current`, each starts where an earlier
`heap_current`, rounded up, was: the invariant is that `heap_current` bounds all
blocks. Alignment needs the arithmetic of rounding only.

*Paging.* Directories and tables are blocks of the heap, so a new one is apart
from all earlier ones; the directory at 0 is the one exception, and lies below the
heap. The invariant (`Structure`) says that, that no table is entered twice, that for
the table of the kernel's pointer the processor has an entry which leads to it and
may be written through, and that a directory not yet created has no table. The
directory at 0 is covered like any other as far as its words are addresses of
tables; of what else low memory holds the invariant has the type only. `FramesOwned` is
inductive on top of it, because `alloc_frame` marks the frame it found clear and no entry
of RAM is unmarked before it is unmapped. For the refinement, every call changes one entry of
one table, and by the invariant that is one page of one directory, unless the
allocation failed: then all that changes is what the directory at 0 maps.

*Processes.* Every step of `Process` is one of `Scheduler`, so the list is
treated there. `ListExact` speaks of what can be reached, and to keep it would
take an induction along the list. The invariant `ListInv` is local instead: the links of live
processes lead to live ones, no two to the same and none to the head; one live
process ends the list; and every set closed under `next` that holds the head
holds all live processes. The last replaces an induction along the list: to
unlink `p` from between two others, take a set closed under the new links, add
`p` to it, and it is closed under the old ones. With it, and with every live
process but the current one READY (`StateInv`), the search meets either a READY
process or the current one: otherwise what it meets, with what follows, would be
closed without them. `RoundRobin` needs the order of the list: a rank that grows along the links, so that
distances become comparisons, and the invariant that only processes from behind
a waiting one up to the current one have run since it did. `AlwaysResumes` needs what ties the
stacks to the saved registers (`SavedInv`): a frame on a stack belongs to a process
whose saved stack pointer, at the offset the switch reads, leads to it, or to the current process, and
then the CPU is on that stack; and a structure not yet allocated has left no frame, so
`create_process` and `fork` fill in no stack pointer that leads to one. For
`OnlyForkSharesStacks`, a process that was not forked has its saved stack pointer and its
frame at home, the kernel process on its stack and all others in low memory (`HomeInv`).

*Traps.* The thread's place and registers are in the processor or, while an
interrupt is served, on the stack: `ThreadAt` and `ThreadRegs` read them from
either, and no step of a stub, a handler or an interrupt changes them
(`ThreadSeesNothing`). The rest is sequential: one loop invariant per routine.
`pow` keeps the power of what it has multiplied and what it
has left, modulo the word; `sqrt` is Newton's iteration from above, which stops at
the root; `gcd` keeps the divisors of its pair, and that what it finds is a combination of the arguments, from which
the least common multiple follows.

*Users and files.* Strings first: what `strcpy` and `strncpy` leave in memory, read
back with `strlen`, for strings of any length. Each field ends before
the next, so no string operation sees another field; names are unique among the
first `user_count` entries; each `uid` lies below `next_uid`. With this the table is
a function from names to accounts. A queue of files is defined by recursion over
the table; removal of an entry is shown to remove the first of its name from one
queue and to leave the others.

*Listings.* A text on the screen must say what the table holds, whoever reads it.
The invariant (`ListedInv`) is that it was printed from the table as it is, since a
command that changes one clears it. The rest is about a single state. `printf` is
walked over its three formats character by character, so each line has known parts; what
`print_number` writes has the number as its `Value`, by an induction on the number for
the digits and on the numeral for the value. The lines lie one behind the other
(`LinesIn`), so every place of the screen belongs to one place of one line. From there
the two listings part. In that of users each of the three marks is in each line once:
the places of a mark are one per line, the next one behind the beginning of a line is that line's,
and what is cut out between them is the name, the number and the role. In that of files the ends of
lines are the line breaks; a reader who collects the lines of a name has,
after the line of entry `i`, the queue of the first `i` entries. A name and the same name
with a slash must be two names for that (below).

*Assumptions.* The constants' only, stated in the modules (`...Assumption`); TLC
evaluates each in a run of its module. Those that are more than types:
`SizesAssumption` excludes requests that wrap around 4 GB, since callers pass the
sizes of structures. `PagingAssumption` says that what `paging_init` allocates fits
into the heap, that the heap ends a directory before 4 GB, that there are
fewer frames than pages, and that a directory at 0 would end below the heap (8196 bytes
against 3 MB in the kernel). `clear_frame`, which nothing calls, is assumed to be called
for a frame that no user page maps any more, and `destroy_process` for another process than the
current one: these two are guards of the models that the code does not test. `TrapsAssumption` has words that hold the number of a page
fault. `TablesAssumption` has strings of C: no NUL within. `ListingAssumption` is what makes
listings readable: user numbers below 2^31, which `%d` shows as they are; no name with a piece
of text that the models name as one character, such as the ` (UID: ` of a line; no file name with
a line break, or that is another one followed by a slash. Callers of the kernel give two users and
two files, by names of letters, a digit and a dot (`tools/init.c:6-13`); nothing passes one that was typed. `PromptAssumption` has a prompt
without line breaks, which fits a row with a line, also behind what came round the margin after a full line: 10 and 63
characters, then 3 and 63, of 80.

*Induction.* It is on sets: a set of numbers that holds 0 and
with each number the next is `Nat` (`Arithmetic!AllNumbers`). Recursive functions
and folds are given by `CHOOSE`; that a function with
their equation exists is `Iteration` and `Folding`, and their values are
then proved by sets of numbers again. No RECURSIVE operator is declared.

*What the proofs found.* Two overlapping `CASE`s, in the handler of `Traps` and in
`Printf`, where the model took an arm that no reader could tell; the arms are disjoint now. `FilesShown` selected lines by name alone, which
holds only if no name is another one and a slash, and said nothing of a file
with the empty name: the first is an assumption now, the second is covered. Its lines and those of
`UsersShown` are found by the places of marks instead of a filter on sequences, which the provers cannot open. Otherwise
models were only regrouped.

*Model-checked only.* `KeyConsumed` and `CallsReturn`: liveness under fairness
is out of TLAPS's reach. `Boot`,
whose run is a finding on the real constants. The five findings are single
behaviours.

## 5. Not modelled

* `sprintf`, which repeats `printf` into a buffer, `sscanf`, a stub, and `scanf`
  with its readers, which nothing calls. `lib/stdio` is linked and called by
  nothing; `printf_stubs.c` is left out of the link. Besides the
  four of `Strings`, `memset` and `memcpy` are called, and modelled where they
  are; the other string routines have no caller.
* The `(null)` that `printf` shows for a null string, and what it reads behind a format
  that ends in `%`: no caller does either.
* What exceptions and system calls print. Debug, NMI and breakpoint have handlers
  without a gate.
* Mouse, network, packages, scripting: stubs; IRQ 12 stays masked.
* Shell: never dispatched; it reads lines as `login_prompt` does, and what its
  commands `users` and `ls` show is in `KernelData`.
* Spurious IRQ 7 and the slave PIC: no line of it is enabled.

## 6. Plan

Every invariant, action property and refinement of the passing runs is proved. What
is left is to extend the model: `KernelInit`, which `_init` may use what another
has set up.
