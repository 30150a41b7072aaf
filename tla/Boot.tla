-------------------------------- MODULE Boot --------------------------------
(***************************************************************************)
(* The loading of the kernel by boot/boot.asm: the BIOS reads sectors from *)
(* the floppy, at most a track at a time.  The register CX is the number   *)
(* of remaining sectors and, by its halves CH and CL, the cylinder and the *)
(* first sector to read.                                                   *)
(***************************************************************************)
EXTENDS Integers

CONSTANTS KERNEL_SECTORS, KERNEL_OFFSET,
          Track   \* sectors of a track

VARIABLES pc, cx, bx, dh,
          memory   \* <<address, disk sector>> pairs that have been read

vars == <<pc, cx, bx, dh, memory>>

CH == cx \div 256
CL == cx % 256
WithCH(r, byte) == byte * 256 + (r % 256)
WithCL(r, byte) == (r \div 256) * 256 + byte
\* jle and jl compare signed numbers.
Signed(r, bits) == IF r < 2^(bits - 1) THEN r ELSE r - 2^bits

SECTOR == 512
\* The disk sector at cylinder CH, head DH and sector CL, counted from 1.
DiskSector == (CH * 2 + dh) * Track + CL - 1

\* jle read_sectors: AX, the lower half of which one call of the BIOS reads.
Chunk == IF Signed(cx, 16) =< Track THEN cx ELSE Track

load_kernel ==
  /\ pc = "load_kernel" /\ pc' = "load_loop"
  /\ bx' = KERNEL_OFFSET /\ dh' = 0
  /\ cx' = WithCL(WithCH(KERNEL_SECTORS, 0), 2)
  /\ UNCHANGED memory

\* The next place on the disk, from the count that is left.
NextPlace(left, n) ==
  LET cl == (left + n) % 256
      ch == left \div 256
  IN  IF Signed(cl, 8) =< Track THEN cx' = ch * 256 + cl /\ UNCHANGED dh
      ELSE IF Signed((dh + 1) % 256, 8) < 2 THEN cx' = ch * 256 + 1 /\ dh' = dh + 1
      ELSE cx' = ((ch + 1) % 256) * 256 + 1 /\ dh' = 0

load_loop ==
  /\ pc = "load_loop"
  /\ memory' = memory \cup {<<(bx + SECTOR * k) % 2^16, DiskSector + k>> : k \in 0 .. (Chunk % 256) - 1}
  /\ IF cx = Chunk
     THEN pc' = "kernel_loaded" /\ cx' = 0 /\ UNCHANGED <<bx, dh>>
     ELSE /\ bx' = (bx + SECTOR * Chunk) % 2^16
          /\ NextPlace(cx - Chunk, Chunk)
          /\ UNCHANGED pc

disk_error ==
  /\ pc = "load_loop" /\ pc' = "hang"
  /\ UNCHANGED <<cx, bx, dh, memory>>

Init == pc = "load_kernel" /\ cx = 0 /\ bx = 0 /\ dh = 0 /\ memory = {}

Next == load_kernel \/ load_loop \/ disk_error

Spec == Init /\ [][Next]_vars

(***************************************************************************)
(* When "Kernel loaded!" is shown, all KERNEL_SECTORS sectors, "the kernel *)
(* size at this moment" (boot.asm:5), are in memory from KERNEL_OFFSET.    *)
(***************************************************************************)
KernelLoaded ==
  pc = "kernel_loaded" =>
    \A k \in 0 .. KERNEL_SECTORS - 1 : <<KERNEL_OFFSET + SECTOR * k, 1 + k>> \in memory
=============================================================================
