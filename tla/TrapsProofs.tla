---------------------------- MODULE TrapsProofs ----------------------------
(***************************************************************************)
(* Proofs about module Traps, for words of any width and any arguments.    *)
(*                                                                         *)
(* The thread is in one of two forms: running, or saved on the stack by a  *)
(* stub.  ThreadAt and ThreadRegs read it from either, and the argument is *)
(* that no step of a stub, of a C handler or of the processor changes      *)
(* them.  What the routines compute is then a matter of the thread's own   *)
(* steps, one invariant per routine, and of module Arithmetic.             *)
(***************************************************************************)
EXTENDS Traps, Arithmetic, SequenceTheorems

Word == 0..WORD-1
Dword == Int \cup Places
InC == {"irq_end", "isr_end", "syscall_end"}

\* What a stub has pushed above the registers of pusha, and what lies above
\* the frame of the processor.
Segments == IF pc = "syscall_end" THEN 4 ELSE 1
Above == IF pc \in {"irq", "isr"} THEN 2
         ELSE IF pc = "syscall" THEN 0
         ELSE IF pc = "syscall_end" THEN 12 ELSE 11

ThreadAt == IF pc \in Places THEN pc ELSE stack[Above + 1]
ThreadRegs ==
  IF pc \notin InC THEN reg
  ELSE [edi |-> stack[Segments + 1], esi |-> stack[Segments + 2], ebp |-> stack[Segments + 3],
        ebx |-> stack[Segments + 5], edx |-> stack[Segments + 6], ecx |-> stack[Segments + 7],
        eax |-> stack[Segments + 8]]

StackOK ==
  /\ pc \in Places \cup Stubs
  /\ pc \in Places => stack = <<>> /\ IF_flag = TRUE
  /\ pc \in Stubs => /\ IF_flag = FALSE /\ stack \in Seq(Dword) /\ Len(stack) = Above + 3
                     /\ stack[Above + 1] \in Places /\ stack[Above + 3] = 1
  /\ pc = "irq" => stack[1] \in Irqs
  /\ pc = "isr" => stack[1] \in Faults
  /\ halted \in BOOLEAN
  /\ halted = TRUE => pc \in {"sleep_test", "isr_end"}

MachineOK ==
  /\ StackOK
  /\ reg \in [Registers -> Word] /\ ThreadRegs \in [Registers -> Word]
-----------------------------------------------------------------------------
LEMMA Bounds == WORD \in Nat /\ WORD > 14 /\ HALF \in Nat \ {0} /\ WORD % HALF = 0
                /\ KERNEL_DS \in 0..HALF-1
  BY TrapsAssumption DEF PAGE

LEMMA PlacesAreNoStubs == \A p \in Places : p \notin Stubs /\ p \notin InC
  BY DEF Places, Routines, Stubs, InC

\* A register file is the record of its registers.
LEMMA RegisterFile ==
  ASSUME NEW r \in [Registers -> Word]
  PROVE  /\ r = [edi |-> r.edi, esi |-> r.esi, ebp |-> r.ebp, ebx |-> r.ebx,
                 edx |-> r.edx, ecx |-> r.ecx, eax |-> r.eax]
         /\ r.eax \in Word /\ r.ebx \in Word /\ r.ecx \in Word /\ r.edx \in Word
         /\ r.ebp \in Word /\ r.esi \in Word /\ r.edi \in Word
  BY DEF Registers

\* AX is loaded with a segment selector: the dword is still one.
LEMMA AxIsWord ==
  ASSUME NEW x \in Word PROVE WithAx(x, KERNEL_DS) \in Word
  <1> DEFINE q == x \div HALF
             k == WORD \div HALF
  <1>1. /\ q \in Nat /\ x % HALF \in 0..HALF-1 /\ x = HALF * q + (x % HALF)
        /\ k \in Nat /\ WORD = HALF * k
    <2>1. x \in Nat /\ HALF \in Nat \ {0} /\ WORD \in Nat /\ WORD % HALF = 0
      BY Bounds DEF Word
    <2>2. PICK m \in 0..HALF-1 : m = WORD % HALF
      BY <2>1, Quotient
    <2>3. k \in Nat /\ WORD = HALF * k + m
      BY <2>1, <2>2, Quotient
    <2>4. m = 0 /\ HALF * k \in Nat
      BY <2>1, <2>2, <2>3, ProductOfNats
    <2>5. q \in Nat /\ x % HALF \in 0..HALF-1 /\ x = HALF * q + (x % HALF)
      BY <2>1, Quotient
    <2>6. k \in Nat /\ WORD = HALF * k
      <3> HIDE DEF k
      <3>1. PICK j \in Nat : j = HALF * k
        BY <2>4
      <3> QED  BY <2>3, <2>4, <3>1
    <2> QED  BY ONLY <2>5, <2>6
  <1> HIDE DEF q, k
  <1>2. q < k
    <2> SUFFICES ASSUME k <= q PROVE FALSE
      BY <1>1
    <2>1. HALF * k <= HALF * q
      BY <1>1, Bounds, ProductGrows
    <2>2. HALF * q \in Nat /\ HALF * k \in Nat
      BY <1>1, Bounds, ProductOfNats
    <2> QED  BY <1>1, <2>1, <2>2, Bounds DEF Word
  <1>3. HALF * (q + 1) <= HALF * k
    BY <1>1, <1>2, Bounds, ProductGrows
  <1>4. HALF * (q + 1) = q * HALF + HALF /\ q * HALF \in Nat
    BY <1>1, Bounds, SMT
  <1>5. q * HALF + KERNEL_DS \in 0..WORD-1
    BY <1>1, <1>3, <1>4, Bounds
  <1> QED  BY <1>5 DEF q, WithAx, Word
-----------------------------------------------------------------------------
(***************************************************************************)
(* The stack.                                                              *)
(***************************************************************************)
\* The n dwords of x have been pushed on y.
On(s, x, n, y) ==
  /\ s \in Seq(Dword) /\ Len(y) \in Nat /\ Len(s) = n + Len(y)
  /\ \A i \in 1..n : s[i] = x[i]
  /\ \A i \in 1..Len(y) : s[n + i] = y[i]

LEMMA Joined ==
  ASSUME NEW x \in Seq(Dword), NEW y \in Seq(Dword), NEW n \in Nat, Len(x) = n,
         NEW s, s = x \o y
  PROVE  On(s, x, n, y)
  <1>1. Len(y) \in Nat
    BY LenProperties
  <1>2. x \o y \in Seq(Dword) /\ Len(x \o y) = Len(x) + Len(y)
    BY ConcatProperties
  <1>3. \A i \in 1..Len(x) + Len(y) : (x \o y)[i] = IF i <= Len(x) THEN x[i] ELSE y[i - Len(x)]
    BY ConcatProperties
  <1>4. \A i \in 1..n + Len(y) : s[i] = IF i <= n THEN x[i] ELSE y[i - n]
    BY <1>3
  <1>5. ASSUME NEW i \in 1..n PROVE s[i] = x[i]
    BY <1>1, <1>4
  <1>6. ASSUME NEW i \in 1..Len(y) PROVE s[n + i] = y[i]
    <2>1. n + i \in 1..n + Len(y) /\ ~(n + i <= n) /\ n + i - n = i
      BY <1>1
    <2> QED  BY <1>4, <2>1
  <1> QED  BY <1>1, <1>2, <1>5, <1>6 DEF On

\* What pusha leaves: the registers, then what was on the stack.
LEMMA Pushed ==
  ASSUME reg \in [Registers -> Word], NEW t \in Seq(Dword)
  PROVE  /\ Pusha(t) \in Seq(Dword) /\ Len(Pusha(t)) = 8 + Len(t) /\ Len(t) \in Nat
         /\ Pusha(t)[1] = reg.edi /\ Pusha(t)[2] = reg.esi /\ Pusha(t)[3] = reg.ebp
         /\ Pusha(t)[5] = reg.ebx /\ Pusha(t)[6] = reg.edx /\ Pusha(t)[7] = reg.ecx
         /\ Pusha(t)[8] = reg.eax
         /\ \A i \in 1..Len(t) : Pusha(t)[8 + i] = t[i]
  <1> DEFINE r == <<reg.edi, reg.esi, reg.ebp, 0, reg.ebx, reg.edx, reg.ecx, reg.eax>>
  <1>1. r \in Seq(Dword)
    BY RegisterFile, Bounds DEF Word, Dword
  <1>2. /\ Len(r) = 8 /\ r[1] = reg.edi /\ r[2] = reg.esi /\ r[3] = reg.ebp /\ r[5] = reg.ebx
        /\ r[6] = reg.edx /\ r[7] = reg.ecx /\ r[8] = reg.eax
    OBVIOUS
  <1> HIDE DEF r
  <1>3. Pusha(t) = r \o t
    BY DEF Pusha, r
  <1>4. PICK p : p = Pusha(t)
    OBVIOUS
  <1>5. On(p, r, 8, t)
    BY <1>1, <1>2, <1>3, <1>4, Joined
  <1> QED  BY <1>2, <1>4, <1>5 DEF On

\* The segments that a stub pushes above them.
RegistersAt(s, n, r) ==
  /\ s[n + 1] = r.edi /\ s[n + 2] = r.esi /\ s[n + 3] = r.ebp /\ s[n + 5] = r.ebx
  /\ s[n + 6] = r.edx /\ s[n + 7] = r.ecx /\ s[n + 8] = r.eax
SavedOn(s, n, r, t) ==
  /\ s \in Seq(Dword) /\ Len(t) \in Nat /\ Len(s) = n + 8 + Len(t)
  /\ RegistersAt(s, n, r)
  /\ \A i \in 1..Len(t) : s[n + 8 + i] = t[i]

LEMMA PushedBelow ==
  ASSUME reg \in [Registers -> Word], NEW t \in Seq(Dword), NEW x \in Seq(Dword),
         NEW n \in Nat, n = Len(x), NEW s, s = x \o Pusha(t)
  PROVE  SavedOn(s, n, reg, t)
  <1>1. PICK p : p = Pusha(t)
    OBVIOUS
  <1>2. /\ p \in Seq(Dword) /\ Len(p) = 8 + Len(t) /\ Len(t) \in Nat
        /\ p[1] = reg.edi /\ p[2] = reg.esi /\ p[3] = reg.ebp /\ p[5] = reg.ebx
        /\ p[6] = reg.edx /\ p[7] = reg.ecx /\ p[8] = reg.eax
        /\ \A i \in 1..Len(t) : p[8 + i] = t[i]
    BY <1>1, Pushed
  <1>3. On(s, x, n, p)
    BY <1>1, <1>2, Joined
  <1>4. ASSUME NEW i \in 1..Len(t) PROVE s[n + 8 + i] = t[i]
    <2>1. 8 + i \in 1..Len(p) /\ n + (8 + i) = n + 8 + i
      BY <1>2
    <2> QED  BY <1>2, <1>3, <2>1 DEF On
  <1>5. \A i \in 1..8 : i \in 1..Len(p)
    BY <1>2
  <1>6. \A i \in 1..8 : s[n + i] = p[i]
    BY <1>3, <1>5 DEF On
  <1>7. Len(s) = n + 8 + Len(t)
    BY <1>2, <1>3 DEF On
  <1>8. s \in Seq(Dword)
    BY <1>3 DEF On
  <1>9. RegistersAt(s, n, reg)
    <2>1. /\ s[n + 1] = p[1] /\ s[n + 2] = p[2] /\ s[n + 3] = p[3] /\ s[n + 5] = p[5]
          /\ s[n + 6] = p[6] /\ s[n + 7] = p[7] /\ s[n + 8] = p[8]
      BY ONLY <1>6, 1 \in 1..8, 2 \in 1..8, 3 \in 1..8, 5 \in 1..8, 6 \in 1..8, 7 \in 1..8, 8 \in 1..8, Zenon
    <2> QED  BY <1>2, <2>1 DEF RegistersAt
  <1> QED  BY <1>2, <1>4, <1>7, <1>8, <1>9 DEF SavedOn

\* What entering by a gate leaves.
LEMMA Entered ==
  ASSUME NEW v \in Irqs \cup Faults \cup {SYSCALL}, NEW eip \in Places,
         stack = <<>>, IF_flag = TRUE, Enter(v, eip)
  PROVE  /\ stack' \in Seq(Dword) /\ IF_flag' = FALSE /\ pc' = Gate[v] /\ reg' = reg
         /\ v # SYSCALL => Len(stack') = 5 /\ stack'[1] = v /\ stack'[3] = eip /\ stack'[5] = 1
         /\ v = SYSCALL => Len(stack') = 3 /\ stack'[1] = eip /\ stack'[3] = 1
  <1> USE DEF Irqs, Faults, SYSCALL, TIMER, KEYBOARD, DIVIDE, PROTECTION, PAGE
  <1> DEFINE f == <<eip, CS, FlagsPushed>>
  <1>1. /\ f \in Seq(Dword) /\ Len(f) = 3 /\ f[1] = eip /\ f[3] = 1
    BY DEF CS, FlagsPushed, Dword
  <1>2. stack' = Entry(v) \o f
    <2> HIDE DEF f
    <2>1. stack' = Entry(v) \o f \o <<>>
      BY DEF Enter, f
    <2>2. CASE v = SYSCALL
      <3>1. Entry(v) \in Seq(Dword)
        BY <2>2, EmptySeq DEF Entry
      <3> QED  BY <1>1, <2>1, <3>1, ConcatProperties, ConcatEmptySeq
    <2>3. CASE v # SYSCALL
      <3>1. Entry(v) \in Seq(Dword)
        BY <2>3 DEF Entry, ErrorCode, Dword
      <3> QED  BY <1>1, <2>1, <3>1, ConcatProperties, ConcatEmptySeq
    <2> QED  BY <2>2, <2>3
  <1> HIDE DEF f
  <1>3. CASE v = SYSCALL
    <2>1. Entry(v) = <<>>
      BY <1>3 DEF Entry
    <2>2. stack' = f
      BY <1>1, <1>2, <2>1, ConcatEmptySeq
    <2> QED  BY <1>1, <1>3, <2>2 DEF Enter
  <1>4. CASE v # SYSCALL
    <2> DEFINE e == <<v, 0>>
    <2>1. e \in Seq(Dword) /\ Len(e) = 2 /\ e[1] = v
      BY <1>4 DEF Dword
    <2>2. stack' = e \o f
      BY <1>2, <1>4 DEF Entry, ErrorCode
    <2> HIDE DEF e
    <2>3. PICK s : s = stack'
      OBVIOUS
    <2>4. On(s, e, 2, f)
      <3>1. s = e \o f /\ e \in Seq(Dword) /\ Len(e) = 2 /\ f \in Seq(Dword) /\ 2 \in Nat
        BY <1>1, <2>1, <2>2, <2>3
      <3> QED  BY ONLY <3>1, Joined, ZenonT(60)
    <2>5. s[1] = e[1] /\ s[3] = f[1] /\ s[5] = f[3] /\ Len(s) = 5
      BY <1>1, <2>4 DEF On
    <2> QED  BY <1>1, <1>4, <2>1, <2>3, <2>4, <2>5, ZenonT(60) DEF Enter, On
  <1> QED  BY <1>3, <1>4
-----------------------------------------------------------------------------
(***************************************************************************)
(* No interrupt, stub or C handler changes what the thread is doing or has *)
(* in its registers.                                                       *)
(***************************************************************************)
Unseen == MachineOK' /\ ThreadAt' = ThreadAt /\ ThreadRegs' = ThreadRegs

LEMMA InStub ==
  ASSUME MachineOK, pc \in Stubs
  PROVE  /\ pc \notin Places /\ IF_flag = FALSE /\ stack \in Seq(Dword) /\ Len(stack) = Above + 3
         /\ ThreadAt = stack[Above + 1] /\ ThreadAt \in Places /\ stack[Above + 3] = 1
  BY PlacesAreNoStubs DEF MachineOK, StackOK, ThreadAt

LEMMA InPlace ==
  ASSUME MachineOK, pc \in Places
  PROVE  /\ stack = <<>> /\ IF_flag = TRUE /\ ThreadAt = pc /\ ThreadRegs = reg
         /\ pc \notin InC /\ pc \notin Stubs /\ (halted = TRUE => pc = "sleep_test")
  <1>1. pc \notin InC /\ pc \notin Stubs
    BY PlacesAreNoStubs
  <1>2. "isr_end" \in Stubs
    BY DEF Stubs
  <1> QED  BY <1>1, <1>2 DEF MachineOK, StackOK, ThreadAt, ThreadRegs

\* After a gate has been taken from a place.
LEMMA EnteredStub ==
  ASSUME MachineOK, pc \in Places, NEW v \in Irqs \cup Faults \cup {SYSCALL}, NEW eip \in Places,
         Enter(v, eip), halted' = FALSE
  PROVE  /\ MachineOK' /\ ThreadAt' = eip /\ ThreadRegs' = reg /\ pc' \in Stubs /\ pc' \notin InC
         /\ pc' = "irq" <=> v \in Irqs
         /\ pc' = "isr" <=> v \in Faults
         /\ v \in Faults => stack'[1] = v
  <1>1. stack = <<>> /\ IF_flag = TRUE
    BY InPlace
  <1>2. /\ stack' \in Seq(Dword) /\ IF_flag' = FALSE /\ pc' = Gate[v] /\ reg' = reg
        /\ v # SYSCALL => Len(stack') = 5 /\ stack'[1] = v /\ stack'[3] = eip /\ stack'[5] = 1
        /\ v = SYSCALL => Len(stack') = 3 /\ stack'[1] = eip /\ stack'[3] = 1
    BY <1>1, Entered
  <1>3. /\ v \in Faults => Gate[v] = "isr" /\ v \notin Irqs /\ v # SYSCALL
        /\ v \in Irqs => Gate[v] = "irq" /\ v \notin Faults /\ v # SYSCALL
        /\ v = SYSCALL => Gate[v] = "syscall" /\ v \notin Faults /\ v \notin Irqs
    BY DEF Gate, Faults, Irqs, SYSCALL, TIMER, KEYBOARD, DIVIDE, PROTECTION, PAGE
  <1>4. /\ pc' \in Stubs /\ pc' \notin InC /\ pc' \notin Places
        /\ pc' = "irq" <=> v \in Irqs
        /\ pc' = "isr" <=> v \in Faults
    <2>1. pc' \in {"irq", "isr", "syscall"}
      BY <1>2, <1>3
    <2>2. pc' \in Stubs /\ pc' \notin InC
      BY <2>1 DEF Stubs, InC
    <2>3. pc' \notin Places
      BY <2>2, PlacesAreNoStubs
    <2> QED  BY <1>2, <1>3, <2>2, <2>3
  <1>5. /\ Above' = (IF v = SYSCALL THEN 0 ELSE 2)
    BY <1>2, <1>3 DEF Above
  <1>6. ThreadAt' = eip /\ Len(stack') = Above' + 3 /\ stack'[Above' + 3] = 1 /\ stack'[Above' + 1] = eip
    <2>1. CASE v = SYSCALL
      BY <1>2, <1>4, <1>5, <2>1 DEF ThreadAt
    <2>2. CASE v # SYSCALL
      BY <1>2, <1>4, <1>5, <2>2 DEF ThreadAt
    <2> QED  BY <2>1, <2>2
  <1>7. ThreadRegs' = reg
    BY <1>2, <1>4 DEF ThreadRegs
  <1>8. StackOK'
    <2>1. /\ pc' = "irq" => stack'[1] \in Irqs
          /\ pc' = "isr" => stack'[1] \in Faults
      BY <1>2, <1>3, <1>4
    <2> QED  BY <1>2, <1>4, <1>6, <2>1 DEF StackOK
  <1> QED  BY <1>2, <1>3, <1>4, <1>6, <1>7, <1>8 DEF MachineOK

LEMMA InterruptUnseen ==
  ASSUME MachineOK, NEW v \in Irqs, Interrupt(v)
  PROVE  Unseen /\ pc' = "irq" /\ halted' = FALSE
  <1>1. IF_flag = TRUE
    BY DEF Interrupt
  <1>2. pc \in Places
    BY <1>1 DEF MachineOK, StackOK
  <1>3. ThreadAt = pc /\ ThreadRegs = reg
    BY <1>2, InPlace
  <1>4. Enter(v, pc) /\ halted' = FALSE
    BY DEF Interrupt
  <1> QED  BY <1>2, <1>3, <1>4, EnteredStub DEF Unseen

\* What a stub pushes before the C handler: n segments, the registers.
LEMMA CalledUnseen ==
  ASSUME MachineOK, pc \in {"irq", "isr", "syscall"}, pc' = IF pc = "irq" THEN "irq_end" ELSE IF pc = "isr" THEN "isr_end" ELSE "syscall_end",
         NEW n \in Nat, n = Segments', SavedOn(stack', n, reg, stack), Clobbered(reg), IF_flag' = IF_flag,
         halted' \in BOOLEAN, halted' = TRUE => pc' = "isr_end"
  PROVE  Unseen
  <1>1. pc \in Stubs /\ pc \notin InC /\ pc' \in Stubs /\ pc' \in InC /\ pc' \notin Places
    <2>1. pc \in Stubs /\ pc \notin InC /\ pc' \in Stubs /\ pc' \in InC
      BY DEF Stubs, InC
    <2> QED  BY <2>1, PlacesAreNoStubs
  <1>2. /\ pc \notin Places /\ IF_flag = FALSE /\ stack \in Seq(Dword) /\ Len(stack) = Above + 3
        /\ ThreadAt = stack[Above + 1] /\ ThreadAt \in Places /\ stack[Above + 3] = 1
    BY <1>1, InStub
  <1>3. Above \in {0, 2} /\ Above' = n + 8 + Above
    BY DEF Above, Segments
  <1>4. PICK m \in {0, 2} : m = Above /\ Above' = n + 8 + m
    BY <1>3
  <1>5. /\ stack' \in Seq(Dword) /\ Len(stack') = n + 8 + (m + 3)
        /\ stack'[n + 8 + (m + 1)] = stack[m + 1] /\ stack'[n + 8 + (m + 3)] = stack[m + 3]
    <2>1. m + 1 \in 1..Len(stack) /\ m + 3 \in 1..Len(stack)
      BY <1>2, <1>4
    <2> QED  BY <1>2, <1>4, <2>1 DEF SavedOn
  <1>6. n + 8 + m + 1 = n + 8 + (m + 1) /\ n + 8 + m + 3 = n + 8 + (m + 3)
    BY <1>4
  <1>7. ThreadAt' = ThreadAt /\ stack'[Above' + 3] = 1 /\ Len(stack') = Above' + 3 /\ stack'[Above' + 1] \in Places
    BY <1>1, <1>2, <1>4, <1>5, <1>6 DEF ThreadAt
  <1>8. ThreadRegs' = ThreadRegs
    <2>1. ThreadRegs = reg
      BY <1>1 DEF ThreadRegs
    <2>2. ThreadRegs' = [edi |-> stack'[n + 1], esi |-> stack'[n + 2], ebp |-> stack'[n + 3],
                         ebx |-> stack'[n + 5], edx |-> stack'[n + 6], ecx |-> stack'[n + 7],
                         eax |-> stack'[n + 8]]
      BY <1>1 DEF ThreadRegs
    <2>3. RegistersAt(stack', n, reg)
      BY DEF SavedOn
    <2>4. reg \in [Registers -> Word]
      BY DEF MachineOK
    <2>5. reg = [edi |-> reg.edi, esi |-> reg.esi, ebp |-> reg.ebp, ebx |-> reg.ebx,
                 edx |-> reg.edx, ecx |-> reg.ecx, eax |-> reg.eax]
      BY <2>4, RegisterFile
    <2>6. ThreadRegs' = [edi |-> reg.edi, esi |-> reg.esi, ebp |-> reg.ebp, ebx |-> reg.ebx,
                 edx |-> reg.edx, ecx |-> reg.ecx, eax |-> reg.eax]
      BY <2>2, <2>3 DEF RegistersAt
    <2> QED  BY ONLY <2>1, <2>5, <2>6
  <1>9. reg' \in [Registers -> Word]
    <2>1. reg \in [Registers -> Word]
      BY DEF MachineOK
    <2>2. 0 \in Word /\ WORD - 1 \in Word
      BY Bounds DEF Word
    <2>3. PICK x \in {0, WORD - 1} : reg' = [reg EXCEPT !.eax = x, !.ecx = x, !.edx = x]
      BY DEF Clobbered
    <2>4. x \in Word
      BY <2>2
    <2> QED  BY <2>1, <2>3, <2>4
  <1>10. StackOK'
    BY <1>1, <1>2, <1>5, <1>7 DEF StackOK
  <1> QED  BY <1>7, <1>8, <1>9, <1>10 DEF Unseen, MachineOK

LEMMA SavedHolds ==
  ASSUME MachineOK, pc \in {"irq", "isr"}
  PROVE  SavedOn(Saved, 1, reg, stack) /\ NumberOnStack(Saved) = stack[1]
  <1>1. reg \in [Registers -> Word] /\ reg.eax \in Word
    BY RegisterFile DEF MachineOK
  <1>2. stack \in Seq(Dword) /\ Len(stack) = 5
    <2>1. pc \in Stubs
      BY DEF Stubs
    <2>2. Above = 2
      BY DEF Above
    <2> QED  BY <2>1, <2>2, InStub
  <1> DEFINE x == <<WithAx(reg.eax, KERNEL_DS)>>
  <1>3. x \in Seq(Dword) /\ Len(x) = 1
    BY <1>1, AxIsWord, Bounds DEF Word, Dword
  <1>4. PICK s : s = Saved
    OBVIOUS
  <1>5. s = x \o Pusha(stack)
    BY <1>4 DEF Saved
  <1> HIDE DEF x
  <1>6. SavedOn(s, 1, reg, stack)
    BY <1>1, <1>2, <1>3, <1>5, PushedBelow
  <1>7. s[10] = stack[1]
    <2>1. 1 \in 1..Len(stack) /\ 1 + 8 + 1 = 10
      BY <1>2
    <2> QED  BY <1>6, <2>1 DEF SavedOn
  <1> QED  BY <1>4, <1>6, <1>7 DEF NumberOnStack

LEMMA StubUnseen ==
  ASSUME MachineOK, irq_common_stub \/ isr_common_stub \/ syscall_handler_asm
  PROVE  Unseen
  <1>1. reg \in [Registers -> Word] /\ reg.eax \in Word
    BY RegisterFile DEF MachineOK
  <1>2. CASE irq_common_stub \/ isr_common_stub
    <2>1. pc \in {"irq", "isr"} /\ pc' = (IF pc = "irq" THEN "irq_end" ELSE "isr_end")
      BY <1>2 DEF irq_common_stub, isr_common_stub
    <2>5. PICK s : s = stack'
      OBVIOUS
    <2>6. SavedOn(s, 1, reg, stack)
      <3>1. stack' = Saved
        BY <1>2 DEF irq_common_stub, isr_common_stub
      <3> QED  BY <2>1, <2>5, <3>1, SavedHolds
    <2>7. Segments' = 1
      BY <2>1 DEF Segments
    <2>8. /\ Clobbered(reg) /\ IF_flag' = IF_flag
          /\ halted' \in BOOLEAN /\ (halted' = TRUE => pc' = "isr_end")
      <3>1. CASE irq_common_stub
        <4>1. halted \in BOOLEAN /\ (halted = TRUE => pc \in {"sleep_test", "isr_end"}) /\ pc = "irq"
          BY <3>1 DEF MachineOK, StackOK, irq_common_stub
        <4> QED  BY <3>1, <4>1 DEF irq_common_stub
      <3>2. CASE isr_common_stub
        BY <3>2 DEF isr_common_stub
      <3> QED  BY <1>2, <3>1, <3>2
    <2> QED  BY <2>1, <2>5, <2>6, <2>7, <2>8, CalledUnseen
  <1>3. CASE syscall_handler_asm
    <2>1. pc = "syscall" /\ pc' = "syscall_end"
      BY <1>3 DEF syscall_handler_asm
    <2>2. stack \in Seq(Dword)
      BY <2>1, InStub DEF Stubs
    <2> DEFINE x == <<KERNEL_DS, KERNEL_DS, KERNEL_DS, KERNEL_DS>>
    <2>3. x \in Seq(Dword) /\ Len(x) = 4
      BY Bounds DEF Dword
    <2>4. stack' = x \o Pusha(stack)
      BY <1>3 DEF syscall_handler_asm
    <2> HIDE DEF x
    <2>5. PICK s : s = stack'
      OBVIOUS
    <2>6. SavedOn(s, 4, reg, stack)
      BY <1>1, <2>2, <2>3, <2>4, <2>5, PushedBelow
    <2>7. Segments' = 4
      BY <2>1 DEF Segments
    <2>8. Clobbered(reg) /\ IF_flag' = IF_flag /\ halted' \in BOOLEAN /\ (halted' = TRUE => pc' = "isr_end")
      BY <1>3, <2>1 DEF syscall_handler_asm, MachineOK, StackOK
    <2> QED  BY <2>1, <2>5, <2>6, <2>7, <2>8, CalledUnseen
  <1> QED  BY <1>2, <1>3

\* What is left of s when its first n dwords are popped.
Left(t, s, n) ==
  /\ t \in Seq(Dword) /\ Len(s) \in Nat /\ Len(t) = Len(s) - n
  /\ \A i \in 1..Len(s) - n : t[i] = s[n + i]

LEMMA Popped ==
  ASSUME NEW s \in Seq(Dword), NEW n \in Nat, n < Len(s), NEW m \in Nat, m = n + 1,
         NEW t, t = SubSeq(s, m, Len(s))
  PROVE  Left(t, s, n)
  <1>1. Len(s) \in Nat /\ m \in Int /\ Len(s) \in Int
    BY LenProperties
  <1>2. \A i \in m..Len(s) : s[i] \in Dword
    BY <1>1, ElementOfSeq
  <1>3. /\ SubSeq(s, m, Len(s)) \in Seq(Dword)
        /\ Len(SubSeq(s, m, Len(s))) = IF m <= Len(s) THEN Len(s) - m + 1 ELSE 0
        /\ \A i \in 1..Len(s) - m + 1 : SubSeq(s, m, Len(s))[i] = s[m + i - 1]
    BY <1>1, <1>2, SubSeqProperties
  <1>4. Len(t) = Len(s) - n
    BY <1>1, <1>3
  <1>5. ASSUME NEW i \in 1..Len(s) - n PROVE t[i] = s[n + i]
    <2>1. i \in 1..Len(s) - m + 1 /\ m + i - 1 = n + i
      BY <1>1
    <2> QED  BY <1>3, <2>1
  <1> QED  BY <1>1, <1>3, <1>4, <1>5 DEF Left

LEMMA ReturnUnseen ==
  ASSUME MachineOK, Return
  PROVE  Unseen /\ pc' \in Places /\ reg' = ThreadRegs
  <1>0. PICK k \in {1, 4}, d \in {0, 2} :
          /\ Leave(k, d) /\ k = Segments /\ k + 8 + d = Above
          /\ pc \in {"irq_end", "syscall_end"}
    <2>1. CASE pc = "irq_end" /\ Leave(1, 2)
      BY <2>1 DEF Segments, Above
    <2>2. CASE pc = "syscall_end" /\ Leave(4, 0)
      BY <2>2 DEF Segments, Above
    <2> QED  BY <2>1, <2>2 DEF Return
  <1>1. pc \in Stubs /\ pc \in InC
    BY <1>0 DEF Stubs, InC
  <1>2. /\ pc \notin Places /\ IF_flag = FALSE /\ stack \in Seq(Dword) /\ Len(stack) = Above + 3
        /\ ThreadAt = stack[Above + 1] /\ ThreadAt \in Places /\ stack[Above + 3] = 1
    BY <1>1, InStub
  <1>3. PICK s : s = SubSeq(stack, k + 1, Len(stack))
    OBVIOUS
  <1>4. Left(s, stack, k)
    <2>1. k < Len(stack) /\ k \in Nat /\ k + 1 \in Nat
      BY <1>0, <1>2
    <2> QED  BY <1>2, <1>3, <2>1, Popped
  <1>5. /\ s \in Seq(Dword) /\ Len(s) = 8 + d + 3
        /\ \A i \in 1..8 + d + 3 : s[i] = stack[k + i]
    <2>1. Len(stack) - k = 8 + d + 3
      BY <1>0, <1>2
    <2> QED  BY <1>4, <2>1 DEF Left
  <1>6. PICK frame : frame = SubSeq(s, 9 + d, Len(s))
    OBVIOUS
  <1>7. Left(frame, s, 8 + d)
    <2>1. 8 + d < Len(s) /\ 8 + d \in Nat /\ 9 + d \in Nat /\ 9 + d = 8 + d + 1
      BY <1>5
    <2> QED  BY <1>5, <1>6, <2>1, Popped
  <1>8. Len(frame) = 3 /\ frame[1] = s[8 + d + 1] /\ frame[3] = s[8 + d + 3]
    <2>1. Len(s) - (8 + d) = 3
      BY <1>5
    <2> QED  BY <1>7, <2>1 DEF Left
  <1>9. frame[1] = ThreadAt /\ frame[3] = 1
    <2>1. s[8 + d + 1] = stack[Above + 1] /\ s[8 + d + 3] = stack[Above + 3]
      <3>1. s[8 + d + 1] = stack[k + (8 + d + 1)] /\ s[8 + d + 3] = stack[k + (8 + d + 3)]
        BY <1>5
      <3>2. k + (8 + d + 1) = Above + 1 /\ k + (8 + d + 3) = Above + 3
        BY <1>0
      <3> QED  BY <3>1, <3>2
    <2> QED  BY <1>2, <1>8, <2>1
  <1>10. pc' = ThreadAt /\ IF_flag' = TRUE /\ stack' = <<>>
    <2>1. pc' = frame[1] /\ IF_flag' = (frame[3] = 1) /\ stack' = SubSeq(frame, 4, Len(frame))
      BY <1>0, <1>3, <1>6 DEF Leave
    <2>2. SubSeq(frame, 4, 3) = <<>>
      BY SubSeqEmpty
    <2> QED  BY <1>8, <1>9, <2>1, <2>2
  <1>11. reg' = ThreadRegs
    <2>1. reg' = [edi |-> s[1], esi |-> s[2], ebp |-> s[3], ebx |-> s[5], edx |-> s[6], ecx |-> s[7], eax |-> s[8]]
      BY <1>0, <1>3 DEF Leave, Popa
    <2>2. /\ s[1] = stack[k + 1] /\ s[2] = stack[k + 2] /\ s[3] = stack[k + 3] /\ s[5] = stack[k + 5]
          /\ s[6] = stack[k + 6] /\ s[7] = stack[k + 7] /\ s[8] = stack[k + 8]
      <3>1. \A i \in 1..8 : i \in 1..8 + d + 3
        OBVIOUS
      <3>2. \A i \in 1..8 : s[i] = stack[k + i]
        BY <1>5, <3>1
      <3> QED  BY ONLY <3>2, 1 \in 1..8, 2 \in 1..8, 3 \in 1..8, 5 \in 1..8, 6 \in 1..8, 7 \in 1..8, 8 \in 1..8, Zenon
    <2>3. ThreadRegs = [edi |-> stack[k + 1], esi |-> stack[k + 2], ebp |-> stack[k + 3],
                        ebx |-> stack[k + 5], edx |-> stack[k + 6], ecx |-> stack[k + 7],
                        eax |-> stack[k + 8]]
      BY <1>0, <1>1 DEF ThreadRegs
    <2> QED  BY ONLY <2>1, <2>2, <2>3
  <1>12. pc' \notin Stubs /\ pc' \notin InC
    BY <1>2, <1>10, PlacesAreNoStubs
  <1>13. ThreadAt' = ThreadAt /\ ThreadRegs' = ThreadRegs
    BY <1>2, <1>10, <1>11, <1>12 DEF ThreadAt, ThreadRegs
  <1>14. StackOK'
    <2>1. halted = FALSE /\ halted' = halted
      BY DEF Return, MachineOK, StackOK
    <2>2. "irq" \in Stubs /\ "isr" \in Stubs
      BY DEF Stubs
    <2> QED  BY <1>2, <1>10, <1>12, <2>1, <2>2 DEF StackOK
  <1> QED  BY <1>2, <1>10, <1>11, <1>13, <1>14 DEF Unseen, MachineOK

\* Neither an interrupt nor anything the kernel does with it.
LEMMA KernelUnseen ==
  ASSUME MachineOK, Kernel \/ \E v \in Irqs : Interrupt(v)
  PROVE  Unseen
  BY StubUnseen, ReturnUnseen, InterruptUnseen DEF Kernel
-----------------------------------------------------------------------------
(***************************************************************************)
(* The routines.  Each has an invariant over the place at of the thread,   *)
(* its registers r, the call c and the result res.                         *)
(***************************************************************************)
Calls == [routine : Routines \cup {"none"}, a : Word, b : Word]
RegFiles == [Registers -> Word]

IntOK(at, r, c) == at \in {"int", "done"} /\ r = [Zeroed EXCEPT !.eax = c.a, !.ebx = c.b]

TouchOK(at, r, c) == at = "touch" /\ r.eax = c.a /\ c.a \in {PROTECTION, PAGE}

\* What has been multiplied, times the power still to come, is the result.
PowOK(at, r, c, res) ==
  /\ at \in {"pow", "pow_loop", "done"}
  /\ at = "pow" => r.eax = c.a /\ r.ebx = c.b
  /\ at = "pow_loop" => (r.eax * Power(r.ebx)[r.ecx]) % WORD = Power(c.a)[c.b]
  /\ at = "done" => res = Power(c.a)[c.b]

\* The estimate is never below the root, and zero only by overflow.
Estimate(r, x) ==
  IF r = 0 THEN x = WORD - 1 ELSE r \in 1..x /\ x < (r + 1) * (r + 1)

SqrtOK(at, r, c, res) ==
  /\ at \in {"sqrt", "sqrt_loop", "done"}
  /\ at = "sqrt" => r.eax = c.a
  /\ at = "sqrt_loop" => r.ebx = c.a /\ c.a # 0 /\ Estimate(r.eax, c.a)
  /\ at = "done" => res * res =< c.a /\ c.a < (res + 1) * (res + 1)

\* Two numbers keep the common divisors of the arguments.
SameDivisors(x, y, a, b) ==
  \A d \in Nat \ {0} : x % d = 0 /\ y % d = 0 <=> a % d = 0 /\ b % d = 0

IsGcd(res, a, b) ==
  IF a = 0 \/ b = 0 THEN res = a + b
  ELSE res = Max({d \in 1..a : Divides(d, a) /\ Divides(d, b)})
IsLcm(res, a, b) ==
  a * b < WORD =>
    IF a * b = 0 THEN res = 0
    ELSE res = Min({m \in 1..a*b : Divides(a, m) /\ Divides(b, m)})

GcdOK(at, r, c, res) ==
  /\ at \in {"gcd", "done"}
  /\ at = "gcd" => SameDivisors(r.eax, r.ebx, c.a, c.b)
  /\ at = "done" => IsGcd(res, c.a, c.b)

LcmOK(at, r, c, res) ==
  /\ at \in {"lcm", "lcm_gcd", "done"}
  /\ at = "lcm" => r.eax = c.a /\ r.ebx = c.b
  /\ at = "lcm_gcd" => /\ SameDivisors(r.eax, r.ebx, c.a, c.b) /\ r.edi = (c.a * c.b) % WORD
                       /\ Combination(r.eax, c.a, c.b) /\ Combination(r.ebx, c.a, c.b)
  /\ at = "done" => IsLcm(res, c.a, c.b)

LEMMA WordWide == WORD \in Nat \ {0, 1} /\ Word \subseteq Nat /\ \A n \in Nat : n % WORD \in Word
  <1>1. WORD \in Nat /\ WORD > 14
    BY Bounds
  <1>2. ASSUME NEW n \in Nat PROVE n % WORD \in Word
    <2>1. WORD \in Nat \ {0}
      BY <1>1
    <2> QED  BY <2>1, Quotient DEF Word
  <1> QED  BY <1>1, <1>2 DEF Word

LEMMA PowerIs == ASSUME NEW a \in Nat PROVE IsPower(Power(a), a, WORD)
  <1>1. \E f : IsPower(f, a, WORD)
    BY WordWide, PowersExist
  <1> QED  BY <1>1 DEF Power, IsPower

LEMMA PowLoop ==
  ASSUME NEW r \in RegFiles, NEW c \in Calls, NEW res, PowOK("pow_loop", r, c, res)
  PROVE  /\ r.ecx > 0 => PowStep(r) \in RegFiles /\ PowOK("pow_loop", PowStep(r), c, res)
         /\ ~(r.ecx > 0) => PowOK("done", [r EXCEPT !.eax = r.eax], c, r.eax)
  <1>1. /\ r.eax \in Word /\ r.ebx \in Word /\ r.ecx \in Word
        /\ r.eax \in Nat /\ r.ebx \in Nat /\ r.ecx \in Nat
    BY RegisterFile, WordWide DEF RegFiles
  <1>2. PICK x \in Word, y \in Word, n \in Word : x = r.eax /\ y = r.ebx /\ n = r.ecx
    BY <1>1
  <1>3. x \in Nat /\ y \in Nat /\ n \in Nat /\ y * y \in Nat /\ x * y \in Nat
    BY WordWide, ProductOfNats
  <1>4. PICK sq \in Nat : sq = (y * y) % WORD /\ sq \in Word
    BY <1>3, WordWide
  <1>5. (x * Power(y)[n]) % WORD = Power(c.a)[c.b]
    BY <1>2 DEF PowOK
  <1>6. ASSUME r.ecx > 0 PROVE PowStep(r) \in RegFiles /\ PowOK("pow_loop", PowStep(r), c, res)
    <2> DEFINE x2 == IF n % 2 = 1 THEN (x * y) % WORD ELSE x
               n2 == n \div 2
    <2>1. x2 \in Word /\ n2 \in Word
      <3>1. x2 \in Word
        BY <1>3, WordWide
      <3>2. n2 \in Nat /\ n2 <= n
        BY <1>3
      <3> QED  BY <1>3, <3>1, <3>2, Bounds DEF Word
    <2>2. PowStep(r) = [r EXCEPT !.eax = x2, !.ebx = sq, !.ecx = n2]
      BY <1>2, <1>4 DEF PowStep
    <2>3. (x * Power(y)[n]) % WORD = (x2 * Power(sq)[n2]) % WORD
      <3>1. PICK f, g : f = Power(y) /\ g = Power(sq)
        OBVIOUS
      <3>2. IsPower(f, y, WORD) /\ IsPower(g, (y * y) % WORD, WORD)
        BY <1>3, <1>4, <3>1, PowerIs
      <3>3. (x * f[n]) % WORD = (Multiplied(x, y, n, WORD) * g[n \div 2]) % WORD
        <4>1. x \in Nat /\ y \in Nat /\ n \in Nat /\ WORD \in Nat \ {0, 1}
          BY <1>3, WordWide
        <4> QED  BY ONLY <3>2, <4>1, PowerStep
      <3> QED  BY <3>1, <3>3, ZenonT(40) DEF Multiplied
    <2> HIDE DEF x2, n2
    <2>4. /\ PowStep(r) \in RegFiles
          /\ PowStep(r).eax = x2 /\ PowStep(r).ebx = sq /\ PowStep(r).ecx = n2
      BY <1>4, <2>1, <2>2 DEF RegFiles, Registers
    <2> QED  BY <1>5, <2>3, <2>4 DEF PowOK
  <1>7. ASSUME ~(r.ecx > 0) PROVE PowOK("done", [r EXCEPT !.eax = r.eax], c, r.eax)
    <2>1. n = 0
      BY <1>2, <1>3, <1>7
    <2>2. Power(y)[0] = 1
      BY <1>3, WordWide, PowerIs, PowerValues
    <2>3. (x * 1) % WORD = x
      <3>1. x * 1 = x /\ x \in 0..WORD-1 /\ WORD \in Nat \ {0} /\ 0 \in Nat /\ x = WORD * 0 + x
        BY <1>3, WordWide DEF Word
      <3> QED  BY <1>3, <3>1, QuotientUnique
    <2> QED  BY <1>2, <1>5, <2>1, <2>2, <2>3 DEF PowOK
  <1> QED  BY <1>6, <1>7

LEMMA PowStart ==
  ASSUME NEW r \in RegFiles, NEW c \in Calls, NEW res, PowOK("pow", r, c, res)
  PROVE  LET s == [r EXCEPT !.eax = 1, !.ebx = r.eax, !.ecx = r.ebx]
         IN  s \in RegFiles /\ PowOK("pow_loop", s, c, res)
  <1> DEFINE s == [r EXCEPT !.eax = 1, !.ebx = r.eax, !.ecx = r.ebx]
  <1>1. r.eax \in Word /\ r.ebx \in Word /\ r.eax \in Nat /\ r.ebx \in Nat /\ 1 \in Word
    BY RegisterFile, WordWide, Bounds DEF RegFiles, Word
  <1>2. s \in RegFiles /\ s.eax = 1 /\ s.ebx = r.eax /\ s.ecx = r.ebx
    BY <1>1 DEF RegFiles, Registers
  <1>3. r.eax = c.a /\ r.ebx = c.b
    BY DEF PowOK
  <1>4. PICK p \in 0..WORD-1 : p = Power(c.a)[c.b]
    BY <1>1, <1>3, WordWide, PowerIs, PowerValues
  <1>5. (1 * p) % WORD = p
    <2>1. 1 * p = p /\ p \in Nat /\ WORD \in Nat \ {0} /\ 0 \in Nat /\ p = WORD * 0 + p
      BY WordWide
    <2> QED  BY <2>1, QuotientUnique
  <1> QED  BY <1>2, <1>3, <1>4, <1>5 DEF PowOK

LEMMA SqrtStart ==
  ASSUME NEW r \in RegFiles, NEW c \in Calls, NEW res, SqrtOK("sqrt", r, c, res)
  PROVE  /\ r.eax = 0 => SqrtOK("done", [r EXCEPT !.eax = 0], c, 0)
         /\ r.eax # 0 => /\ [r EXCEPT !.ebx = r.eax] \in RegFiles
                         /\ SqrtOK("sqrt_loop", [r EXCEPT !.ebx = r.eax], c, res)
  <1>1. r.eax \in Word /\ r.eax \in Nat /\ r.eax = c.a
    BY RegisterFile, WordWide DEF RegFiles, SqrtOK
  <1>2. ASSUME r.eax = 0 PROVE SqrtOK("done", [r EXCEPT !.eax = 0], c, 0)
    BY <1>1, <1>2 DEF SqrtOK
  <1>3. ASSUME r.eax # 0
        PROVE  /\ [r EXCEPT !.ebx = r.eax] \in RegFiles
               /\ SqrtOK("sqrt_loop", [r EXCEPT !.ebx = r.eax], c, res)
    <2>1. /\ [r EXCEPT !.ebx = r.eax] \in RegFiles
          /\ [r EXCEPT !.ebx = r.eax].eax = r.eax /\ [r EXCEPT !.ebx = r.eax].ebx = r.eax
      BY <1>1 DEF RegFiles, Registers
    <2>2. PICK x \in Nat : x = r.eax
      BY <1>1
    <2>3. x < (x + 1) * (x + 1) /\ x \in 1..x
      BY <1>3, <2>2, SMT
    <2>4. Estimate(r.eax, c.a)
      BY <1>1, <1>3, <2>2, <2>3 DEF Estimate
    <2> QED  BY <1>1, <1>3, <2>1, <2>4 DEF SqrtOK
  <1> QED  BY <1>2, <1>3

LEMMA SqrtLoop ==
  ASSUME NEW r \in RegFiles, NEW c \in Calls, NEW res, SqrtOK("sqrt_loop", r, c, res), r.eax # 0,
         NEW next, next = ((r.eax + r.ebx \div r.eax) % WORD) \div 2
  PROVE  /\ next < r.eax => /\ [r EXCEPT !.ecx = r.eax, !.eax = next] \in RegFiles
                            /\ SqrtOK("sqrt_loop", [r EXCEPT !.ecx = r.eax, !.eax = next], c, res)
         /\ ~(next < r.eax) => SqrtOK("done", [r EXCEPT !.eax = r.eax], c, r.eax)
  <1>1. r.eax \in Word /\ r.ebx \in Word /\ c.a \in Word
    BY RegisterFile DEF RegFiles, Calls
  <1>2a. PICK x \in Nat \ {0} : x = r.ebx /\ x = c.a /\ x \in Word
    BY <1>1, WordWide DEF SqrtOK
  <1>2b. PICK e \in 1..x : e = r.eax /\ x < (e + 1) * (e + 1)
    BY <1>2a DEF SqrtOK, Estimate
  <1>2. x = r.ebx /\ x = c.a /\ e = r.eax /\ x \in Word /\ x < (e + 1) * (e + 1)
    BY <1>2a, <1>2b
  <1>3. PICK q \in Nat : q = x \div e /\ e + q \in 2..x+1
    <2>1. x \div e \in 1..x /\ e + x \div e \in 2..x+1
      BY ONLY NewtonSum
    <2> QED  BY <2>1
  <1>4. next = ((e + q) % WORD) \div 2
    BY <1>2, <1>3
  <1>5. x <= WORD - 1 /\ WORD \in Nat \ {0, 1}
    BY <1>2, WordWide DEF Word
  <1>6. CASE e + q < WORD
    <2>1. (e + q) % WORD = e + q
      <3>1. e + q \in Nat /\ e + q \in 0..WORD-1 /\ e + q = WORD * 0 + (e + q) /\ 0 \in Nat
        BY <1>3, <1>5, <1>6
      <3> QED  BY <1>5, <3>1, QuotientUnique
    <2>2. next = (e + x \div e) \div 2 /\ next \in Nat \ {0} /\ next = (e + q) \div 2
      BY <1>3, <1>4, <2>1
    <2>3. x < (next + 1) * (next + 1)
      BY <2>2, NewtonAbove
    <2>4. ASSUME next < e
          PROVE  /\ [r EXCEPT !.ecx = r.eax, !.eax = next] \in RegFiles
                 /\ SqrtOK("sqrt_loop", [r EXCEPT !.ecx = r.eax, !.eax = next], c, res)
      <3>1. next \in Word /\ next \in 1..x
        BY <1>2, <1>5, <2>2, <2>4 DEF Word
      <3>2. PICK s : s = [r EXCEPT !.ecx = r.eax, !.eax = next]
        OBVIOUS
      <3>3. s \in RegFiles /\ s.eax = next /\ s.ebx = r.ebx
        BY <1>1, <3>1, <3>2 DEF RegFiles, Registers
      <3>4. Estimate(s.eax, c.a)
        BY <1>2, <2>2, <2>3, <3>1, <3>3 DEF Estimate
      <3> QED  BY <1>2, <3>2, <3>3, <3>4 DEF SqrtOK
    <2>5. ASSUME ~(next < e) PROVE SqrtOK("done", [r EXCEPT !.eax = r.eax], c, r.eax)
      <3>1. (e + x \div e) \div 2 >= e
        BY <2>2, <2>5
      <3>2. e * e <= x
        BY <3>1, NewtonStops
      <3> QED  BY <1>2, <3>2 DEF SqrtOK
    <2> QED  BY <1>2, <2>4, <2>5
  <1>7. CASE ~(e + q < WORD)
    <2>1. e + q = WORD /\ x = WORD - 1
      BY <1>3, <1>5, <1>7
    <2>2. WORD % WORD = 0
      <3>1. 0 \in 0..WORD-1 /\ WORD = WORD * 1 + 0 /\ 1 \in Nat /\ WORD \in Nat
        BY <1>5
      <3> QED  BY <1>5, <3>1, QuotientUnique
    <2>3. next = 0
      BY <1>4, <2>1, <2>2
    <2>4. PICK s : s = [r EXCEPT !.ecx = r.eax, !.eax = next]
      OBVIOUS
    <2>5. s \in RegFiles /\ s.eax = 0 /\ s.ebx = r.ebx
      <3>1. 0 \in Word
        BY Bounds DEF Word
      <3>2. s = [r EXCEPT !.ecx = r.eax, !.eax = 0]
        BY <2>3, <2>4
      <3> QED  BY <1>1, <3>1, <3>2 DEF RegFiles, Registers
    <2>6. SqrtOK("sqrt_loop", s, c, res)
      BY <1>2, <2>1, <2>5 DEF SqrtOK, Estimate
    <2>7. next < r.eax
      BY <1>2, <2>3
    <2> QED  BY <2>4, <2>5, <2>6, <2>7
  <1> QED  BY <1>6, <1>7

LEMMA EuclidStep ==
  ASSUME NEW x \in Nat, NEW y \in Nat \ {0}, NEW a \in Nat, NEW b \in Nat
  PROVE  /\ SameDivisors(x, y, a, b) => SameDivisors(y, x % y, a, b)
         /\ Combination(x, a, b) /\ Combination(y, a, b) => Combination(x % y, a, b)
  <1>1. ASSUME SameDivisors(x, y, a, b), NEW d \in Nat \ {0}
        PROVE  y % d = 0 /\ (x % y) % d = 0 <=> a % d = 0 /\ b % d = 0
    <2>1. x % d = 0 /\ y % d = 0 <=> a % d = 0 /\ b % d = 0
      BY <1>1 DEF SameDivisors
    <2>2. y % d = 0 => (x % d = 0 <=> (x % y) % d = 0)
      BY EuclidDivisors
    <2> QED  BY <2>1, <2>2
  <1>2. ASSUME Combination(x, a, b), Combination(y, a, b)
        PROVE  Combination(x % y, a, b)
    BY <1>2, EuclidCombination
  <1>3. SameDivisors(x, y, a, b) => SameDivisors(y, x % y, a, b)
    BY <1>1 DEF SameDivisors
  <1> QED  BY <1>2, <1>3

\* What Euclid's algorithm ends with divides both and all their common
\* divisors divide it.
LEMMA EuclidEnd ==
  ASSUME NEW g \in Nat, NEW a \in Nat, NEW b \in Nat, SameDivisors(g, 0, a, b)
  PROVE  /\ g = 0 <=> a = 0 /\ b = 0
         /\ g # 0 => /\ a % g = 0 /\ b % g = 0
                     /\ \A d \in Nat \ {0} : a % d = 0 /\ b % d = 0 => g % d = 0 /\ d <= g
  <1>1. \A d \in Nat \ {0} : 0 % d = 0
    BY DividesIff
  <1>2. \A d \in Nat \ {0} : g % d = 0 <=> a % d = 0 /\ b % d = 0
    BY <1>1 DEF SameDivisors
  <1>3. ASSUME NEW n \in Nat, NEW d \in Nat \ {0}, n % d = 0, n # 0 PROVE d <= n
    <2>1. PICK q \in Nat : n = d * q
      BY <1>3, DividesIff
    <2>2. q # 0
      <3> SUFFICES ASSUME q = 0 PROVE FALSE
        OBVIOUS
      <3>1. d * 0 = 0
        OBVIOUS
      <3> QED  BY <1>3, <2>1, <3>1
    <2> QED  BY <2>1, <2>2, PositiveProduct
  <1>4. ASSUME g = 0 PROVE a = 0 /\ b = 0
    <2>1. a % (a + 1) = 0 /\ b % (b + 1) = 0
      <3>1. ASSUME NEW d \in Nat \ {0} PROVE g % d = 0
        BY <1>4
      <3>2. a + 1 \in Nat \ {0} /\ b + 1 \in Nat \ {0}
        OBVIOUS
      <3> QED  BY <1>2, <3>1, <3>2, Zenon
    <2>2. a + 1 \in Nat \ {0} /\ b + 1 \in Nat \ {0} /\ ~(a + 1 <= a) /\ ~(b + 1 <= b)
      OBVIOUS
    <2> QED  BY <1>3, <2>1, <2>2
  <1>5. ASSUME g # 0
        PROVE  /\ a % g = 0 /\ b % g = 0
               /\ \A d \in Nat \ {0} : a % d = 0 /\ b % d = 0 => g % d = 0 /\ d <= g
    <2>1. g % g = 0
      <3>1. g = g * 1 /\ 1 \in Nat /\ g \in Nat \ {0}
        BY <1>5
      <3> QED  BY <3>1, DividesIff
    <2> QED  BY <1>2, <1>3, <1>5, <2>1
  <1>6. ASSUME a = 0, b = 0 PROVE g = 0
    <2>1. g % (g + 1) = 0
      BY <1>1, <1>2, <1>6
    <2>2. g + 1 \in Nat \ {0} /\ ~(g + 1 <= g)
      OBVIOUS
    <2> QED  BY <1>3, <2>1, <2>2
  <1> QED  BY <1>4, <1>5, <1>6

LEMMA GreatestDivisor ==
  ASSUME NEW g \in Nat, NEW a \in Nat, NEW b \in Nat, SameDivisors(g, 0, a, b)
  PROVE  IsGcd(g, a, b)
  <1>1. /\ g = 0 <=> a = 0 /\ b = 0
        /\ g # 0 => /\ a % g = 0 /\ b % g = 0
                    /\ \A d \in Nat \ {0} : a % d = 0 /\ b % d = 0 => g % d = 0 /\ d <= g
    BY EuclidEnd
  <1>2. \A d \in Nat \ {0} : d % d = 0 /\ 0 % d = 0
    <2>1. \A d \in Nat \ {0} : d = d * 1 /\ 0 = d * 0 /\ 0 \in Nat /\ 1 \in Nat
      OBVIOUS
    <2> QED  BY <2>1, DividesIff
  <1>3. \A n \in Nat \ {0}, d \in Nat \ {0} : n % d = 0 => d <= n
    <2>1. ASSUME NEW n \in Nat \ {0}, NEW d \in Nat \ {0}, n % d = 0 PROVE d <= n
      <3>1. PICK q \in Nat : n = d * q
        BY <2>1, DividesIff
      <3>2. q # 0
        <4>1. q = 0 => d * q = 0
          OBVIOUS
        <4> QED  BY <3>1, <4>1
      <3> QED  BY <3>1, <3>2, PositiveProduct
    <2> QED  BY <2>1
  <1>4. CASE a = 0 \/ b = 0
    <2>1. CASE a = 0 /\ b = 0
      BY <1>1, <2>1 DEF IsGcd
    <2>2. ASSUME NEW n \in Nat \ {0}, {a, b} = {0, n} PROVE g = a + b
      <3>1. g \in Nat \ {0} /\ a + b = n
        BY <1>1, <2>2
      <3>2. n % g = 0
        BY <1>1, <2>2, <3>1
      <3>3. g <= n
        BY <1>3, <3>1, <3>2
      <3>4. n <= g
        BY <1>1, <1>2, <2>2, <3>1
      <3> QED  BY <3>1, <3>3, <3>4
    <2>3. CASE a = 0 /\ b # 0
      BY <2>2, <2>3 DEF IsGcd
    <2>4. CASE a # 0 /\ b = 0
      BY <2>2, <2>4 DEF IsGcd
    <2> QED  BY <1>4, <2>1, <2>3, <2>4
  <1>5. CASE ~(a = 0 \/ b = 0)
    <2> DEFINE D == {d \in 1..a : Divides(d, a) /\ Divides(d, b)}
    <2>1. g # 0 /\ a # 0 /\ g <= a
      BY <1>1, <1>3, <1>5
    <2>2. g \in D
      BY <1>1, <2>1 DEF Divides
    <2>3. \A d \in D : d \in Nat /\ d <= g
      <3>1. ASSUME NEW d \in D PROVE d \in Nat /\ d <= g
        <4>1. d \in Nat \ {0} /\ a % d = 0 /\ b % d = 0
          BY DEF Divides
        <4> QED  BY <1>1, <2>1, <4>1
      <3> QED  BY <3>1
    <2>4. Max(D) = g
      <3> HIDE DEF D
      <3>1. \A y \in D : g >= y
        BY <2>3
      <3>2. \A x \in D : (\A y \in D : x >= y) => x = g
        BY <2>2, <2>3
      <3> QED  BY <2>2, <3>1, <3>2 DEF Max
    <2> QED  BY <1>5, <2>4 DEF IsGcd
  <1> QED  BY <1>4, <1>5

LEMMA LeastCommonMultiple ==
  ASSUME NEW g \in Nat \ {0}, NEW a \in Word, NEW b \in Word,
         SameDivisors(g, 0, a, b), Combination(g, a, b)
  PROVE  IsLcm(((a * b) % WORD) \div g, a, b)
  <1>0. a \in Nat /\ b \in Nat
    BY WordWide
  <1>1. a % g = 0 /\ b % g = 0
    BY <1>0, EuclidEnd
  <1>2. PICK p \in Nat : p = a * b
    BY <1>0, ProductOfNats
  <1> SUFFICES ASSUME p < WORD
               PROVE  IF p = 0 THEN (p % WORD) \div g = 0
                      ELSE (p % WORD) \div g = Min({m \in 1..p : Divides(a, m) /\ Divides(b, m)})
    BY <1>2 DEF IsLcm
  <1>3. p % WORD = p
    <2>1. p \in 0..WORD-1 /\ p = WORD * 0 + p /\ 0 \in Nat /\ WORD \in Nat \ {0}
      BY WordWide
    <2> QED  BY <2>1, QuotientUnique
  <1>4. CASE p = 0
    <2>1. 0 \in 0..g-1 /\ 0 = g * 0 + 0 /\ 0 \in Nat
      OBVIOUS
    <2>2. 0 \div g = 0
      BY <2>1, QuotientUnique
    <2> QED  BY <1>3, <1>4, <2>2
  <1>5. CASE p # 0
    <2>1. a # 0 /\ b # 0
      BY <1>0, <1>2, <1>5, ProductPositive
    <2>2. PICK l : l = p \div g
      OBVIOUS
    <2>3. IsLeastMultiple(l, a, b)
      <3>1. a \in Nat \ {0} /\ b \in Nat \ {0}
        BY <1>0, <2>1
      <3>2. IsLeastMultiple((a * b) \div g, a, b)
        BY <1>1, <3>1, LeastMultiple
      <3> QED  BY <1>2, <2>2, <3>2
    <2> DEFINE M == {m \in 1..p : Divides(a, m) /\ Divides(b, m)}
    <2>4. l \in M
      BY <1>2, <2>1, <2>3 DEF IsLeastMultiple, Divides
    <2>5. \A m \in M : m \in Nat /\ l <= m
      BY <1>2, <2>1, <2>3 DEF IsLeastMultiple, Divides
    <2>6. Min(M) = l
      <3>1. l \in Nat
        BY <2>5, <2>4
      <3> HIDE DEF M
      <3>2. \A x \in M : (\A y \in M : x =< y) => x = l
        BY <2>4, <2>5, <3>1
      <3> QED  BY <2>4, <2>5, <3>2 DEF Min
    <2> QED  BY <1>3, <1>5, <2>2, <2>6
  <1> QED  BY <1>4, <1>5

\* One step of gcd, whoever called it, and its return.
LEMMA GcdLoop ==
  ASSUME NEW r \in RegFiles, NEW c \in Calls, SameDivisors(r.eax, r.ebx, c.a, c.b)
  PROVE  /\ r.ebx # 0 =>
              LET s == GcdStep(r)
              IN  /\ s \in RegFiles /\ s.edi = r.edi
                  /\ SameDivisors(s.eax, s.ebx, c.a, c.b)
                  /\ Combination(r.eax, c.a, c.b) /\ Combination(r.ebx, c.a, c.b)
                       => Combination(s.eax, c.a, c.b) /\ Combination(s.ebx, c.a, c.b)
         /\ r.ebx = 0 => /\ IsGcd(r.eax, c.a, c.b)
                         /\ r.eax = 0 => c.a = 0 /\ c.b = 0
  <1>1. /\ r.eax \in Word /\ r.ebx \in Word /\ r.eax \in Nat /\ r.ebx \in Nat
        /\ c.a \in Nat /\ c.b \in Nat
    BY RegisterFile, WordWide DEF RegFiles, Calls
  <1>2. ASSUME r.ebx # 0
        PROVE  LET s == GcdStep(r)
               IN  /\ s \in RegFiles /\ s.edi = r.edi
                   /\ SameDivisors(s.eax, s.ebx, c.a, c.b)
                   /\ Combination(r.eax, c.a, c.b) /\ Combination(r.ebx, c.a, c.b)
                        => Combination(s.eax, c.a, c.b) /\ Combination(s.ebx, c.a, c.b)
    <2>1. PICK x \in Nat, y \in Nat \ {0} : x = r.eax /\ y = r.ebx
      BY <1>1, <1>2
    <2>2. PICK m \in 0..y-1 : m = x % y
      BY <2>1, Quotient
    <2>3. m \in Word
      BY <1>1, <2>1, <2>2, Bounds DEF Word
    <2>4. PICK s : s = GcdStep(r)
      OBVIOUS
    <2>5. s \in RegFiles /\ s.eax = y /\ s.ebx = m /\ s.edi = r.edi
      BY <1>1, <2>1, <2>2, <2>3, <2>4 DEF GcdStep, RegFiles, Registers
    <2>6. /\ SameDivisors(y, m, c.a, c.b)
          /\ Combination(x, c.a, c.b) /\ Combination(y, c.a, c.b) => Combination(m, c.a, c.b)
      BY <1>1, <2>1, <2>2, EuclidStep
    <2> QED  BY <2>1, <2>4, <2>5, <2>6
  <1>3. ASSUME r.ebx = 0 PROVE IsGcd(r.eax, c.a, c.b) /\ (r.eax = 0 => c.a = 0 /\ c.b = 0)
    <2>1. PICK g \in Nat : g = r.eax /\ SameDivisors(g, 0, c.a, c.b)
      BY <1>1, <1>3
    <2> QED  BY <1>1, <2>1, GreatestDivisor, EuclidEnd
  <1> QED  BY <1>2, <1>3
-----------------------------------------------------------------------------
(***************************************************************************)
(* The invariant.                                                          *)
(***************************************************************************)
SleepPlaces == {"sleep", "sleep_test", "sleep_hlt", "done"}

RoutineOK(at, r, c, res) ==
  /\ c.routine = "none" => at = "idle"
  /\ c.routine = "int" => IntOK(at, r, c)
  /\ c.routine = "touch" => TouchOK(at, r, c)
  /\ c.routine = "pow" => PowOK(at, r, c, res)
  /\ c.routine = "sqrt" => SqrtOK(at, r, c, res)
  /\ c.routine = "gcd" => GcdOK(at, r, c, res)
  /\ c.routine = "lcm" => LcmOK(at, r, c, res)
  /\ c.routine = "sleep" => at \in SleepPlaces

HistoryOK ==
  /\ tick_count \in Word /\ start \in Word /\ result \in Word /\ paced \in BOOLEAN
  /\ call \in Calls

\* The tick that may still come before the thread has moved.
Pending == IF paced = TRUE \/ halted = TRUE \/ pc = "irq" THEN 1 ELSE 0
NoWrap == start + Ticks < WORD - 1
SleepOK ==
  Asleep =>
    /\ ThreadAt = "sleep" => ThreadRegs.eax = call.a
    /\ NoWrap =>
         /\ ThreadAt \in {"sleep_test", "sleep_hlt"} =>
              ThreadRegs.eax = start + Ticks /\ start =< tick_count
         /\ ThreadAt = "sleep_test" => tick_count - start + Pending =< Ticks + 1
         /\ ThreadAt = "sleep_hlt" => tick_count - start + Pending =< Ticks
         /\ ThreadAt = "done" => result \in Ticks..Ticks+1

Cause == \/ call.routine = "sqrt" /\ call.a = WORD - 1
         \/ call.routine = "lcm" /\ call.a = 0 /\ call.b = 0
ServedOK ==
  /\ pc \notin InC => served = NotServed
  /\ pc = "isr_end" <=> served.vector \in Faults
  /\ RightHandler
  /\ pc \in {"irq", "irq_end"} => paced = FALSE
  /\ pc \in {"isr", "isr_end"} => call.routine # "sleep"
  /\ pc = "isr" /\ stack[1] = DIVIDE => Cause
  /\ served.vector = DIVIDE => Cause

TrapsInv ==
  /\ MachineOK /\ HistoryOK /\ ServedOK /\ SleepOK
  /\ RoutineOK(ThreadAt, ThreadRegs, call, result)

Vectors == /\ DIVIDE = 0 /\ PROTECTION = 13 /\ PAGE = 14 /\ TIMER = 32 /\ KEYBOARD = 33 /\ SYSCALL = 128
           /\ Faults = {0, 13, 14} /\ Irqs = {32, 33}
LEMMA VectorsAre == Vectors
  BY DEF Vectors, DIVIDE, PROTECTION, PAGE, TIMER, KEYBOARD, SYSCALL, Faults, Irqs

(***************************************************************************)
(* The kernel's steps and the interrupts.                                  *)
(***************************************************************************)
LEMMA KernelTicks ==
  ASSUME TrapsInv, Kernel \/ \E v \in Irqs : Interrupt(v), Asleep
  PROVE  \/ tick_count' = tick_count /\ Pending' =< Pending
         \/ tick_count' = (tick_count + 1) % WORD /\ Pending = 1 /\ Pending' = 0
  <1> USE DEF Pending
  <1>0. halted = TRUE => pc \in {"sleep_test", "isr_end"}
    BY DEF TrapsInv, MachineOK, StackOK
  <1>1. CASE \E v \in Irqs : Interrupt(v)
    BY <1>1 DEF Interrupt
  <1>2. CASE irq_common_stub
    <2>1. paced = FALSE /\ halted = FALSE /\ pc = "irq"
      BY <1>0, <1>2 DEF TrapsInv, ServedOK, MachineOK, StackOK, irq_common_stub
    <2>2. paced' = FALSE /\ halted' = FALSE /\ pc' = "irq_end"
      BY <1>2, <2>1 DEF irq_common_stub
    <2>3. Pending = 1 /\ Pending' = 0
      BY <2>1, <2>2
    <2> QED  BY <1>2, <2>3 DEF irq_common_stub
  <1>3. CASE isr_common_stub
    BY <1>3 DEF isr_common_stub, TrapsInv, ServedOK, Asleep
  <1>4. CASE syscall_handler_asm
    BY <1>4 DEF syscall_handler_asm
  <1>5. CASE Return
    <2>1. pc' # "irq"
      <3>1. pc' \in Places
        BY <1>5, ReturnUnseen DEF TrapsInv
      <3>2. "irq" \in Stubs
        BY DEF Stubs
      <3> QED  BY <3>1, <3>2, PlacesAreNoStubs
    <2> QED  BY <1>5, <2>1 DEF Return
  <1> QED  BY <1>1, <1>2, <1>3, <1>4, <1>5 DEF Kernel

LEMMA KernelHistory ==
  ASSUME TrapsInv, Kernel \/ \E v \in Irqs : Interrupt(v)
  PROVE  HistoryOK' /\ call' = call /\ start' = start /\ result' = result
  <1>1. call' = call /\ start' = start /\ result' = result
    BY DEF Kernel, Interrupt, irq_common_stub, isr_common_stub, syscall_handler_asm, Return, past
  <1>2. tick_count' = tick_count \/ tick_count' = (tick_count + 1) % WORD
    BY DEF Kernel, Interrupt, irq_common_stub, isr_common_stub, syscall_handler_asm, Return, past
  <1>3. paced' = paced \/ paced' = FALSE
    BY DEF Kernel, Interrupt, irq_common_stub, isr_common_stub, syscall_handler_asm, Return, past
  <1>4. tick_count' \in Word
    <2>1. tick_count + 1 \in Nat
      BY WordWide DEF TrapsInv, HistoryOK
    <2> QED  BY <1>2, <2>1, WordWide DEF TrapsInv, HistoryOK
  <1> QED  BY <1>1, <1>3, <1>4 DEF TrapsInv, HistoryOK

LEMMA KernelSleep ==
  ASSUME TrapsInv, Kernel \/ \E v \in Irqs : Interrupt(v)
  PROVE  SleepOK'
  <1>1. ThreadAt' = ThreadAt /\ ThreadRegs' = ThreadRegs
    BY KernelUnseen DEF TrapsInv, Unseen
  <1>2. call' = call /\ start' = start /\ result' = result
    BY KernelHistory
  <1>3. (Asleep' <=> Asleep) /\ Ticks' = Ticks /\ (NoWrap' <=> NoWrap)
    BY <1>2 DEF Asleep, Ticks, NoWrap
  <1> SUFFICES ASSUME Asleep, NoWrap, ThreadAt \in {"sleep_test", "sleep_hlt"}
               PROVE  /\ start =< tick_count'
                      /\ ThreadAt = "sleep_test" => tick_count' - start + Pending' =< Ticks + 1
                      /\ ThreadAt = "sleep_hlt" => tick_count' - start + Pending' =< Ticks
    BY <1>1, <1>2, <1>3 DEF TrapsInv, SleepOK
  <1>4. /\ start =< tick_count /\ start \in Nat /\ tick_count \in Nat /\ start + Ticks < WORD - 1
        /\ ThreadAt = "sleep_test" => tick_count - start + Pending =< Ticks + 1
        /\ ThreadAt = "sleep_hlt" => tick_count - start + Pending =< Ticks
    BY WordWide DEF TrapsInv, SleepOK, HistoryOK, NoWrap
  <1>5. Ticks \in Nat /\ WORD \in Nat \ {0}
    <2>1. PICK ms \in Nat : ms = call.a
      BY WordWide DEF TrapsInv, HistoryOK, Calls
    <2>2. ms \div 10 \in Nat
      OBVIOUS
    <2> QED  BY <2>1, <2>2, WordWide DEF Ticks
  <1>6. Pending \in {0, 1} /\ Pending' \in {0, 1}
    BY DEF Pending
  <1>7. CASE tick_count' = tick_count /\ Pending' =< Pending
    <2>1. PICK p \in {0, 1}, q \in {0, 1} : p = Pending /\ q = Pending' /\ q =< p
      BY <1>6, <1>7
    <2>2. PICK t \in Nat : t = tick_count /\ t = tick_count'
      BY <1>4, <1>7
    <2>3. t - start + q =< t - start + p
      <3>1. PICK z \in Int : z = t - start
        BY <1>4
      <3>2. q = p \/ (q = 0 /\ p = 1)
        BY <2>1
      <3>3. z + q =< z + p
        BY <3>2
      <3> QED  BY <3>1, <3>3
    <2>4. t - start + q \in Int /\ t - start + p \in Int
      BY <1>4
    <2>5. \A k \in Nat : t - start + p =< k => t - start + q =< k
      BY <2>3, <2>4
    <2>6. Ticks + 1 \in Nat /\ Ticks \in Nat
      BY <1>5
    <2> QED  BY <1>4, <2>1, <2>2, <2>5, <2>6
  <1>8. CASE tick_count' = (tick_count + 1) % WORD /\ Pending = 1 /\ Pending' = 0
    <2>1. tick_count + 1 \in 0..WORD-1
      BY <1>4, <1>5, <1>8
    <2>2. tick_count' = tick_count + 1
      <3>1. tick_count + 1 \in Nat /\ tick_count + 1 = WORD * 0 + (tick_count + 1) /\ 0 \in Nat
        BY <1>4, <1>5
      <3> QED  BY <1>5, <1>8, <2>1, <3>1, QuotientUnique
    <2> QED  BY <1>4, <1>5, <1>8, <2>2
  <1> QED  BY <1>7, <1>8, KernelTicks

\* The handler found by counting dwords is the handler of the vector.
LEMMA KernelServed ==
  ASSUME TrapsInv, Kernel \/ \E v \in Irqs : Interrupt(v)
  PROVE  ServedOK'
  <1>1. Vectors /\ NotServed.vector = 128
    BY VectorsAre DEF NotServed, SYSCALL
  <1>2. call' = call /\ (Cause' <=> Cause)
    BY KernelHistory DEF Cause
  <1>3. MachineOK /\ ServedOK
    BY DEF TrapsInv
  <1>4. \A p \in Places : p \notin {"irq", "isr", "syscall", "irq_end", "isr_end", "syscall_end"}
    BY PlacesAreNoStubs DEF Stubs
  <1>5. ASSUME NEW v \in Irqs, Interrupt(v) PROVE ServedOK'
    <2>1. pc' = "irq"
      BY <1>3, <1>5, InterruptUnseen
    <2>2. pc \in Places
      BY <1>3, <1>5 DEF Interrupt, MachineOK, StackOK
    <2>3. served = NotServed /\ served' = NotServed /\ paced' = FALSE
      BY <1>3, <1>4, <1>5, <2>2 DEF ServedOK, InC, Interrupt
    <2> QED  BY <1>1, <1>2, <2>1, <2>3 DEF ServedOK, InC, RightHandler, Vectors
  <1>6. CASE irq_common_stub
    <2>1. pc = "irq" /\ pc' = "irq_end" /\ paced' = paced /\ paced = FALSE
      BY <1>3, <1>6 DEF irq_common_stub, ServedOK
    <2>2. stack[1] \in {32, 33}
      BY <1>1, <1>3, <2>1 DEF MachineOK, StackOK, Vectors
    <2>3. NumberOnStack(Saved) = stack[1]
      BY <1>3, <2>1, SavedHolds
    <2>4. served' = [vector |-> stack[1], handler |-> Handler("irq", stack[1]), args |-> <<>>]
      BY <1>6, <2>3 DEF irq_common_stub, Serve
    <2>5. /\ stack[1] = 32 => Handler("irq", stack[1]) = "timer_handler"
          /\ stack[1] = 33 => Handler("irq", stack[1]) = "keyboard_interrupt_handler"
      BY <1>1 DEF Handler, Vectors
    <2>6. served'.vector = stack[1] /\ served'.handler = Handler("irq", stack[1])
      BY <2>4
    <2> QED  BY <1>1, <1>2, <2>1, <2>2, <2>5, <2>6 DEF ServedOK, InC, RightHandler, Vectors
  <1>7. CASE isr_common_stub
    <2>1. pc = "isr" /\ pc' = "isr_end" /\ call.routine # "sleep" /\ (stack[1] = DIVIDE => Cause)
      BY <1>3, <1>7 DEF isr_common_stub, ServedOK
    <2>2. stack[1] \in {0, 13, 14}
      BY <1>1, <1>3, <2>1 DEF MachineOK, StackOK, Vectors
    <2>3. NumberOnStack(Saved) = stack[1]
      BY <1>3, <2>1, SavedHolds
    <2>4. served' = [vector |-> stack[1], handler |-> Handler("isr", stack[1]), args |-> <<>>]
      BY <1>7, <2>3 DEF isr_common_stub, Serve
    <2>5. /\ stack[1] = 0 => Handler("isr", stack[1]) = "divide_error_handler"
          /\ stack[1] = 13 => Handler("isr", stack[1]) = "general_protection_fault_handler"
          /\ stack[1] = 14 => Handler("isr", stack[1]) = "page_fault_handler"
      BY <1>1 DEF Handler, Vectors
    <2>6. served'.vector = stack[1] /\ served'.handler = Handler("isr", stack[1])
      BY <2>4
    <2> QED  BY <1>1, <1>2, <2>1, <2>2, <2>5, <2>6 DEF ServedOK, InC, RightHandler, Vectors
  <1>8. CASE syscall_handler_asm
    <2>1. pc' = "syscall_end" /\ served'.vector = 128
      BY <1>1, <1>8 DEF syscall_handler_asm, Serve, Vectors
    <2> QED  BY <1>1, <1>2, <2>1 DEF ServedOK, InC, RightHandler, Vectors
  <1>9. CASE Return
    <2>1. pc' \in Places /\ served' = NotServed
      BY <1>3, <1>9, ReturnUnseen DEF Return
    <2> QED  BY <1>1, <1>2, <1>4, <2>1 DEF ServedOK, InC, RightHandler, Vectors
  <1> QED  BY <1>5, <1>6, <1>7, <1>8, <1>9 DEF Kernel

LEMMA KernelKeeps ==
  ASSUME TrapsInv, Kernel \/ \E v \in Irqs : Interrupt(v)
  PROVE  TrapsInv'
  <1>1. MachineOK' /\ ThreadAt' = ThreadAt /\ ThreadRegs' = ThreadRegs
    BY KernelUnseen DEF TrapsInv, Unseen
  <1>2. HistoryOK' /\ call' = call /\ result' = result
    BY KernelHistory
  <1>3. RoutineOK(ThreadAt, ThreadRegs, call, result)'
    BY <1>1, <1>2 DEF TrapsInv
  <1> QED  BY <1>1, <1>2, <1>3, KernelSleep, KernelServed DEF TrapsInv
-----------------------------------------------------------------------------
(***************************************************************************)
(* The thread's steps.                                                     *)
(***************************************************************************)
\* The place names the routine that is running.
LEMMA RoutineAt ==
  ASSUME TrapsInv, pc \in Places
  PROVE  /\ pc \in {"sleep", "sleep_test", "sleep_hlt"} => call.routine = "sleep"
         /\ pc \in {"pow", "pow_loop"} => call.routine = "pow"
         /\ pc \in {"sqrt", "sqrt_loop"} => call.routine = "sqrt"
         /\ pc = "gcd" => call.routine = "gcd"
         /\ pc \in {"lcm", "lcm_gcd"} => call.routine = "lcm"
         /\ pc = "int" => call.routine = "int"
         /\ pc = "touch" => call.routine = "touch"
         /\ ThreadAt = pc /\ ThreadRegs = reg
  <1>1. ThreadAt = pc /\ ThreadRegs = reg
    BY InPlace DEF TrapsInv
  <1>2. call.routine \in {"sleep", "pow", "sqrt", "gcd", "lcm", "int", "touch", "none"}
    BY DEF TrapsInv, HistoryOK, Calls, Routines
  <1> QED  BY <1>1, <1>2 DEF TrapsInv, RoutineOK, SleepPlaces, PowOK, SqrtOK, GcdOK, LcmOK, IntOK, TouchOK

\* The thread goes from one place to another.
LEMMA Moves ==
  ASSUME TrapsInv, pc \in Places, pc' \in Places, reg' \in [Registers -> Word],
         stack' = stack, IF_flag' = IF_flag, served' = served,
         halted' \in BOOLEAN, halted' = TRUE => pc' = "sleep_test"
  PROVE  /\ MachineOK' /\ ThreadAt' = pc' /\ ThreadRegs' = reg'
         /\ pc' \notin Stubs /\ pc' # "irq" /\ ServedOK'
  <1>1. MachineOK /\ stack = <<>> /\ IF_flag = TRUE /\ pc \notin InC
    BY InPlace DEF TrapsInv
  <1>2. pc' \notin Stubs /\ pc' \notin InC
    BY PlacesAreNoStubs
  <1>3. ThreadAt' = pc' /\ ThreadRegs' = reg'
    BY <1>2 DEF ThreadAt, ThreadRegs
  <1>4. \A p \in {"irq", "isr", "syscall", "irq_end", "isr_end", "syscall_end"} : pc' # p
    BY <1>2 DEF Stubs
  <1>5. StackOK'
    BY <1>1, <1>2, <1>4 DEF StackOK
  <1>6. MachineOK'
    BY <1>3, <1>5 DEF MachineOK
  <1>7. ServedOK'
    <2>1. served' = NotServed /\ NotServed.vector = 128 /\ Vectors
      BY <1>1, VectorsAre DEF TrapsInv, ServedOK, NotServed, SYSCALL
    <2> QED  BY <1>4, <2>1 DEF ServedOK, RightHandler, Vectors
  <1> QED  BY <1>2, <1>3, <1>4, <1>6, <1>7

\* The thread traps.
LEMMA Raises ==
  ASSUME TrapsInv, pc \in Places, halted = FALSE, NEW v \in Faults \cup {SYSCALL}, NEW eip \in Places,
         Raise(v, eip), v \in Faults => call.routine # "sleep", v = DIVIDE => Cause
  PROVE  /\ MachineOK' /\ ThreadAt' = eip /\ ThreadRegs' = reg /\ ServedOK'
         /\ tick_count' = tick_count /\ call' = call /\ start' = start /\ result' = result
  <1>1. MachineOK /\ served = NotServed
    BY InPlace DEF TrapsInv, ServedOK
  <1>2. /\ Enter(v, eip) /\ halted' = FALSE /\ served' = NotServed
        /\ tick_count' = tick_count /\ call' = call /\ start' = start /\ result' = result
    BY <1>1 DEF Raise, past
  <1>3. /\ MachineOK' /\ ThreadAt' = eip /\ ThreadRegs' = reg /\ pc' \in Stubs /\ pc' \notin InC
        /\ pc' = "irq" <=> v \in Irqs
        /\ pc' = "isr" <=> v \in Faults
        /\ v \in Faults => stack'[1] = v
    BY <1>1, <1>2, EnteredStub
  <1>4. pc' \notin {"irq_end", "isr_end", "syscall_end"} /\ pc' # "irq"
    BY <1>3, VectorsAre DEF InC, Vectors
  <1>5. ServedOK'
    <2>1. NotServed.vector = 128 /\ Vectors
      BY VectorsAre DEF NotServed, SYSCALL
    <2>2. Cause' <=> Cause
      BY <1>2 DEF Cause
    <2> QED  BY <1>2, <1>3, <1>4, <2>1, <2>2 DEF ServedOK, RightHandler, Vectors
  <1> QED  BY <1>2, <1>3, <1>5

\* A step of the thread within a call: to at, with registers r and result res.
Stepped(at, r, res) ==
  /\ MachineOK' /\ ServedOK' /\ HistoryOK'
  /\ ThreadAt' = at /\ ThreadRegs' = r /\ result' = res
  /\ call' = call /\ start' = start /\ tick_count' = tick_count

LEMMA GoneTo ==
  ASSUME TrapsInv, pc \in Places, At(pc), NEW place \in Places, NEW r \in RegFiles, Goto(place, r)
  PROVE  Stepped(place, r, result) /\ pc' = place /\ halted' = FALSE
  <1>1. /\ pc' = place /\ reg' = r /\ stack' = stack /\ IF_flag' = IF_flag /\ halted' = halted
        /\ served' = served /\ paced' = TRUE /\ halted = FALSE
        /\ tick_count' = tick_count /\ call' = call /\ start' = start /\ result' = result
    BY DEF Goto, At, past, TrapsInv, MachineOK, StackOK
  <1>2. MachineOK' /\ ThreadAt' = place /\ ThreadRegs' = r /\ ServedOK'
    BY <1>1, Moves DEF RegFiles
  <1>3. HistoryOK'
    BY <1>1 DEF TrapsInv, HistoryOK
  <1> QED  BY <1>1, <1>2, <1>3 DEF Stepped

LEMMA Returned ==
  ASSUME TrapsInv, pc \in Places, At(pc), NEW value \in Word, Ret(value)
  PROVE  Stepped("done", [reg EXCEPT !.eax = value], value) /\ pc' = "done" /\ halted' = FALSE
  <1>1. /\ pc' = "done" /\ reg' = [reg EXCEPT !.eax = value] /\ stack' = stack /\ IF_flag' = IF_flag
        /\ halted' = halted /\ served' = served /\ paced' = TRUE /\ halted = FALSE
        /\ tick_count' = tick_count /\ call' = call /\ start' = start /\ result' = value
    BY DEF Ret, At, TrapsInv, MachineOK, StackOK
  <1>2. "done" \in Places /\ reg' \in [Registers -> Word]
    BY <1>1 DEF Places, TrapsInv, MachineOK
  <1>3. MachineOK' /\ ThreadAt' = "done" /\ ThreadRegs' = [reg EXCEPT !.eax = value] /\ ServedOK'
    BY <1>1, <1>2, Moves
  <1>4. HistoryOK'
    BY <1>1 DEF TrapsInv, HistoryOK
  <1> QED  BY <1>1, <1>3, <1>4 DEF Stepped

LEMMA Raised ==
  ASSUME TrapsInv, pc \in Places, At(pc), NEW v \in Faults \cup {SYSCALL}, NEW eip \in Places,
         Raise(v, eip), v \in Faults => call.routine # "sleep", v = DIVIDE => Cause
  PROVE  Stepped(eip, reg, result)
  <1>1. halted = FALSE /\ paced' = TRUE
    BY DEF At, TrapsInv, MachineOK, StackOK
  <1>2. /\ MachineOK' /\ ThreadAt' = eip /\ ThreadRegs' = reg /\ ServedOK'
        /\ tick_count' = tick_count /\ call' = call /\ start' = start /\ result' = result
    BY <1>1, Raises
  <1>3. HistoryOK'
    BY <1>1, <1>2 DEF TrapsInv, HistoryOK
  <1> QED  BY <1>2, <1>3 DEF Stepped

\* It keeps the invariant if it keeps the one of its routine.
LEMMA SteppedKeeps ==
  ASSUME NEW at, NEW r, NEW res, Stepped(at, r, res), RoutineOK(at, r, call, res), call.routine # "sleep"
  PROVE  TrapsInv'
  <1>1. RoutineOK(ThreadAt, ThreadRegs, call, result)'
    BY DEF Stepped
  <1>2. SleepOK'
    BY DEF Stepped, SleepOK, Asleep
  <1> QED  BY <1>1, <1>2 DEF Stepped, TrapsInv

PlaceNames == {"idle", "done", "sleep", "sleep_test", "sleep_hlt", "pow", "pow_loop", "sqrt",
               "sqrt_loop", "gcd", "lcm", "lcm_gcd", "int", "touch"}
LEMMA PlacesAre == Places = PlaceNames
  BY DEF Places, Routines, PlaceNames

LEMMA PowKeeps ==
  ASSUME TrapsInv, Pow
  PROVE  TrapsInv'
  <1>1. pc \in Places /\ At(pc) /\ pc \in {"pow", "pow_loop"}
    BY PlacesAre DEF Pow, At, PlaceNames
  <1>2. ThreadAt = pc /\ ThreadRegs = reg /\ call.routine = "pow"
    BY <1>1, RoutineAt
  <1>3. PowOK(pc, reg, call, result) /\ reg \in RegFiles /\ call \in Calls /\ reg.eax \in Word
    BY <1>2, RegisterFile DEF TrapsInv, RoutineOK, MachineOK, HistoryOK, RegFiles
  <1>4. ASSUME NEW at, NEW r, NEW res, Stepped(at, r, res), PowOK(at, r, call, res) PROVE TrapsInv'
    BY <1>2, <1>4, SteppedKeeps DEF RoutineOK
  <1>5. CASE pc = "pow"
    <2>1. Goto("pow_loop", [reg EXCEPT !.eax = 1, !.ebx = reg.eax, !.ecx = reg.ebx])
      BY <1>5 DEF Pow, At
    <2>2. PICK s : s = [reg EXCEPT !.eax = 1, !.ebx = reg.eax, !.ecx = reg.ebx]
      OBVIOUS
    <2>3. s \in RegFiles /\ PowOK("pow_loop", s, call, result)
      BY <1>3, <1>5, <2>2, PowStart
    <2>4. Stepped("pow_loop", s, result)
      BY <1>1, <2>1, <2>2, <2>3, GoneTo, PlacesAre DEF PlaceNames
    <2> QED  BY <1>4, <2>3, <2>4
  <1>6. CASE pc = "pow_loop"
    <2>1. IF reg.ecx > 0 THEN Goto("pow_loop", PowStep(reg)) ELSE Ret(reg.eax)
      BY <1>6 DEF Pow, At
    <2>2. /\ reg.ecx > 0 => PowStep(reg) \in RegFiles /\ PowOK("pow_loop", PowStep(reg), call, result)
          /\ ~(reg.ecx > 0) => PowOK("done", [reg EXCEPT !.eax = reg.eax], call, reg.eax)
      BY <1>3, <1>6, PowLoop
    <2>3. CASE reg.ecx > 0
      <3>1. PICK s : s = PowStep(reg)
        OBVIOUS
      <3>2. Stepped("pow_loop", s, result)
        BY <1>1, <2>1, <2>2, <2>3, <3>1, GoneTo, PlacesAre DEF PlaceNames
      <3> QED  BY <1>4, <2>2, <2>3, <3>1, <3>2
    <2>4. CASE ~(reg.ecx > 0)
      <3>1. Stepped("done", [reg EXCEPT !.eax = reg.eax], reg.eax)
        BY <1>1, <1>3, <2>1, <2>4, Returned
      <3> QED  BY <1>4, <2>2, <2>4, <3>1
    <2> QED  BY <2>3, <2>4
  <1> QED  BY <1>1, <1>5, <1>6

LEMMA SqrtKeeps ==
  ASSUME TrapsInv, Sqrt
  PROVE  TrapsInv'
  <1>1. pc \in Places /\ At(pc) /\ pc \in {"sqrt", "sqrt_loop"}
    BY PlacesAre DEF Sqrt, At, PlaceNames
  <1>2. ThreadAt = pc /\ ThreadRegs = reg /\ call.routine = "sqrt"
    BY <1>1, RoutineAt
  <1>3. SqrtOK(pc, reg, call, result) /\ reg \in RegFiles /\ call \in Calls /\ reg.eax \in Word
    BY <1>2, RegisterFile DEF TrapsInv, RoutineOK, MachineOK, HistoryOK, RegFiles
  <1>4. ASSUME NEW at, NEW r, NEW res, Stepped(at, r, res), SqrtOK(at, r, call, res) PROVE TrapsInv'
    BY <1>2, <1>4, SteppedKeeps DEF RoutineOK
  <1>5. ASSUME NEW s \in RegFiles, Goto("sqrt_loop", s), SqrtOK("sqrt_loop", s, call, result) PROVE TrapsInv'
    <2>1. Stepped("sqrt_loop", s, result)
      BY <1>1, <1>5, GoneTo, PlacesAre DEF PlaceNames
    <2> QED  BY <1>4, <1>5, <2>1
  <1>6. ASSUME NEW x \in Word, Ret(x), SqrtOK("done", [reg EXCEPT !.eax = x], call, x) PROVE TrapsInv'
    <2>1. Stepped("done", [reg EXCEPT !.eax = x], x)
      BY <1>1, <1>6, Returned
    <2> QED  BY <1>4, <1>6, <2>1
  <1>7. CASE pc = "sqrt"
    <2>1. IF reg.eax = 0 THEN Ret(0) ELSE Goto("sqrt_loop", [reg EXCEPT !.ebx = reg.eax])
      BY <1>7 DEF Sqrt, At
    <2>2. /\ reg.eax = 0 => SqrtOK("done", [reg EXCEPT !.eax = 0], call, 0)
          /\ reg.eax # 0 => /\ [reg EXCEPT !.ebx = reg.eax] \in RegFiles
                            /\ SqrtOK("sqrt_loop", [reg EXCEPT !.ebx = reg.eax], call, result)
      BY <1>3, <1>7, SqrtStart
    <2>3. CASE reg.eax = 0
      <3>1. 0 \in Word
        BY <1>3, <2>3
      <3> QED  BY <1>6, <2>1, <2>2, <2>3, <3>1
    <2>4. CASE reg.eax # 0
      BY <1>5, <2>1, <2>2, <2>4
    <2> QED  BY <2>3, <2>4
  <1>8. CASE pc = "sqrt_loop" /\ reg.eax = 0
    <2>1. Raise(DIVIDE, "sqrt_loop")
      BY <1>8 DEF Sqrt, At
    <2>2. Cause
      BY <1>2, <1>3, <1>8 DEF SqrtOK, Estimate, Cause
    <2>3. DIVIDE \in Faults \cup {SYSCALL} /\ "sqrt_loop" \in Places
      BY VectorsAre, PlacesAre DEF Vectors, PlaceNames
    <2>4. Stepped("sqrt_loop", reg, result)
      BY <1>1, <1>2, <2>1, <2>2, <2>3, Raised
    <2> QED  BY <1>3, <1>4, <1>8, <2>4
  <1>9. CASE pc = "sqrt_loop" /\ reg.eax # 0
    <2>1. PICK next : next = ((reg.eax + reg.ebx \div reg.eax) % WORD) \div 2
      OBVIOUS
    <2>2. IF next < reg.eax THEN Goto("sqrt_loop", [reg EXCEPT !.ecx = reg.eax, !.eax = next])
          ELSE Ret(reg.eax)
      BY <1>9, <2>1 DEF Sqrt, At
    <2>3. /\ next < reg.eax => /\ [reg EXCEPT !.ecx = reg.eax, !.eax = next] \in RegFiles
                               /\ SqrtOK("sqrt_loop", [reg EXCEPT !.ecx = reg.eax, !.eax = next], call, result)
          /\ ~(next < reg.eax) => SqrtOK("done", [reg EXCEPT !.eax = reg.eax], call, reg.eax)
      BY <1>3, <1>9, <2>1, SqrtLoop
    <2> QED  BY <1>3, <1>5, <1>6, <2>2, <2>3
  <1> QED  BY <1>1, <1>7, <1>8, <1>9

LEMMA GcdKeeps ==
  ASSUME TrapsInv, Gcd
  PROVE  TrapsInv'
  <1>1. pc \in Places /\ At(pc) /\ pc = "gcd"
    BY PlacesAre DEF Gcd, At, PlaceNames
  <1>2. ThreadAt = pc /\ ThreadRegs = reg /\ call.routine = "gcd"
    BY <1>1, RoutineAt
  <1>3. /\ SameDivisors(reg.eax, reg.ebx, call.a, call.b) /\ reg \in RegFiles /\ call \in Calls
        /\ reg.eax \in Word
    BY <1>1, <1>2, RegisterFile DEF TrapsInv, RoutineOK, GcdOK, MachineOK, HistoryOK, RegFiles
  <1>4. ASSUME NEW at, NEW r, NEW res, Stepped(at, r, res), GcdOK(at, r, call, res) PROVE TrapsInv'
    BY <1>2, <1>4, SteppedKeeps DEF RoutineOK
  <1>5. CASE reg.ebx # 0
    <2>1. PICK s : s = GcdStep(reg)
      OBVIOUS
    <2>2. s \in RegFiles /\ SameDivisors(s.eax, s.ebx, call.a, call.b)
      BY <1>3, <1>5, <2>1, GcdLoop
    <2>3. Stepped("gcd", s, result)
      <3>1. Goto("gcd", s)
        BY <1>5, <2>1 DEF Gcd
      <3> QED  BY <1>1, <2>2, <3>1, GoneTo
    <2> QED  BY <1>4, <2>2, <2>3 DEF GcdOK
  <1>6. CASE reg.ebx = 0
    <2>1. IsGcd(reg.eax, call.a, call.b)
      BY <1>3, <1>6, GcdLoop
    <2>2. Stepped("done", [reg EXCEPT !.eax = reg.eax], reg.eax)
      <3>1. Ret(reg.eax)
        BY <1>6 DEF Gcd
      <3> QED  BY <1>1, <1>3, <3>1, Returned
    <2> QED  BY <1>4, <2>1, <2>2 DEF GcdOK
  <1> QED  BY <1>5, <1>6

LEMMA LcmKeeps ==
  ASSUME TrapsInv, Lcm
  PROVE  TrapsInv'
  <1>1. pc \in Places /\ At(pc) /\ pc \in {"lcm", "lcm_gcd"}
    BY PlacesAre DEF Lcm, At, PlaceNames
  <1>2. ThreadAt = pc /\ ThreadRegs = reg /\ call.routine = "lcm"
    BY <1>1, RoutineAt
  <1>3. /\ LcmOK(pc, reg, call, result) /\ reg \in RegFiles /\ call \in Calls
        /\ reg.eax \in Word /\ reg.ebx \in Word /\ reg.edi \in Word
        /\ call.a \in Word /\ call.b \in Word /\ call.a \in Nat /\ call.b \in Nat
    BY <1>2, RegisterFile, WordWide DEF TrapsInv, RoutineOK, MachineOK, HistoryOK, RegFiles, Calls
  <1>4. ASSUME NEW at, NEW r, NEW res, Stepped(at, r, res), LcmOK(at, r, call, res) PROVE TrapsInv'
    BY <1>2, <1>4, SteppedKeeps DEF RoutineOK
  <1>5. CASE pc = "lcm"
    <2>1. reg.eax = call.a /\ reg.ebx = call.b
      BY <1>3, <1>5 DEF LcmOK
    <2>2. PICK p \in Word : p = (call.a * call.b) % WORD
      <3>1. call.a * call.b \in Nat
        BY <1>3, ProductOfNats
      <3> QED  BY <3>1, WordWide
    <2>3. PICK s : s = [reg EXCEPT !.edi = p]
      OBVIOUS
    <2>4. s \in RegFiles /\ s.eax = call.a /\ s.ebx = call.b /\ s.edi = p
      BY <1>3, <2>1, <2>3 DEF RegFiles, Registers
    <2>5. Stepped("lcm_gcd", s, result)
      <3>1. Goto("lcm_gcd", s)
        BY <1>5, <2>1, <2>2, <2>3 DEF Lcm, At
      <3> QED  BY <1>1, <2>4, <3>1, GoneTo, PlacesAre DEF PlaceNames
    <2>6. SameDivisors(call.a, call.b, call.a, call.b)
      BY DEF SameDivisors
    <2>7. Combination(call.a, call.a, call.b) /\ Combination(call.b, call.a, call.b)
      <3>1. PICK a \in Nat, b \in Nat : a = call.a /\ b = call.b
        BY <1>3
      <3>2. a = 1 * a + 0 * b /\ b = 0 * a + 1 * b /\ 0 \in Int /\ 1 \in Int
        OBVIOUS
      <3>3. Combination(a, a, b) /\ Combination(b, a, b)
        BY <3>2 DEF Combination
      <3> QED  BY <3>1, <3>3
    <2> QED  BY <1>4, <2>2, <2>4, <2>5, <2>6, <2>7 DEF LcmOK
  <1>6. CASE pc = "lcm_gcd"
    <2>1. /\ SameDivisors(reg.eax, reg.ebx, call.a, call.b) /\ reg.edi = (call.a * call.b) % WORD
          /\ Combination(reg.eax, call.a, call.b) /\ Combination(reg.ebx, call.a, call.b)
      BY <1>3, <1>6 DEF LcmOK
    <2>2. CASE reg.ebx # 0
      <3>1. PICK s : s = GcdStep(reg)
        OBVIOUS
      <3>2. /\ s \in RegFiles /\ SameDivisors(s.eax, s.ebx, call.a, call.b) /\ s.edi = reg.edi
            /\ Combination(s.eax, call.a, call.b) /\ Combination(s.ebx, call.a, call.b)
        BY <1>3, <2>1, <2>2, <3>1, GcdLoop
      <3>3. Stepped("lcm_gcd", s, result)
        <4>1. Goto("lcm_gcd", s)
          BY <1>6, <2>2, <3>1 DEF Lcm, At
        <4> QED  BY <1>1, <3>2, <4>1, GoneTo, PlacesAre DEF PlaceNames
      <3> QED  BY <1>4, <2>1, <3>2, <3>3 DEF LcmOK
    <2>3. CASE reg.ebx = 0 /\ reg.eax # 0
      <3>1. PICK g \in Nat \ {0} : g = reg.eax
        BY <1>3, <2>3, WordWide
      <3>2. PICK x : x = reg.edi \div g
        OBVIOUS
      <3>3. x \in Word
        <4>1. reg.edi \in Nat
          BY <1>3, WordWide
        <4>2. x \in Nat /\ x <= reg.edi
          <5>1. PICK n \in Nat : n = reg.edi
            BY <4>1
          <5>2. n \div g \in Nat /\ n = g * (n \div g) + (n % g) /\ n % g \in 0..g-1
            BY Quotient
          <5>3. PICK q \in Nat : q = n \div g
            BY <5>2
          <5>4. q <= g * q /\ g * q \in Nat
            BY SMT
          <5>5. q <= n
            BY <5>2, <5>3, <5>4
          <5> QED  BY <3>2, <5>1, <5>3, <5>5
        <4> QED  BY <1>3, <4>2, Bounds DEF Word
      <3>4. IsLcm(x, call.a, call.b)
        BY <1>3, <2>1, <2>3, <3>1, <3>2, LeastCommonMultiple
      <3>5. Stepped("done", [reg EXCEPT !.eax = x], x)
        <4>1. Ret(x)
          BY <1>6, <2>3, <3>1, <3>2 DEF Lcm, At
        <4> QED  BY <1>1, <3>3, <4>1, Returned
      <3> QED  BY <1>4, <3>4, <3>5 DEF LcmOK
    <2>4. CASE reg.ebx = 0 /\ reg.eax = 0
      <3>1. Raise(DIVIDE, "lcm_gcd")
        BY <1>6, <2>4 DEF Lcm, At
      <3>2. Cause
        BY <1>2, <1>3, <2>1, <2>4, GcdLoop DEF Cause
      <3>3. DIVIDE \in Faults \cup {SYSCALL} /\ "lcm_gcd" \in Places
        BY VectorsAre, PlacesAre DEF Vectors, PlaceNames
      <3>4. Stepped("lcm_gcd", reg, result)
        BY <1>1, <1>2, <3>1, <3>2, <3>3, Raised
      <3> QED  BY <1>3, <1>4, <1>6, <3>4
    <2> QED  BY <2>2, <2>3, <2>4
  <1> QED  BY <1>1, <1>5, <1>6

LEMMA TrapKeeps ==
  ASSUME TrapsInv, Syscall \/ Touch
  PROVE  TrapsInv'
  <1>1. CASE Syscall
    <2>1. pc \in Places /\ At(pc) /\ pc = "int" /\ Raise(SYSCALL, "done") /\ "done" \in Places
      BY <1>1, PlacesAre DEF Syscall, At, PlaceNames
    <2>2. ThreadAt = pc /\ ThreadRegs = reg /\ call.routine = "int"
      BY <2>1, RoutineAt
    <2>3. SYSCALL \notin Faults /\ SYSCALL # DIVIDE
      BY VectorsAre DEF Vectors
    <2>4. Stepped("done", reg, result)
      BY <2>1, <2>2, <2>3, Raised
    <2>5. IntOK("done", reg, call)
      BY <2>2 DEF TrapsInv, RoutineOK, IntOK
    <2> QED  BY <2>2, <2>4, <2>5, SteppedKeeps DEF RoutineOK
  <1>2. CASE Touch
    <2>1. pc \in Places /\ At(pc) /\ pc = "touch" /\ Raise(reg.eax, "touch")
      BY <1>2, PlacesAre DEF Touch, At, PlaceNames
    <2>2. ThreadAt = pc /\ ThreadRegs = reg /\ call.routine = "touch"
      BY <2>1, RoutineAt
    <2>3. TouchOK("touch", reg, call)
      BY <2>1, <2>2 DEF TrapsInv, RoutineOK
    <2>4. PICK v \in Faults : v = reg.eax /\ v # DIVIDE
      BY <2>3, VectorsAre DEF Vectors, TouchOK
    <2>5. Stepped("touch", reg, result)
      BY <2>1, <2>2, <2>4, Raised
    <2> QED  BY <2>2, <2>3, <2>5, SteppedKeeps DEF RoutineOK
  <1> QED  BY <1>1, <1>2

\* sleep: the target is start + Ticks; a tick may fall between the test and
\* the hlt, and none is lost while it waits.
LEMMA SleepKeeps ==
  ASSUME TrapsInv, Sleep
  PROVE  TrapsInv'
  <1>1. pc \in Places /\ At(pc) /\ pc \in {"sleep", "sleep_test", "sleep_hlt"}
    BY PlacesAre DEF Sleep, At, PlaceNames
  <1>2. /\ ThreadAt = pc /\ ThreadRegs = reg /\ call.routine = "sleep" /\ reg \in RegFiles
        /\ reg.eax \in Word /\ paced' = TRUE /\ halted = FALSE
    BY <1>1, RoutineAt, RegisterFile DEF TrapsInv, MachineOK, StackOK, RegFiles, At
  <1>3. \A at \in SleepPlaces : \A r, res : RoutineOK(at, r, call, res)
    BY <1>2 DEF RoutineOK
  <1>4. Ticks \in Nat /\ WORD \in Nat \ {0} /\ tick_count \in Nat /\ start \in Nat /\ call.a \in Nat
    <2>1. PICK ms \in Nat : ms = call.a
      BY WordWide DEF TrapsInv, HistoryOK, Calls
    <2>2. ms \div 10 \in Nat
      OBVIOUS
    <2> QED  BY <2>1, <2>2, WordWide DEF Ticks, TrapsInv, HistoryOK
  <1>5. /\ pc = "sleep" => reg.eax = call.a
        /\ NoWrap =>
             /\ pc \in {"sleep_test", "sleep_hlt"} => reg.eax = start + Ticks /\ start =< tick_count
             /\ pc = "sleep_test" => tick_count - start + Pending =< Ticks + 1
             /\ pc = "sleep_hlt" => tick_count - start + Pending =< Ticks
    BY <1>2 DEF TrapsInv, SleepOK, Asleep
  <1>6. \A n \in 0..WORD-1 : n % WORD = n
    <2>1. \A n \in 0..WORD-1 : n \in Nat /\ n = WORD * 0 + n /\ 0 \in Nat
      BY <1>4
    <2> QED  BY <1>4, <2>1, QuotientUnique
  <1>7. CASE pc = "sleep"
    <2>1. PICK target \in Word : target = TargetTicks(tick_count, reg.eax)
      <3>1. PICK x \in Nat : x = reg.eax
        BY <1>2, WordWide
      <3>2. tick_count + x \div 10 \in Nat
        BY <1>4
      <3> QED  BY <3>1, <3>2, WordWide DEF TargetTicks
    <2>2. /\ pc' = "sleep_test" /\ reg' = [reg EXCEPT !.eax = target] /\ start' = tick_count
          /\ stack' = stack /\ IF_flag' = IF_flag /\ halted' = halted /\ tick_count' = tick_count
          /\ call' = call /\ result' = result /\ served' = served
      BY <1>7, <2>1 DEF Sleep, At
    <2>3. reg' \in RegFiles /\ reg'.eax = target /\ pc' \in Places
      BY <1>2, <2>1, <2>2, PlacesAre DEF RegFiles, Registers, PlaceNames
    <2>4. MachineOK' /\ ThreadAt' = pc' /\ ThreadRegs' = reg' /\ ServedOK'
      BY <1>1, <1>2, <2>2, <2>3, Moves DEF RegFiles
    <2>5. HistoryOK'
      BY <1>2, <2>2 DEF TrapsInv, HistoryOK
    <2>6. Pending' \in {0, 1}
      BY DEF Pending
    <2>7. NoWrap' => target = tick_count + Ticks
      <3> SUFFICES ASSUME tick_count + Ticks < WORD - 1 PROVE target = tick_count + Ticks
        BY <2>2 DEF NoWrap, Ticks
      <3>1. tick_count + Ticks \in 0..WORD-1
        BY <1>4
      <3>2. target = (tick_count + Ticks) % WORD
        BY <1>5, <1>7, <2>1 DEF TargetTicks, Ticks
      <3> QED  BY <1>6, <3>1, <3>2
    <2>8. SleepOK'
      <3>1. Ticks' = Ticks
        BY <2>2 DEF Ticks
      <3>2. tick_count - tick_count + Pending' =< Ticks + 1
        <4>1. PICK p \in {0, 1} : p = Pending'
          BY <2>6
        <4>2. tick_count - tick_count + p = p /\ p =< Ticks + 1
          BY <1>4
        <4> QED  BY <4>1, <4>2
      <3> QED  BY <1>4, <2>2, <2>3, <2>4, <2>7, <3>1, <3>2 DEF SleepOK
    <2>9. RoutineOK(ThreadAt, ThreadRegs, call, result)'
      BY <1>3, <2>2, <2>4 DEF SleepPlaces
    <2> QED  BY <2>4, <2>5, <2>8, <2>9 DEF TrapsInv
  <1>8. CASE pc = "sleep_test" /\ Sleeping(reg.eax)
    <2>1. Stepped("sleep_hlt", reg, result) /\ pc' = "sleep_hlt" /\ halted' = FALSE
      <3>1. Goto("sleep_hlt", reg)
        BY <1>8 DEF Sleep, At
      <3> QED  BY <1>1, <1>2, <3>1, GoneTo, PlacesAre DEF PlaceNames
    <2>2. Pending' = 1 /\ Ticks' = Ticks /\ (NoWrap' <=> NoWrap)
      BY <1>2, <2>1 DEF Pending, Ticks, NoWrap, Stepped
    <2>3. NoWrap => tick_count - start + 1 =< Ticks
      BY <1>4, <1>5, <1>8 DEF Sleeping
    <2>4. SleepOK'
      BY <1>5, <1>8, <2>1, <2>2, <2>3 DEF SleepOK, Stepped
    <2>5. RoutineOK(ThreadAt, ThreadRegs, call, result)'
      BY <1>3, <2>1 DEF SleepPlaces, Stepped
    <2> QED  BY <2>1, <2>4, <2>5 DEF TrapsInv, Stepped
  <1>9. CASE pc = "sleep_test" /\ ~Sleeping(reg.eax)
    <2>1. PICK value \in Word : value = (tick_count - start) % WORD
      <3>1. PICK z \in Int : z = tick_count - start
        BY <1>4
      <3>2. z % WORD \in 0..WORD-1
        BY <1>4
      <3> QED  BY <3>1, <3>2 DEF Word
    <2>2. Stepped("done", [reg EXCEPT !.eax = value], value) /\ pc' = "done"
      <3>1. Ret(value)
        BY <1>9, <2>1 DEF Sleep, At
      <3> QED  BY <1>1, <3>1, Returned
    <2>3. Ticks' = Ticks /\ (NoWrap' <=> NoWrap)
      BY <2>2 DEF Ticks, NoWrap, Stepped
    <2>4. NoWrap => value \in Ticks..Ticks+1
      <3> SUFFICES ASSUME NoWrap PROVE value \in Ticks..Ticks+1
        OBVIOUS
      <3>1. Pending \in {0, 1}
        BY DEF Pending
      <3>2. ~(tick_count < start + Ticks) /\ tick_count - start + Pending =< Ticks + 1 /\ start + Ticks < WORD - 1
        BY <1>5, <1>9 DEF Sleeping, NoWrap
      <3>3. PICK d \in Int : d = tick_count - start
        BY <1>4
      <3>4. d >= Ticks
        BY <1>4, <3>2, <3>3
      <3>5. d =< Ticks + 1
        BY <1>4, <3>1, <3>2, <3>3
      <3>6. d \in 0..WORD-1
        BY <1>4, <3>2, <3>4, <3>5
      <3>7. value = d
        BY <1>6, <2>1, <3>3, <3>6
      <3> QED  BY <1>4, <3>4, <3>5, <3>7
    <2>5. SleepOK'
      BY <2>2, <2>3, <2>4 DEF SleepOK, Stepped
    <2>6. RoutineOK(ThreadAt, ThreadRegs, call, result)'
      BY <1>3, <2>2 DEF SleepPlaces, Stepped
    <2> QED  BY <2>2, <2>5, <2>6 DEF TrapsInv, Stepped
  <1>10. CASE pc = "sleep_hlt"
    <2>1. /\ halted' = TRUE /\ pc' = "sleep_test"
          /\ reg' = reg /\ stack' = stack /\ IF_flag' = IF_flag /\ tick_count' = tick_count
          /\ call' = call /\ start' = start /\ result' = result /\ served' = served
      BY <1>10 DEF Sleep, At, past
    <2>2. pc' \in Places
      BY <2>1, PlacesAre DEF PlaceNames
    <2>3. MachineOK' /\ ThreadAt' = "sleep_test" /\ ThreadRegs' = reg /\ ServedOK'
      BY <1>1, <1>2, <2>1, <2>2, Moves DEF RegFiles
    <2>4. HistoryOK'
      BY <1>2, <2>1 DEF TrapsInv, HistoryOK
    <2>5. Pending' = 1 /\ Pending \in {0, 1} /\ Ticks' = Ticks /\ (NoWrap' <=> NoWrap)
      BY <2>1 DEF Pending, Ticks, NoWrap
    <2>6. NoWrap => tick_count - start + 1 =< Ticks + 1
      BY <1>4, <1>5, <1>10, <2>5
    <2>7. SleepOK'
      BY <1>5, <1>10, <2>1, <2>3, <2>5, <2>6 DEF SleepOK
    <2>8. RoutineOK(ThreadAt, ThreadRegs, call, result)'
      BY <1>3, <2>1, <2>3 DEF SleepPlaces
    <2> QED  BY <2>3, <2>4, <2>7, <2>8 DEF TrapsInv
  <1> QED  BY <1>1, <1>7, <1>8, <1>9, <1>10

\* The thread calls a routine.
LEMMA BeginKeeps ==
  ASSUME TrapsInv, NEW routine \in Routines, NEW a \in Word, NEW b \in Word, Begin(routine, a, b),
         routine = "int" => b = 1, routine = "touch" => a \in {PROTECTION, PAGE}
  PROVE  TrapsInv'
  <1>1. pc \in Places /\ routine \in Places
    BY PlacesAre DEF Begin, At, PlaceNames, Places
  <1>2. PICK r : r = [Zeroed EXCEPT !.eax = a, !.ebx = b]
    OBVIOUS
  <1>3. r \in RegFiles /\ r.eax = a /\ r.ebx = b
    <2>1. 0 \in Word
      BY Bounds DEF Word
    <2>2. Zeroed \in [Registers -> Word] /\ "eax" \in Registers /\ "ebx" \in Registers
      BY <2>1 DEF Zeroed, Registers
    <2> QED  BY <1>2, <2>2 DEF RegFiles
  <1>4. PICK c : c = [routine |-> routine, a |-> a, b |-> b]
    OBVIOUS
  <1>5. c \in Calls /\ c.routine = routine /\ c.a = a /\ c.b = b
    BY <1>4 DEF Calls
  <1>6. /\ pc' = routine /\ reg' = r /\ call' = c /\ stack' = stack /\ IF_flag' = IF_flag
        /\ halted' = halted /\ halted = FALSE /\ paced' = TRUE /\ served' = served
        /\ tick_count' = tick_count /\ start' = start /\ result' = result
    BY <1>2, <1>4 DEF Begin, At, TrapsInv, MachineOK, StackOK
  <1>7. MachineOK' /\ ThreadAt' = routine /\ ThreadRegs' = r /\ ServedOK'
    BY <1>1, <1>3, <1>6, Moves DEF RegFiles
  <1>8. HistoryOK'
    BY <1>5, <1>6 DEF TrapsInv, HistoryOK
  <1>9. RoutineOK(routine, r, c, result)
    <2>1. routine \in {"sleep", "pow", "sqrt", "gcd", "lcm", "int", "touch"}
      BY DEF Routines
    <2>2. routine = "gcd" => SameDivisors(a, b, a, b)
      BY DEF SameDivisors
    <2> QED  BY <1>2, <1>3, <1>5, <2>1, <2>2
             DEF RoutineOK, IntOK, TouchOK, PowOK, SqrtOK, GcdOK, LcmOK, SleepPlaces
  <1>10. SleepOK'
    <2>1. routine \notin {"sleep_test", "sleep_hlt", "done"}
      BY DEF Routines
    <2> QED  BY <1>3, <1>5, <1>6, <1>7, <2>1 DEF SleepOK
  <1> QED  BY <1>6, <1>7, <1>8, <1>9, <1>10 DEF TrapsInv

LEMMA CallerKeeps ==
  ASSUME TrapsInv, Caller
  PROVE  TrapsInv'
  <1>1. Args \subseteq Word /\ Sleeps \subseteq Word /\ Numbers \subseteq Word
    BY TrapsAssumption DEF Word
  <1>2. 0 \in Word /\ 1 \in Word /\ PROTECTION \in Word /\ PAGE \in Word
    BY Bounds DEF Word, PROTECTION, PAGE
  <1>3. ASSUME NEW a \in Args, NEW b \in Args, NEW routine \in {"pow", "gcd", "lcm"}, Begin(routine, a, b)
        PROVE  TrapsInv'
    BY <1>1, <1>3, BeginKeeps DEF Routines
  <1>4. ASSUME NEW a \in Args, Begin("sqrt", a, 0) PROVE TrapsInv'
    BY <1>1, <1>2, <1>4, BeginKeeps DEF Routines
  <1>5. ASSUME NEW ms \in Sleeps, Begin("sleep", ms, 0) PROVE TrapsInv'
    BY <1>1, <1>2, <1>5, BeginKeeps DEF Routines
  <1>6. ASSUME NEW number \in Numbers, Begin("int", number, 1) PROVE TrapsInv'
    BY <1>1, <1>2, <1>6, BeginKeeps DEF Routines
  <1>7. ASSUME NEW v \in {PROTECTION, PAGE}, Begin("touch", v, 0) PROVE TrapsInv'
    <2>1. v \in Word
      BY <1>2
    <2> QED  BY <1>2, <1>7, <2>1, BeginKeeps DEF Routines
  <1> QED  BY <1>3, <1>4, <1>5, <1>6, <1>7 DEF Caller

LEMMA FinishKeeps ==
  ASSUME TrapsInv, Finish
  PROVE  TrapsInv'
  <1>1. /\ pc \in Places /\ pc' = "idle" /\ pc' \in Places /\ call' = NoCall /\ reg' = Zeroed
        /\ start' = 0 /\ result' = 0 /\ stack' = stack /\ IF_flag' = IF_flag /\ halted' = halted
        /\ halted = FALSE /\ paced' = TRUE /\ tick_count' = tick_count /\ served' = served
    BY PlacesAre DEF Finish, At, PlaceNames, TrapsInv, MachineOK, StackOK
  <1>2. 0 \in Word /\ Zeroed \in [Registers -> Word]
    BY Bounds DEF Word, Zeroed
  <1>3. MachineOK' /\ ThreadAt' = "idle" /\ ThreadRegs' = Zeroed /\ ServedOK'
    BY <1>1, <1>2, Moves
  <1>4. NoCall \in Calls /\ NoCall.routine = "none"
    BY <1>2 DEF NoCall, Calls
  <1>5. HistoryOK'
    BY <1>1, <1>2, <1>4 DEF TrapsInv, HistoryOK
  <1>6. SleepOK'
    BY <1>1, <1>4 DEF SleepOK, Asleep
  <1>7. RoutineOK(ThreadAt, ThreadRegs, call, result)'
    BY <1>1, <1>3, <1>4 DEF RoutineOK
  <1> QED  BY <1>3, <1>5, <1>6, <1>7 DEF TrapsInv
-----------------------------------------------------------------------------
LEMMA TrapsInitially == Init => TrapsInv
  <1> SUFFICES ASSUME Init PROVE TrapsInv
    OBVIOUS
  <1>1. /\ pc = "idle" /\ reg = Zeroed /\ stack = <<>> /\ IF_flag = TRUE /\ halted = FALSE /\ paced = TRUE
        /\ tick_count \in Word /\ call = NoCall /\ start = 0 /\ result = 0 /\ served = NotServed
    BY DEF Init, Word
  <1>2. 0 \in Word /\ Zeroed \in [Registers -> Word]
    BY Bounds DEF Word, Zeroed
  <1>3. pc \in Places /\ pc \notin Stubs /\ pc \notin InC
    BY <1>1, PlacesAre, PlacesAreNoStubs DEF PlaceNames
  <1>4. \A p \in {"irq", "isr", "syscall", "irq_end", "isr_end", "syscall_end"} : pc # p
    BY <1>1
  <1>5. ThreadAt = "idle" /\ ThreadRegs = reg
    BY <1>1, <1>3 DEF ThreadAt, ThreadRegs
  <1>6. MachineOK
    BY <1>1, <1>2, <1>3, <1>4, <1>5 DEF MachineOK, StackOK
  <1>7. NoCall \in Calls /\ NoCall.routine = "none"
    BY <1>2 DEF NoCall, Calls
  <1>8. HistoryOK /\ SleepOK
    BY <1>1, <1>2, <1>7 DEF HistoryOK, SleepOK, Asleep
  <1>9. ServedOK
    <2>1. NotServed.vector = 128 /\ Vectors
      BY VectorsAre DEF NotServed, SYSCALL
    <2> QED  BY <1>1, <1>4, <2>1 DEF ServedOK, RightHandler, Vectors
  <1>10. RoutineOK(ThreadAt, ThreadRegs, call, result)
    BY <1>1, <1>5, <1>7 DEF RoutineOK
  <1> QED  BY <1>6, <1>8, <1>9, <1>10 DEF TrapsInv

LEMMA StutterKeeps == ASSUME TrapsInv, UNCHANGED vars PROVE TrapsInv'
  <1>1. /\ pc' = pc /\ reg' = reg /\ stack' = stack /\ IF_flag' = IF_flag /\ halted' = halted
        /\ paced' = paced /\ tick_count' = tick_count /\ call' = call /\ start' = start
        /\ result' = result /\ served' = served
    BY DEF vars, cpu, past
  <1>2. ThreadAt' = ThreadAt /\ ThreadRegs' = ThreadRegs
    BY <1>1 DEF ThreadAt, ThreadRegs, Above, Segments
  <1>3. MachineOK'
    BY <1>1, <1>2 DEF TrapsInv, MachineOK, StackOK, Above
  <1>4. HistoryOK' /\ ServedOK'
    BY <1>1 DEF TrapsInv, HistoryOK, ServedOK, RightHandler, Cause
  <1>5. SleepOK'
    BY <1>1, <1>2 DEF TrapsInv, SleepOK, Asleep, NoWrap, Ticks, Pending
  <1>6. RoutineOK(ThreadAt, ThreadRegs, call, result)'
    BY <1>1, <1>2 DEF TrapsInv
  <1> QED  BY <1>3, <1>4, <1>5, <1>6 DEF TrapsInv

LEMMA TrapsInvariant == Spec => []TrapsInv
  <1>1. ASSUME TrapsInv, [Next]_vars PROVE TrapsInv'
    <2>1. CASE Kernel \/ \E v \in Irqs : Interrupt(v)
      BY <1>1, <2>1, KernelKeeps
    <2>2. CASE Caller
      BY <1>1, <2>2, CallerKeeps
    <2>3. CASE Finish
      BY <1>1, <2>3, FinishKeeps
    <2>4. CASE Syscall \/ Touch
      BY <1>1, <2>4, TrapKeeps
    <2>5. CASE Sleep
      BY <1>1, <2>5, SleepKeeps
    <2>6. CASE Pow
      BY <1>1, <2>6, PowKeeps
    <2>7. CASE Sqrt
      BY <1>1, <2>7, SqrtKeeps
    <2>8. CASE Gcd
      BY <1>1, <2>8, GcdKeeps
    <2>9. CASE Lcm
      BY <1>1, <2>9, LcmKeeps
    <2>10. CASE UNCHANGED vars
      BY <1>1, <2>10, StutterKeeps
    <2> QED  BY <1>1, <2>1, <2>2, <2>3, <2>4, <2>5, <2>6, <2>7, <2>8, <2>9, <2>10 DEF Next, Running
  <1> QED  BY <1>1, TrapsInitially, PTL DEF Spec

(***************************************************************************)
(* The variables stay in their types: what the stubs pop is a register     *)
(* file of words again, whatever AX was loaded with in between.            *)
(***************************************************************************)
THEOREM TrapsTypeCorrect == Spec => []TypeOK
  <1>1. TrapsInv => TypeOK
    BY DEF TrapsInv, MachineOK, StackOK, HistoryOK, TypeOK, Word, Calls, Stubs
  <1> QED  BY <1>1, TrapsInvariant, PTL

(***************************************************************************)
(* No interrupt, no stub of interrupt_asm.s or syscall.c and no C handler  *)
(* changes where the thread is, what it has in its registers or what its   *)
(* call has come to.                                                       *)
(***************************************************************************)
THEOREM ThreadSeesNothing ==
  Spec => [][Kernel \/ (\E v \in Irqs : Interrupt(v))
             => UNCHANGED <<ThreadAt, ThreadRegs, call, start, result>>]_vars
  <1>1. ASSUME TrapsInv, Kernel \/ \E v \in Irqs : Interrupt(v)
        PROVE  UNCHANGED <<ThreadAt, ThreadRegs, call, start, result>>
    BY <1>1, KernelUnseen, KernelHistory DEF TrapsInv, Unseen
  <1> QED  BY <1>1, TrapsInvariant, PTL

(***************************************************************************)
(* The handler that is called is the one of the vector that the processor  *)
(* entered by, although the stub finds its number by counting dwords.      *)
(***************************************************************************)
THEOREM HandlerIsRight == Spec => []RightHandler
  <1>1. TrapsInv => RightHandler
    BY DEF TrapsInv, ServedOK
  <1> QED  BY <1>1, TrapsInvariant, PTL

(***************************************************************************)
(* sleep ends after its ticks or one more, wherever the tick falls between *)
(* its test and its hlt.                                                   *)
(***************************************************************************)
THEOREM SleepIsExact == Spec => []SleepExact
  <1>1. TrapsInv => SleepExact
    <2> SUFFICES ASSUME TrapsInv, pc = "done" PROVE SleepExact
      BY DEF SleepExact
    <2>1. ThreadAt = "done"
      BY PlacesAre, InPlace DEF TrapsInv, PlaceNames
    <2> QED  BY <2>1 DEF TrapsInv, SleepOK, SleepExact, NoWrap
  <1> QED  BY <1>1, TrapsInvariant, PTL

(***************************************************************************)
(* The processor stops for good only in an exception handler, and a divide *)
(* error is sqrt of 2^32 - 1 or lcm of nothing and nothing.                *)
(***************************************************************************)
THEOREM OnlyFaultsStopIt == Spec => []OnlyFaultsStop
  <1>1. TrapsInv => OnlyFaultsStop
    <2> SUFFICES ASSUME TrapsInv PROVE OnlyFaultsStop
      OBVIOUS
    <2>1. "sleep_test" \in Places
      BY PlacesAre DEF PlaceNames
    <2> QED  BY <2>1 DEF TrapsInv, ServedOK, Cause, OnlyFaultsStop, MachineOK, StackOK
  <1> QED  BY <1>1, TrapsInvariant, PTL

(***************************************************************************)
(* pow, sqrt, gcd and lcm return what their definitions say, for all words *)
(* and all arguments, and a system call leaves its caller's registers.     *)
(***************************************************************************)
THEOREM ResultsAreRight == Spec => []ResultRight
  <1>1. TrapsInv => ResultRight
    <2> SUFFICES ASSUME TrapsInv, pc = "done" PROVE ResultRight
      BY DEF ResultRight
    <2>1. ThreadAt = "done" /\ ThreadRegs = reg
      BY PlacesAre, InPlace DEF TrapsInv, PlaceNames
    <2>2. RoutineOK("done", reg, call, result)
      BY <2>1 DEF TrapsInv
    <2> QED  BY <2>2 DEF RoutineOK, IntOK, PowOK, SqrtOK, GcdOK, LcmOK, IsGcd, IsLcm, ResultRight
  <1> QED  BY <1>1, TrapsInvariant, PTL
=============================================================================
