------------------------------- MODULE Traps -------------------------------
(***************************************************************************)
(* Ways into the kernel and back: the gates of idt.c and syscall.c, the    *)
(* stubs of interrupt_asm.s and of syscall.c with the dwords they push and *)
(* pop, the C handlers they call, and a thread that is interrupted while   *)
(* its locals are in registers: it sleeps, computes with the routines of   *)
(* utils/math.c, makes system calls and faults.                            *)
(*                                                                         *)
(* A place is the name of the code the processor executes next; stubs run  *)
(* with interrupts disabled, so a stub up to the return of its C handler,  *)
(* and from there to the iret, is one step each.  What the keyboard        *)
(* handler does and the EOIs are in module InputPath.                      *)
(***************************************************************************)
EXTENDS Integers, Sequences, FiniteSets, FiniteSetsExt

CONSTANTS
  WORD,        \* 2^32: uint32_t arithmetic is modulo WORD
  HALF,        \* 2^16: AX is EAX modulo HALF
  KERNEL_DS,   \* the selector 0x10
  Args,        \* bound: arguments of the number routines
  Sleeps,      \* bound: milliseconds given to sleep
  Numbers      \* bound: what is in EAX at INT 0x80

\* The vectors in use.
DIVIDE == 0
PROTECTION == 13
PAGE == 14
TIMER == 32
KEYBOARD == 33
SYSCALL == 128

ASSUME TrapsAssumption ==
  /\ WORD \in Nat /\ WORD > PAGE   \* the numbers of the faults fit
  /\ HALF \in Nat \ {0} /\ WORD % HALF = 0 /\ KERNEL_DS \in 0..HALF-1
  /\ Args \subseteq 0..WORD-1 /\ Sleeps \subseteq 0..WORD-1 /\ Numbers \subseteq 0..WORD-1

VARIABLES
  pc, reg, stack, IF_flag, halted,
  paced,       \* the thread has moved since the last interrupt
  tick_count,
  call,        \* history: [routine, a, b] in progress
  start,       \* history: tick_count as sleep has read it
  result,      \* what the routine returned, of sleep the ticks it took
  served       \* history: [vector, handler, args] of the last C handler

cpu  == <<pc, reg, stack, IF_flag, halted>>
past == <<call, start, result>>
vars == <<cpu, paced, tick_count, past, served>>

Irqs == {TIMER, KEYBOARD}
Faults == {DIVIDE, PROTECTION, PAGE}
CS == 8
Stubs == {"isr", "isr_end", "irq", "irq_end", "syscall", "syscall_end"}
Routines == {"sleep", "pow", "sqrt", "gcd", "lcm", "int", "touch"}
Places == Routines \cup {"idle", "done", "sleep_test", "sleep_hlt", "pow_loop", "sqrt_loop", "lcm_gcd"}
NoCall == [routine |-> "none", a |-> 0, b |-> 0]
NotServed == [vector |-> SYSCALL, handler |-> "none", args |-> <<>>]
Registers == {"eax", "ecx", "edx", "ebx", "ebp", "esi", "edi"}
Zeroed == [r \in Registers |-> 0]
-----------------------------------------------------------------------------
(***************************************************************************)
(* Entering and leaving.  The processor pushes EFLAGS, CS and EIP, for two *)
(* of the exceptions an error code; the entry of the stub pushes a dummy   *)
(* error code for the others, then the vector.                             *)
(***************************************************************************)
\* The gates that idt_init and syscall_init set, with the stub they lead to.
Gate == [v \in Faults \cup Irqs \cup {SYSCALL} |->
  CASE v \in Faults -> "isr" [] v \in Irqs -> "irq" [] OTHER -> "syscall"]

\* Mutant: EFLAGS is saved after cli.
FlagsCleared == 0
FlagsPushed == IF IF_flag THEN 1 ELSE 0

ErrorCode(v) == 0
\* The dwords below pusha: error code and vector, or nothing for a system call.
Entry(v) == IF v = SYSCALL THEN <<>> ELSE <<v, ErrorCode(v)>>

Enter(v, eip) ==
  /\ stack' = Entry(v) \o <<eip, CS, FlagsPushed>> \o stack
  /\ pc' = Gate[v]
  /\ IF_flag' = FALSE
  /\ UNCHANGED reg

\* pusha; popa skips the stack pointer, the fourth.
Pusha(s) == <<reg.edi, reg.esi, reg.ebp, 0, reg.ebx, reg.edx, reg.ecx, reg.eax>> \o s
\* Mutant: popa with ECX and EDX exchanged.
PopaSwapped(s) ==
  reg' = [edi |-> s[1], esi |-> s[2], ebp |-> s[3], ebx |-> s[5], edx |-> s[7], ecx |-> s[6], eax |-> s[8]]
Popa(s) ==
  reg' = [edi |-> s[1], esi |-> s[2], ebp |-> s[3], ebx |-> s[5], edx |-> s[6], ecx |-> s[7], eax |-> s[8]]

\* mov ax, selector.
WithAx(x, selector) == (x \div HALF) * HALF + selector

\* The caller-saved registers after a C function: anything.
Clobbered(r) ==
  \E x \in {0, WORD - 1} : reg' = [r EXCEPT !.eax = x, !.ecx = x, !.edx = x]

\* Mutant: [esp + 40], the error code.
NumberAboveVector(s) == s[11]
\* [esp + 36]: above the segment and the eight registers.
NumberOnStack(s) == s[10]

\* The C handler that a stub calls for a number.
Handler(stub, number) ==
  CASE stub = "isr" /\ number = DIVIDE -> "divide_error_handler"
    [] stub = "isr" /\ number = PROTECTION -> "general_protection_fault_handler"
    [] stub = "isr" /\ number = PAGE -> "page_fault_handler"
    [] stub = "isr" /\ number \notin Faults -> "fault_handler"
    [] stub = "irq" /\ number = TIMER -> "timer_handler"
    [] stub = "irq" /\ number = KEYBOARD -> "keyboard_interrupt_handler"
    [] OTHER -> "none"

\* pusha, the segment, the call.
Saved == <<WithAx(reg.eax, KERNEL_DS)>> \o Pusha(stack)

Serve(v, handler, args) == served' = [vector |-> v, handler |-> handler, args |-> args]

irq_common_stub ==
  LET handler == Handler("irq", NumberOnStack(Saved))
  IN  /\ pc = "irq"
      /\ stack' = Saved
      /\ Clobbered(reg)
      /\ pc' = "irq_end"
      /\ Serve(stack[1], handler, <<>>)
      /\ tick_count' = IF handler = "timer_handler" THEN (tick_count + 1) % WORD ELSE tick_count
      /\ UNCHANGED <<IF_flag, halted, paced, past>>

\* Every exception handler prints and ends with cli; hlt.
isr_common_stub ==
  /\ pc = "isr"
  /\ stack' = Saved
  /\ Clobbered(reg)
  /\ pc' = "isr_end"
  /\ halted' = TRUE
  /\ Serve(stack[1], Handler("isr", NumberOnStack(Saved)), <<>>)
  /\ UNCHANGED <<IF_flag, paced, tick_count, past>>

\* What the C function gets for its parameters eax, ebx, ecx and edx: the
\* registers as they are after AX was used for the segments.
Parameters == <<WithAx(reg.eax, KERNEL_DS), reg.ebx, reg.ecx, reg.edx>>

SYS_EXIT == 1
SYS_FORK == 2
SYS_READ == 3
SYS_WRITE == 4
\* The branch of the switch; only SYS_WRITE to descriptor 1 writes.
syscall_handler(args) ==
  CASE args[1] = SYS_EXIT -> "exit" [] args[1] = SYS_FORK -> "fork" [] args[1] = SYS_READ -> "read"
    [] args[1] = SYS_WRITE -> IF args[2] = 1 THEN "write" ELSE "nothing"
    [] OTHER -> "unknown"

\* pusha, four segments, the call; the parameters are gone again after it.
syscall_handler_asm ==
  /\ pc = "syscall"
  /\ stack' = <<KERNEL_DS, KERNEL_DS, KERNEL_DS, KERNEL_DS>> \o Pusha(stack)
  /\ Clobbered(reg)
  /\ pc' = "syscall_end"
  /\ Serve(SYSCALL, syscall_handler(Parameters), Parameters)
  /\ UNCHANGED <<IF_flag, halted, paced, tick_count, past>>

\* pop the segments, popa, drop the error code and the vector, sti, iret.
Leave(segments, dropped) ==
  LET s == SubSeq(stack, segments + 1, Len(stack))
      frame == SubSeq(s, 9 + dropped, Len(s))
  IN  /\ Popa(s)
      /\ pc' = frame[1]
      /\ IF_flag' = (frame[3] = 1)
      /\ stack' = SubSeq(frame, 4, Len(frame))

Return ==
  /\ ~halted
  /\ \/ pc = "irq_end" /\ Leave(1, 2)
     \/ pc = "syscall_end" /\ Leave(4, 0)
  /\ served' = NotServed
  /\ UNCHANGED <<halted, paced, tick_count, past>>
-----------------------------------------------------------------------------
(***************************************************************************)
(* The devices.  A tick comes every 10 ms and a key no sooner: the thread  *)
(* moves between two interrupts, unless it has halted.                     *)
(***************************************************************************)
Interrupt(v) ==
  /\ IF_flag /\ (paced \/ halted)
  /\ paced' = FALSE
  /\ halted' = FALSE
  /\ Enter(v, pc)
  /\ UNCHANGED <<tick_count, past, served>>
-----------------------------------------------------------------------------
(***************************************************************************)
(* The thread.                                                             *)
(***************************************************************************)
At(place) == pc = place /\ ~halted /\ paced' = TRUE

Goto(place, registers) ==
  /\ pc' = place /\ reg' = registers
  /\ UNCHANGED <<stack, IF_flag, halted, tick_count, past, served>>

Ret(value) ==
  /\ pc' = "done" /\ result' = value /\ reg' = [reg EXCEPT !.eax = value]
  /\ UNCHANGED <<stack, IF_flag, halted, tick_count, call, start, served>>

\* The processor raises v at the instruction that eip names.
Raise(v, eip) == Enter(v, eip) /\ UNCHANGED <<halted, tick_count, past, served>>

Begin(routine, a, b) ==
  /\ At("idle")
  /\ call' = [routine |-> routine, a |-> a, b |-> b]
  /\ reg' = [Zeroed EXCEPT !.eax = a, !.ebx = b]
  /\ pc' = routine
  /\ UNCHANGED <<stack, IF_flag, halted, tick_count, start, result, served>>

Caller ==
  \/ \E a \in Args, b \in Args, routine \in {"pow", "gcd", "lcm"} : Begin(routine, a, b)
  \/ \E a \in Args : Begin("sqrt", a, 0)
  \/ \E ms \in Sleeps : Begin("sleep", ms, 0)
  \/ \E number \in Numbers : Begin("int", number, 1)
  \/ \E v \in {PROTECTION, PAGE} : Begin("touch", v, 0)

\* The caller has taken the result.
Finish ==
  /\ At("done")
  /\ pc' = "idle" /\ call' = NoCall /\ reg' = Zeroed /\ start' = 0 /\ result' = 0
  /\ UNCHANGED <<stack, IF_flag, halted, tick_count, served>>

\* INT 0x80, and an access that is refused.
Syscall == At("int") /\ Raise(SYSCALL, "done")
Touch == At("touch") /\ Raise(reg.eax, "touch")

\* Mutant: the sum is not cut to 32 bits.
TargetUnwrapped(now, ms) == now + ms \div 10
\* Mutant: the tick in progress is counted.
TargetEarly(now, ms) == (now + ms \div 10 - 1) % WORD
TargetTicks(now, ms) == (now + ms \div 10) % WORD

\* Mutant: sleep waits for the target itself.
SleepingUntil(target) == tick_count # target
Sleeping(target) == tick_count < target

\* sleep: the target in EAX; the test and the hlt are two instructions.
Sleep ==
  \/ /\ At("sleep")
     /\ pc' = "sleep_test" /\ reg' = [reg EXCEPT !.eax = TargetTicks(tick_count, reg.eax)]
     /\ start' = tick_count
     /\ UNCHANGED <<stack, IF_flag, halted, tick_count, call, result, served>>
  \/ /\ At("sleep_test")
     /\ IF Sleeping(reg.eax) THEN Goto("sleep_hlt", reg) ELSE Ret((tick_count - start) % WORD)
  \/ /\ At("sleep_hlt")
     /\ halted' = TRUE /\ pc' = "sleep_test"
     /\ UNCHANGED <<reg, stack, IF_flag, tick_count, past, served>>

\* pow's loop body: result in EAX, base in EBX, exp in ECX.
PowStep(r) ==
  [r EXCEPT !.eax = IF r.ecx % 2 = 1 THEN (@ * r.ebx) % WORD ELSE @,
            !.ebx = (@ * @) % WORD, !.ecx = @ \div 2]
Pow ==
  \/ At("pow") /\ Goto("pow_loop", [reg EXCEPT !.eax = 1, !.ebx = reg.eax, !.ecx = reg.ebx])
  \/ At("pow_loop") /\ IF reg.ecx > 0 THEN Goto("pow_loop", PowStep(reg)) ELSE Ret(reg.eax)

\* sqrt: x in EBX, result in EAX, prev in ECX.
Sqrt ==
  \/ /\ At("sqrt")
     /\ IF reg.eax = 0 THEN Ret(0) ELSE Goto("sqrt_loop", [reg EXCEPT !.ebx = reg.eax])
  \/ /\ At("sqrt_loop")
     /\ \/ reg.eax = 0 /\ Raise(DIVIDE, "sqrt_loop")
        \/ /\ reg.eax # 0
           /\ LET next == ((reg.eax + reg.ebx \div reg.eax) % WORD) \div 2
              IN  IF next < reg.eax
                  THEN Goto("sqrt_loop", [reg EXCEPT !.ecx = reg.eax, !.eax = next])
                  ELSE Ret(reg.eax)

\* gcd's loop body: a in EAX, b in EBX.
GcdStep(r) == [r EXCEPT !.eax = r.ebx, !.ebx = r.eax % r.ebx]
Gcd ==
  /\ At("gcd")
  /\ IF reg.ebx # 0 THEN Goto("gcd", GcdStep(reg)) ELSE Ret(reg.eax)

\* lcm: the product in EDI while gcd runs.
Lcm ==
  \/ At("lcm") /\ Goto("lcm_gcd", [reg EXCEPT !.edi = (reg.eax * reg.ebx) % WORD])
  \/ /\ At("lcm_gcd")
     /\ \/ reg.ebx # 0 /\ Goto("lcm_gcd", GcdStep(reg))
        \/ reg.ebx = 0 /\ reg.eax # 0 /\ Ret(reg.edi \div reg.eax)
        \/ reg.ebx = 0 /\ reg.eax = 0 /\ Raise(DIVIDE, "lcm_gcd")

Running == Finish \/ Syscall \/ Touch \/ Sleep \/ Pow \/ Sqrt \/ Gcd \/ Lcm
Kernel == irq_common_stub \/ isr_common_stub \/ syscall_handler_asm \/ Return
-----------------------------------------------------------------------------
\* After kernel_main's sti; the counter has run for any time.
Init ==
  /\ pc = "idle" /\ reg = Zeroed /\ stack = <<>> /\ IF_flag = TRUE /\ halted = FALSE
  /\ paced = TRUE /\ tick_count \in 0..WORD-1
  /\ call = NoCall /\ start = 0 /\ result = 0 /\ served = NotServed

Next ==
  \/ \E v \in Irqs : Interrupt(v)
  \/ Kernel \/ Caller \/ Running

(***************************************************************************)
(* The timer runs and the processor executes what is next.  Nobody has to  *)
(* call anything or to press a key.                                        *)
(***************************************************************************)
Fairness ==
  /\ SF_vars(Interrupt(TIMER)) /\ WF_vars(Kernel) /\ WF_vars(Running)

Spec == Init /\ [][Next]_vars /\ Fairness
-----------------------------------------------------------------------------
TypeOK ==
  /\ pc \in Places \cup Stubs /\ reg \in [Registers -> 0..WORD-1]
  /\ IF_flag \in BOOLEAN /\ halted \in BOOLEAN /\ paced \in BOOLEAN
  /\ tick_count \in 0..WORD-1 /\ start \in 0..WORD-1 /\ result \in 0..WORD-1
  /\ call.routine \in Routines \cup {"none"}

(***************************************************************************)
(* Whatever interrupts it, and whenever, a routine that returns returns    *)
(* what its definition says of the arguments it was called with: nothing   *)
(* the stubs or the C handlers do to the registers reaches the thread.     *)
(* lcm is right only where the product of its arguments is a uint32_t.  A  *)
(* system call leaves all registers of the caller as they were.            *)
(***************************************************************************)
Power(a) == LET power[n \in Nat] == IF n = 0 THEN 1 ELSE (power[n-1] * a) % WORD IN power
Divides(d, n) == d # 0 /\ n % d = 0
ResultRight ==
  LET a == call.a
      b == call.b
      returned(routine) == pc = "done" /\ call.routine = routine
  IN  /\ returned("pow") => result = Power(a)[b]
      /\ returned("sqrt") => result * result =< a /\ a < (result + 1) * (result + 1)
      /\ returned("gcd") =>
           IF a = 0 \/ b = 0 THEN result = a + b
           ELSE result = Max({d \in 1..a : Divides(d, a) /\ Divides(d, b)})
      /\ returned("lcm") /\ a * b < WORD =>
           IF a * b = 0 THEN result = 0
           ELSE result = Min({m \in 1..a*b : Divides(a, m) /\ Divides(b, m)})
      /\ returned("int") => reg = [Zeroed EXCEPT !.eax = a, !.ebx = b]

(***************************************************************************)
(* The handler that is called is the one of the vector that the processor  *)
(* entered by, although its number is found by counting the dwords between *)
(* it and the top of the stack.                                            *)
(***************************************************************************)
RightHandler ==
  CASE served.vector = TIMER -> served.handler = "timer_handler"
    [] served.vector = KEYBOARD -> served.handler = "keyboard_interrupt_handler"
    [] served.vector = DIVIDE -> served.handler = "divide_error_handler"
    [] served.vector = PROTECTION -> served.handler = "general_protection_fault_handler"
    [] served.vector = PAGE -> served.handler = "page_fault_handler"
    [] OTHER -> TRUE

(***************************************************************************)
(* sleep never ends early and, although a tick may fall between its test   *)
(* and its hlt, never more than one tick late.  Two starting points are    *)
(* left out: those from which the sum wraps, where sleep returns at once,  *)
(* and the one with the greatest number as target, which is over so soon   *)
(* that a hlt misses it and the sleep goes on for 2^32 ticks.              *)
(***************************************************************************)
Asleep == call.routine = "sleep"
Ticks == call.a \div 10
SleepExact ==
  Asleep /\ pc = "done" /\ start + Ticks < WORD - 1 => result \in Ticks .. Ticks + 1

(***************************************************************************)
(* The processor stops for good only in an exception handler, and a divide *)
(* error has one of two causes.                                            *)
(***************************************************************************)
OnlyFaultsStop ==
  /\ halted /\ ~IF_flag => pc = "isr_end" /\ served.vector \in Faults
  /\ served.vector = DIVIDE =>
       \/ call.routine = "sqrt" /\ call.a = WORD - 1
       \/ call.routine = "lcm" /\ call.a = 0 /\ call.b = 0

(***************************************************************************)
(* Every call returns or faults, but for the sleep that SleepExact leaves  *)
(* out.                                                                    *)
(***************************************************************************)
CallsReturn ==
  call # NoCall ~> \/ call = NoCall \/ pc = "isr_end"
                   \/ Asleep /\ start + Ticks = WORD - 1

(***************************************************************************)
(* syscall_handler gets the number of the call that the caller put into    *)
(* EAX ("1st parameter (syscall number)", syscall.c).                      *)
(***************************************************************************)
NumberPassed == served.handler # "none" /\ served.vector = SYSCALL => served.args[1] = call.a
=============================================================================
