-------------------------- MODULE InputPathProofs ---------------------------
(***************************************************************************)
(* Proofs about module InputPath: for every keyboard, every length of the  *)
(* line and every number of presses, no end of interrupt is stolen, a line *)
(* fits into its buffer, no modifier stays down, and below the interrupts  *)
(* and the boot sequence the ring is still a FIFO.                         *)
(***************************************************************************)
EXTENDS InputPath, KeyboardProofs, FiniteSetTheorems
-----------------------------------------------------------------------------
(***************************************************************************)
(* Interrupt frames.  The flag is clear in a handler, so there is at most  *)
(* one frame, and its interrupt is in service until the EOI of its C       *)
(* handler.                                                                *)
(***************************************************************************)
Chars == (0..127) \X BOOLEAN
IrqLines == {TIMER, KEYBOARD}
Stages == {"handler", "stub", "iret"}
Frame(irq, at) == [irq |-> irq, at |-> at]

FrameInv ==
  \/ stack = <<>> /\ isr = {}
  \/ /\ ~IF_flag
     /\ \E irq \in IrqLines, at \in Stages :
          stack = <<Frame(irq, at)>> /\ isr = IF at = "handler" THEN {irq} ELSE {}

LEMMA FrameInit == PathInit => FrameInv
  BY DEF PathInit, FrameInv

\* An EOI retires the one request that is in service.
LEMMA EoiRetires ==
  /\ Eoi({}) = {}
  /\ \A irq \in IrqLines : Eoi({irq}) = {}
  BY DEF Eoi, IrqLines, TIMER, KEYBOARD

\* The frame of a handler, a stub or an iret, and what is in service.
LEMMA OneFrame ==
  ASSUME FrameInv, stack # <<>>
  PROVE  \E irq \in IrqLines, at \in Stages :
           /\ stack = <<Frame(irq, at)>> /\ stack[1].at = at /\ ~IF_flag
           /\ isr = IF at = "handler" THEN {irq} ELSE {}
           /\ Eoi(isr) = {} /\ Tail(stack) = <<>>
           /\ \A a \in Stages : [stack EXCEPT ![1].at = a] = <<Frame(irq, a)>>
  <1>1. PICK irq \in IrqLines, at \in Stages :
          stack = <<Frame(irq, at)>> /\ ~IF_flag /\ isr = IF at = "handler" THEN {irq} ELSE {}
    BY DEF FrameInv
  <1>2. stack[1].at = at /\ Tail(stack) = <<>>
    BY <1>1 DEF Frame
  <1>3. \A a \in Stages : [stack EXCEPT ![1].at = a] = <<Frame(irq, a)>>
    BY <1>1 DEF Frame
  <1>4. Eoi(isr) = {}
    BY <1>1, EoiRetires
  <1> QED  BY <1>1, <1>2, <1>3, <1>4

LEMMA FrameStep == FrameInv /\ [PathNext]_vars => FrameInv'
  <1> SUFFICES ASSUME FrameInv, [PathNext]_vars PROVE FrameInv'
    OBVIOUS
  <1>1. ASSUME UNCHANGED <<stack, isr, IF_flag>> PROVE FrameInv'
    BY <1>1 DEF FrameInv
  <1>2. ASSUME NEW irq \in IrqLines, Interrupt(irq) PROVE FrameInv'
    <2>1. stack = <<>> /\ isr = {}
      BY <1>2 DEF Interrupt, FrameInv
    <2>2. /\ stack' = <<Frame(irq, "handler")>> /\ isr' = {irq} /\ ~IF_flag'
      BY <1>2, <2>1 DEF Interrupt, FlagInHandler, Frame
    <2> QED  BY <2>2 DEF FrameInv, Stages
  <1>3. ASSUME stack # <<>>, isr' = Eoi(isr), IF_flag' = IF_flag, NEW a \in {"stub", "iret"},
               stack' = [stack EXCEPT ![1].at = a]
        PROVE  FrameInv'
    <2>1. PICK irq \in IrqLines : stack' = <<Frame(irq, a)>> /\ isr' = {} /\ ~IF_flag'
      BY <1>3, OneFrame DEF Stages
    <2> QED  BY <2>1 DEF FrameInv, Stages
  <1>4. ASSUME timer_handler PROVE FrameInv'
    BY <1>4, <1>3 DEF timer_handler, InHandler
  <1>5. ASSUME keyboard_interrupt_handler PROVE FrameInv'
    BY <1>5, <1>3 DEF keyboard_interrupt_handler, InHandler
  <1>6. ASSUME StubEoi PROVE FrameInv'
    BY <1>6, <1>3 DEF StubEoi
  <1>7. ASSUME Iret PROVE FrameInv'
    <2>1. stack' = <<>> /\ isr = {} /\ isr' = isr
      BY <1>7, OneFrame DEF Iret, pic
    <2> QED  BY <2>1 DEF FrameInv
  <1>8. ASSUME Sti PROVE FrameInv'
    BY <1>8 DEF Sti, At, FrameInv, pic
  <1>9. ASSUME NEW key \in Keys, Press(key) \/ Release(key) PROVE FrameInv'
    BY <1>9, <1>1 DEF Press, Release, cpu
  <1>10. ASSUME TimerTick \/ EnableIrqs \/ InitDrivers \/ GetChar \/ Hlt \/ LineFull \/ Edit
         PROVE  FrameInv'
    BY <1>10, <1>1 DEF TimerTick, EnableIrqs, InitDrivers, GetChar, Hlt, LineFull, Edit, cpu, pic
  <1>11. ASSUME UNCHANGED vars PROVE FrameInv'
    BY <1>11, <1>1 DEF vars, cpu, pic
  <1> QED
    BY <1>2, <1>4, <1>5, <1>6, <1>7, <1>8, <1>9, <1>10, <1>11
    DEF PathNext, User, Handler, Main, IrqLines

(***************************************************************************)
(* The EOI of irq_common_stub never retires the request of another         *)
(* interrupt, whatever the priorities and the order of the requests.       *)
(***************************************************************************)
THEOREM NoEoiStolen == PathSpec => []NoStolenEoi
  <1>1. FrameInv => NoStolenEoi
    BY OneFrame DEF NoStolenEoi
  <1> QED  BY <1>1, FrameInit, FrameStep, PTL DEF PathSpec
-----------------------------------------------------------------------------
(***************************************************************************)
(* The types of the path's variables, and that a line fits.  Until the     *)
(* interrupts are enabled nothing has touched the keyboard's state, which  *)
(* is why keyboard_init, called after the handler was installed, discards  *)
(* no key.  A character is edited only when the loop of terminal_get_line  *)
(* found room for it.                                                      *)
(***************************************************************************)
BootInv ==
  main \in {"boot", "drivers", "sti"} =>
    Init /\ ~IF_flag /\ stack = <<>> /\ line = <<>> /\ lines = <<>>

LineInv == LineFits /\ (main = "edit" => Room)

DeviceOK ==
  /\ held \subseteq Keys /\ typed \in Seq(RegularKey) /\ presses \in 0..MaxPresses
  /\ output \in Seq(0..255)

PicOK == irr \subseteq IrqLines /\ isr \subseteq IrqLines /\ imr \subseteq IrqLines

CpuOK ==
  /\ IF_flag \in BOOLEAN /\ halted \in BOOLEAN
  /\ stack \in Seq([irq : IrqLines, at : Stages])

LineOK == line \in Seq(Chars) /\ lines \in Seq(Seq(Chars))

Places == {"boot", "drivers", "sti", "getline", "hlt", "edit", "idle"}

PathInv ==
  /\ TypeInv /\ DeviceOK /\ PicOK /\ CpuOK /\ LineOK /\ main \in Places
  /\ FrameInv /\ BootInv /\ LineInv

LEMMA PathInvType == PathInv => PathVarsOK
  BY DEF PathInv, PathVarsOK, TypeInv, DeviceOK, PicOK, CpuOK, LineOK, Places, Chars,
         IrqLines, Stages

LEMMA PathInvInit == PathInit => PathInv
  <1> SUFFICES ASSUME PathInit PROVE PathInv  OBVIOUS
  <1>1. TypeInv  BY TypeInit DEF PathInit
  <1>2. FrameInv  BY FrameInit
  <1>3. DeviceOK
    BY MaxPressesAssumption DEF PathInit, DeviceOK
  <1>4. PicOK /\ CpuOK /\ LineOK /\ main \in Places
    <2>1. PicOK /\ main \in Places
      BY DEF PathInit, PicOK, Places, IrqLines
    <2>2. CpuOK
      BY EmptySeq DEF PathInit, CpuOK
    <2>3. LineOK
      BY EmptySeq DEF PathInit, LineOK
    <2> QED  BY <2>1, <2>2, <2>3
  <1>5. BootInv /\ LineInv
    BY MaxLengthAssumption DEF PathInit, BootInv, LineInv, LineFits
  <1> QED  BY <1>1, <1>2, <1>3, <1>4, <1>5 DEF PathInv

\* The keyboard's state is changed by its handler and by its reader.
LEMMA PathKeyboard ==
  ASSUME PathInv, [PathNext]_vars
  PROVE  \/ UNCHANGED kvars
         \/ /\ keyboard_interrupt_handler
            /\ \E byte \in 0..255 : byte = Head(output) /\ keyboard_handler(byte)
            /\ UNCHANGED reader
         \/ GetChar /\ keyboard_get_char
  <1>1. ASSUME keyboard_interrupt_handler
        PROVE  /\ \E byte \in 0..255 : byte = Head(output) /\ keyboard_handler(byte)
               /\ UNCHANGED reader
    <2>1. Head(output) \in 0..255
      <3>1. output \in Seq(0..255) /\ output # <<>>
        BY <1>1 DEF keyboard_interrupt_handler, PathInv, DeviceOK
      <3> QED  BY <3>1, HeadTailProperties
    <2>2. keyboard_handler(Head(output)) /\ UNCHANGED reader
      BY <1>1 DEF keyboard_interrupt_handler
    <2> QED  BY <2>1, <2>2
  <1>2. ASSUME InitDrivers PROVE UNCHANGED kvars
    <2>1. Init  BY <1>2 DEF PathInv, BootInv, InitDrivers, At
    <2>2. UNCHANGED <<flags, led_state, extended_scancode, buffer, buffer_head, buffer_tail,
                      buffer_count>>
      BY <1>2, <2>1 DEF Init, keyboard_init, InitDrivers
    <2>3. UNCHANGED <<pc, reg, scancode, char, accepted, dropped, delivered>>
      BY <1>2 DEF InitDrivers
    <2> QED  BY <2>2, <2>3 DEF kvars, ring, locks, reader
  <1>3. ASSUME GetChar PROVE keyboard_get_char
    BY <1>3 DEF GetChar
  <1>4. ASSUME NEW key \in Keys, Press(key) \/ Release(key) PROVE UNCHANGED kvars
    BY <1>4 DEF Press, Release
  <1>5. ASSUME NEW irq \in {TIMER, KEYBOARD}, Interrupt(irq) PROVE UNCHANGED kvars
    BY <1>5 DEF Interrupt
  <1>6. ASSUME \/ TimerTick \/ timer_handler \/ StubEoi \/ Iret \/ EnableIrqs \/ Sti
               \/ Hlt \/ LineFull \/ Edit \/ UNCHANGED vars
        PROVE  UNCHANGED kvars
    BY <1>6 DEF TimerTick, timer_handler, StubEoi, Iret, EnableIrqs, Sti, Hlt, LineFull, Edit, vars
  <1> QED
    BY <1>1, <1>2, <1>3, <1>4, <1>5, <1>6 DEF PathNext, User, Handler, Main

LEMMA PathTypeInv == ASSUME PathInv, [PathNext]_vars PROVE TypeInv'
  <1>1. TypeInv  BY DEF PathInv
  <1>2. CASE UNCHANGED kvars
    BY <1>1, <1>2, TypeStep
  <1>3. ASSUME NEW byte \in 0..255, keyboard_handler(byte), UNCHANGED reader PROVE TypeInv'
    BY <1>1, <1>3, HandlerType
  <1>4. CASE keyboard_get_char
    BY <1>1, <1>4, ReaderType
  <1> QED  BY <1>2, <1>3, <1>4, PathKeyboard

\* What the controller holds after a key or an acknowledgement are bytes.
LEMMA SequenceType ==
  ASSUME NEW key \in Keys, NEW mark \in {0, 128}
  PROVE  Sequence(key, mark) \in Seq(0..255)
  <1>1. key.code \in 0..127 /\ key.code + mark \in 0..255 /\ EXTENDED \in 0..255
    BY KeysAssumption DEF EXTENDED
  <1>2. <<>> \in Seq(0..255) /\ <<EXTENDED>> \in Seq(0..255) /\ <<key.code + mark>> \in Seq(0..255)
    BY <1>1
  <1> QED  BY <1>2, ConcatProperties DEF Sequence

LEMMA PathDevice == ASSUME PathInv, [PathNext]_vars PROVE DeviceOK'
  <1>d. DeviceOK  BY DEF PathInv
  <1>1. ASSUME NEW key \in Keys, Press(key) PROVE DeviceOK'
    <2>1. output' \in Seq(0..255)
      BY <1>d, <1>1, SequenceType, ConcatProperties DEF Press, Offer, DeviceOK
    <2>2. presses' \in 0..MaxPresses /\ held' \subseteq Keys
      BY <1>d, <1>1, MaxPressesAssumption DEF Press, DeviceOK
    <2>3. typed' \in Seq(RegularKey)
      BY <1>d, <1>1, AppendProperties DEF Press, DeviceOK
    <2> QED  BY <2>1, <2>2, <2>3 DEF DeviceOK
  <1>2. ASSUME NEW key \in Keys, Release(key) PROVE DeviceOK'
    <2>1. output' \in Seq(0..255)
      BY <1>d, <1>2, SequenceType, ConcatProperties DEF Release, Offer, DeviceOK
    <2> QED  BY <1>d, <1>2, <2>1 DEF Release, DeviceOK
  <1>3. ASSUME keyboard_interrupt_handler PROVE DeviceOK'
    <2>1. PICK acks \in {<<ACK, ACK>>, <<>>} : output' = Tail(output) \o acks
      BY <1>3 DEF keyboard_interrupt_handler
    <2>2. acks \in Seq(0..255)
      <3>1. <<ACK, ACK>> \in Seq(0..255)
        BY DEF ACK
      <3> QED  BY <3>1, EmptySeq
    <2>3. Tail(output) \in Seq(0..255)
      BY <1>d, <1>3, HeadTailProperties DEF keyboard_interrupt_handler, DeviceOK
    <2>4. output' \in Seq(0..255)
      BY <2>1, <2>2, <2>3, ConcatProperties
    <2> QED  BY <1>d, <1>3, <2>4 DEF keyboard_interrupt_handler, DeviceOK
  <1>4. ASSUME UNCHANGED device PROVE DeviceOK'
    BY <1>d, <1>4 DEF device, DeviceOK
  <1>5. ASSUME NEW irq \in {TIMER, KEYBOARD}, Interrupt(irq) PROVE UNCHANGED device
    BY <1>5 DEF Interrupt
  <1>6. ASSUME \/ TimerTick \/ timer_handler \/ StubEoi \/ Iret \/ Main \/ UNCHANGED vars
        PROVE  UNCHANGED device
    BY <1>6 DEF TimerTick, timer_handler, StubEoi, Iret, Main, EnableIrqs, InitDrivers, Sti,
                GetChar, Hlt, LineFull, Edit, vars
  <1> QED  BY <1>1, <1>2, <1>3, <1>4, <1>5, <1>6 DEF PathNext, User, Handler

LEMMA PathPic == ASSUME PathInv, [PathNext]_vars PROVE PicOK'
  <1>p. PicOK  BY DEF PathInv
  <1>1. ASSUME NEW key \in Keys, Press(key) \/ Release(key) PROVE PicOK'
    BY <1>p, <1>1 DEF Press, Release, Offer, PicOK, IrqLines
  <1>2. ASSUME NEW irq \in {TIMER, KEYBOARD}, Interrupt(irq) PROVE PicOK'
    BY <1>p, <1>2 DEF Interrupt, PicOK, IrqLines
  <1>3. ASSUME TimerTick \/ EnableIrqs PROVE PicOK'
    BY <1>p, <1>3 DEF TimerTick, EnableIrqs, PicOK, IrqLines
  <1>4. Eoi(isr) \subseteq IrqLines
    BY <1>p DEF PicOK, Eoi
  <1>5. ASSUME timer_handler \/ StubEoi PROVE PicOK'
    BY <1>p, <1>4, <1>5 DEF timer_handler, StubEoi, PicOK
  <1>6. ASSUME keyboard_interrupt_handler PROVE PicOK'
    <2>1. irr' \subseteq irr \cup {KEYBOARD} /\ isr' = Eoi(isr) /\ imr' = imr
      BY <1>6 DEF keyboard_interrupt_handler
    <2> QED  BY <1>p, <1>4, <2>1 DEF PicOK, IrqLines
  <1>7. ASSUME \/ Iret \/ InitDrivers \/ Sti \/ GetChar \/ Hlt \/ LineFull \/ Edit
               \/ UNCHANGED vars
        PROVE  PicOK'
    BY <1>p, <1>7 DEF Iret, InitDrivers, Sti, GetChar, Hlt, LineFull, Edit, vars, pic, PicOK
  <1> QED
    BY <1>1, <1>2, <1>3, <1>5, <1>6, <1>7 DEF PathNext, User, Handler, Main

LEMMA PathCpu == ASSUME PathInv, [PathNext]_vars PROVE CpuOK'
  <1>c. CpuOK /\ FrameInv'
    BY FrameStep DEF PathInv
  <1>1. stack' \in Seq([irq : IrqLines, at : Stages])
    <2>1. ASSUME NEW irq \in IrqLines, NEW at \in Stages
          PROVE  <<Frame(irq, at)>> \in Seq([irq : IrqLines, at : Stages])
      BY DEF Frame
    <2>2. <<>> \in Seq([irq : IrqLines, at : Stages])
      BY EmptySeq
    <2> QED  BY <1>c, <2>1, <2>2 DEF FrameInv
  <1>2. ASSUME NEW key \in Keys, Press(key) \/ Release(key)
        PROVE  IF_flag' \in BOOLEAN /\ halted' \in BOOLEAN
    BY <1>c, <1>2 DEF Press, Release, cpu, CpuOK
  <1>3. ASSUME NEW irq \in {TIMER, KEYBOARD}, Interrupt(irq)
        PROVE  IF_flag' \in BOOLEAN /\ halted' \in BOOLEAN
    BY <1>3 DEF Interrupt, FlagInHandler
  <1>4. ASSUME TimerTick \/ Handler \/ Main \/ UNCHANGED vars
        PROVE  IF_flag' \in BOOLEAN /\ halted' \in BOOLEAN
    BY <1>c, <1>4 DEF TimerTick, Handler, timer_handler, keyboard_interrupt_handler, StubEoi,
                      Iret, Main, EnableIrqs, InitDrivers, Sti, GetChar, Hlt, LineFull, Edit,
                      vars, cpu, CpuOK
  <1> QED  BY <1>1, <1>2, <1>3, <1>4 DEF PathNext, User, CpuOK

\* The sequence without its last element.
LEMMA FrontIsShorter ==
  ASSUME NEW S, NEW s \in Seq(S), s # <<>>
  PROVE  Front(s) \in Seq(S) /\ Len(Front(s)) = Len(s) - 1
  <1> DEFINE n == Len(s) - 1
  <1>1. Len(s) \in Nat \ {0}
    BY EmptySeq
  <1>2. \A i \in 1..n : s[i] \in S
    BY <1>1
  <1>3. n \in Int /\ 1 \in Int /\ n - 1 + 1 = n /\ (1 <= n \/ n = 0)
    <2>1. ASSUME NEW k \in Nat \ {0}
          PROVE  k - 1 \in Int /\ 1 \in Int /\ k - 1 - 1 + 1 = k - 1 /\ (1 <= k - 1 \/ k - 1 = 0)
      OBVIOUS
    <2> QED  BY ONLY <1>1, <2>1
  <1>4. Front(s) = SubSeq(s, 1, n)
    BY DEF Front
  <1> HIDE DEF n
  <1>5. SubSeq(s, 1, n) \in Seq(S) /\ Len(SubSeq(s, 1, n)) = IF 1 <= n THEN n - 1 + 1 ELSE 0
    BY <1>2, <1>3, SubSeqProperties
  <1>6. Len(SubSeq(s, 1, n)) = n
    BY <1>3, <1>5
  <1> QED  BY <1>4, <1>5, <1>6 DEF n

\* What the main thread does to the line and the lines.
LEMMA PathLineSteps ==
  ASSUME PathInv, [PathNext]_vars
  PROVE  \/ UNCHANGED <<line, lines>> /\ (main' = "edit" => main = "edit")
         \/ UNCHANGED <<line, lines>> /\ main' = "edit" /\ GetChar
         \/ lines' = Append(lines, line) /\ line' = <<>> /\ main' # "edit"
         \/ /\ Edit /\ UNCHANGED lines /\ main' # "edit"
            /\ line' \in {Append(line, char), line} \cup {l \in {Front(line)} : line # <<>>}
  <1>1. ASSUME NEW text, NEW shown, ReturnLine(text, shown)
        PROVE  lines' = Append(lines, text) /\ line' = <<>> /\ main' # "edit"
    BY <1>1 DEF ReturnLine
  <1>2. ASSUME Edit
        PROVE  \/ lines' = Append(lines, line) /\ line' = <<>> /\ main' # "edit"
               \/ /\ UNCHANGED lines /\ main' # "edit"
                  /\ line' \in {Append(line, char), line} \cup {l \in {Front(line)} : line # <<>>}
    BY <1>1, <1>2 DEF Edit
  <1>3. ASSUME LineFull PROVE lines' = Append(lines, line) /\ line' = <<>> /\ main' # "edit"
    BY <1>1, <1>3 DEF LineFull
  <1>4. ASSUME NEW key \in Keys, Press(key) \/ Release(key)
        PROVE  UNCHANGED <<main, line, lines>>
    BY <1>4 DEF Press, Release, login
  <1>5. ASSUME NEW irq \in {TIMER, KEYBOARD}, Interrupt(irq)
        PROVE  UNCHANGED <<main, line, lines>>
    BY <1>5 DEF Interrupt, login
  <1>6. ASSUME TimerTick \/ Handler \/ UNCHANGED vars
        PROVE  UNCHANGED <<main, line, lines>>
    BY <1>6 DEF TimerTick, Handler, timer_handler, keyboard_interrupt_handler, StubEoi, Iret,
                vars, login
  <1>7. ASSUME EnableIrqs \/ InitDrivers \/ Sti \/ Hlt
        PROVE  UNCHANGED <<line, lines>> /\ main' # "edit"
    BY <1>7 DEF EnableIrqs, InitDrivers, Sti, Hlt
  <1>8. ASSUME GetChar PROVE UNCHANGED <<line, lines>>
    BY <1>8 DEF GetChar
  <1> QED
    BY <1>2, <1>3, <1>4, <1>5, <1>6, <1>7, <1>8 DEF PathNext, User, Main

LEMMA PathLine == ASSUME PathInv, [PathNext]_vars PROVE LineOK' /\ LineInv'
  <1>l. /\ line \in Seq(Chars) /\ lines \in Seq(Seq(Chars)) /\ Len(line) \in Nat
        /\ Len(lines) \in Nat
        /\ Len(line) < max_length /\ \A i \in 1..Len(lines) : Len(lines[i]) < max_length
        /\ main = "edit" => Len(line) < max_length - 1
        /\ max_length \in Nat \ {0}
    BY MaxLengthAssumption, LenProperties DEF PathInv, LineOK, LineInv, LineFits, Room
  <1>1. CASE UNCHANGED <<line, lines>> /\ (main' = "edit" => main = "edit")
    BY <1>l, <1>1 DEF LineOK, LineInv, LineFits, Room
  <1>2. CASE UNCHANGED <<line, lines>> /\ main' = "edit" /\ GetChar
    BY <1>l, <1>2 DEF LineOK, LineInv, LineFits, Room, GetChar
  <1>3. CASE lines' = Append(lines, line) /\ line' = <<>> /\ main' # "edit"
    <2>1. /\ lines' \in Seq(Seq(Chars)) /\ Len(lines') = Len(lines) + 1
          /\ \A i \in 1..Len(lines) : lines'[i] = lines[i]
          /\ lines'[Len(lines) + 1] = line
      BY <1>l, <1>3, AppendProperties
    <2>2. line' \in Seq(Chars) /\ Len(line') = 0
      BY <1>3, EmptySeq
    <2>3. \A i \in 1..Len(lines') : i \in 1..Len(lines) \/ i = Len(lines) + 1
      BY <1>l, <2>1
    <2> QED  BY <1>l, <1>3, <2>1, <2>2, <2>3 DEF LineOK, LineInv, LineFits
  <1>4. CASE /\ Edit /\ UNCHANGED lines /\ main' # "edit"
             /\ line' \in {Append(line, char), line} \cup {l \in {Front(line)} : line # <<>>}
    <2>1. main = "edit" /\ char \in Chars
      BY <1>4 DEF Edit, At, PathInv, TypeInv, TypeOK, Chars
    <2>2. line' \in Seq(Chars) /\ Len(line') < max_length
      <3>1. CASE line' = Append(line, char)
        BY <1>l, <2>1, <3>1, AppendProperties
      <3>2. CASE line # <<>> /\ line' = Front(line)
        BY <1>l, <3>2, FrontIsShorter
      <3> QED  BY <1>l, <1>4, <3>1, <3>2
    <2> QED  BY <1>l, <1>4, <2>2 DEF LineOK, LineInv, LineFits
  <1> QED  BY <1>1, <1>2, <1>3, <1>4, PathLineSteps

\* Before sti nothing but the boot sequence, the devices and the timer runs.
LEMMA PathBoot == ASSUME PathInv, [PathNext]_vars PROVE BootInv' /\ main' \in Places
  <1>b. BootInv /\ main \in Places  BY DEF PathInv
  <1> DEFINE Early == {"boot", "drivers", "sti"}
  <1>1. ASSUME main \in Early,
               UNCHANGED <<kvars, IF_flag, stack, line, lines>>
        PROVE  BootInv'
    <2>1. Init /\ ~IF_flag /\ stack = <<>> /\ line = <<>> /\ lines = <<>>
      BY <1>b, <1>1 DEF BootInv
    <2>2. Init'
      BY <1>1, <2>1 DEF kvars, ring, locks, reader, Init, keyboard_init
    <2> QED  BY <1>1, <2>1, <2>2 DEF BootInv
  <1>2. ASSUME NEW key \in Keys, Press(key) \/ Release(key) PROVE BootInv' /\ main' \in Places
    <2>1. main' = main /\ UNCHANGED <<kvars, IF_flag, stack, line, lines>>
      BY <1>2 DEF Press, Release, login, cpu
    <2> QED  BY <1>b, <1>1, <2>1 DEF BootInv
  <1>3. ASSUME TimerTick \/ UNCHANGED vars PROVE BootInv' /\ main' \in Places
    <2>1. main' = main /\ UNCHANGED <<kvars, IF_flag, stack, line, lines>>
      BY <1>3 DEF TimerTick, vars, login, cpu
    <2> QED  BY <1>b, <1>1, <2>1 DEF BootInv
  <1>4. ASSUME EnableIrqs \/ InitDrivers PROVE BootInv' /\ main' \in Places
    <2>1. /\ main \in Early /\ main' \in Places
          /\ UNCHANGED <<IF_flag, stack, line, lines>>
      BY <1>4 DEF EnableIrqs, InitDrivers, At, cpu, Places
    <2>2. UNCHANGED kvars
      <3>1. CASE EnableIrqs
        BY <3>1 DEF EnableIrqs
      <3>2. CASE InitDrivers
        <4>1. ~keyboard_interrupt_handler /\ ~GetChar
          BY <3>2 DEF InitDrivers, keyboard_interrupt_handler, GetChar, At, InHandler
        <4> QED  BY <4>1, PathKeyboard
      <3> QED  BY <1>4, <3>1, <3>2
    <2> QED  BY <1>1, <2>1, <2>2
  <1>5. ASSUME NEW irq \in {TIMER, KEYBOARD}, Interrupt(irq) PROVE BootInv' /\ main' \in Places
    <2>1. main' = main /\ main \notin Early
      BY <1>b, <1>5 DEF Interrupt, login, BootInv
    <2> QED  BY <1>b, <2>1 DEF BootInv
  <1>6. ASSUME Handler PROVE BootInv' /\ main' \in Places
    <2>1. stack # <<>> /\ main' = main
      BY <1>6 DEF Handler, timer_handler, keyboard_interrupt_handler, StubEoi, Iret, InHandler,
                  login
    <2>2. main \notin Early
      BY <1>b, <2>1 DEF BootInv
    <2> QED  BY <1>b, <2>1, <2>2 DEF BootInv
  <1>7. ASSUME Sti \/ GetChar \/ Hlt \/ LineFull \/ Edit PROVE BootInv' /\ main' \in Places
    <2>1. main' \in Places \ Early
      BY <1>7 DEF Sti, GetChar, Hlt, LineFull, Edit, ReturnLine, Places
    <2> QED  BY <2>1 DEF BootInv
  <1> QED
    BY <1>2, <1>3, <1>4, <1>5, <1>6, <1>7 DEF PathNext, User, Main

LEMMA PathInvStep == PathInv /\ [PathNext]_vars => PathInv'
  BY PathTypeInv, PathDevice, PathPic, PathCpu, PathLine, PathBoot, FrameStep DEF PathInv

LEMMA PathInvariant == PathSpec => []PathInv
  BY PathInvInit, PathInvStep, PTL DEF PathSpec

(***************************************************************************)
(* Every variable of the path but the screen keeps its type: the ring and  *)
(* its indices, the bytes on their way, the state of the PIC and of the    *)
(* CPU, the interrupt frames and the lines read.                           *)
(***************************************************************************)
THEOREM PathTypesHold == PathSpec => []PathVarsOK
  BY PathInvariant, PathInvType, PTL

(***************************************************************************)
(* terminal_get_line leaves room for the NUL in every buffer, for every    *)
(* keyboard, every length of the buffer and every sequence of keys.        *)
(***************************************************************************)
THEOREM LinesFit == PathSpec => []LineFits
  <1>1. PathInv => LineFits
    BY DEF PathInv, LineInv
  <1> QED  BY <1>1, PathInvariant, PTL
-----------------------------------------------------------------------------
(***************************************************************************)
(* Modifiers.  A modifier the driver believes down is down, or a byte on   *)
(* its way will release it; and a press of a modifier that is on its way   *)
(* belongs to a key that is down, or a later byte releases it.  Two keys   *)
(* may stand for one modifier: a release of one of them then clears a flag *)
(* whose other key is down, which is why the first part is an implication. *)
(***************************************************************************)
Releases(byte, m) == byte >= 128 /\ byte # EXTENDED /\ m \in Modifier(KeyOf(byte))
Presses(byte, m) == byte < 128 /\ m \in Modifier(byte)
HeldDown(m) == \E key \in held : m \in Modifier(key.code)

\* From place n of the output on, some byte releases m.
ReleasedFrom(n, m) == \E i \in n..Len(output) : Releases(output[i], m)

ModInv ==
  \A m \in Modifiers :
    /\ m \in flags => HeldDown(m) \/ ReleasedFrom(1, m)
    /\ \A i \in 1..Len(output) :
         Presses(output[i], m) => HeldDown(m) \/ ReleasedFrom(i + 1, m)

LEMMA ModInit == PathInit => ModInv
  BY DEF PathInit, Init, keyboard_init, ModInv

\* Which bytes press a modifier, and what becomes of its flag.
LEMMA FlagOfByte ==
  ASSUME NEW byte \in 0..255, keyboard_handler(byte), NEW m \in Modifiers, m \in flags'
  PROVE  Presses(byte, m) \/ (m \in flags /\ ~Releases(byte, m))
  <1>1. CASE byte = EXTENDED
    BY <1>1 DEF keyboard_handler, Releases
  <1>2. CASE byte # EXTENDED
    <2>1. flags' = FlagsAfter(KeyOf(byte), IsRelease(byte))
      BY <1>2 DEF keyboard_handler
    <2>2. m \notin Lock(KeyOf(byte))
      BY DEF Lock, Modifiers
    <2>3. CASE byte >= 128
      BY <1>2, <2>1, <2>3 DEF FlagsAfter, IsRelease, Releases
    <2>4. CASE byte < 128
      <3>1. KeyOf(byte) = byte /\ ~IsRelease(byte)
        BY <2>4 DEF KeyOf, IsRelease
      <3>2. ~Releases(byte, m)
        BY <2>4 DEF Releases
      <3> QED  BY <2>1, <2>2, <2>4, <3>1, <3>2 DEF FlagsAfter, Presses
    <2> QED  BY <2>3, <2>4
  <1> QED  BY <1>1, <1>2

\* The code of a key comes last, after a prefix or alone.
LEMMA SequenceElements ==
  ASSUME NEW key \in Keys, NEW mark \in {0, 128}
  PROVE  /\ Len(Sequence(key, mark)) \in Nat \ {0}
         /\ \A i \in 1..Len(Sequence(key, mark)) :
              i < Len(Sequence(key, mark)) => Sequence(key, mark)[i] = EXTENDED
         /\ Sequence(key, mark)[Len(Sequence(key, mark))] = key.code + mark
  <1>1. key.code \in 0..127
    BY KeysAssumption
  <1> DEFINE e == IF key.extended THEN <<EXTENDED>> ELSE <<>>
             c == <<key.code + mark>>
  <1>2. /\ e \in Seq(0..255) /\ c \in Seq(0..255) /\ Len(c) = 1 /\ c[1] = key.code + mark
        /\ Len(e) \in {0, 1} /\ (Len(e) = 1 => e[1] = EXTENDED)
    <2>1. c \in Seq(0..255) /\ Len(c) = 1 /\ c[1] = key.code + mark
      BY <1>1
    <2>2. <<EXTENDED>> \in Seq(0..255) /\ Len(<<EXTENDED>>) = 1 /\ <<EXTENDED>>[1] = EXTENDED
      BY DEF EXTENDED
    <2>3. <<>> \in Seq(0..255) /\ Len(<<>>) = 0
      BY EmptySeq
    <2>4. e = <<EXTENDED>> \/ e = <<>>
      OBVIOUS
    <2> HIDE DEF e, c
    <2>5. CASE e = <<EXTENDED>>
      BY ONLY <2>1, <2>2, <2>5
    <2>6. CASE e = <<>>
      BY ONLY <2>1, <2>3, <2>6
    <2> QED  BY ONLY <2>4, <2>5, <2>6
  <1>3. Sequence(key, mark) = e \o c
    BY DEF Sequence
  <1> HIDE DEF e, c
  <1>4. /\ Len(e \o c) = Len(e) + 1
        /\ \A i \in 1..Len(e) + 1 : (e \o c)[i] = IF i <= Len(e) THEN e[i] ELSE c[i - Len(e)]
    BY <1>2, ConcatProperties
  <1> QED  BY <1>2, <1>3, <1>4

\* The bytes of a key: its prefix is not a modifier, its code is the key's.
LEMMA BytesOfKey ==
  ASSUME NEW key \in Keys, NEW m \in Modifiers
  PROVE  /\ \A i \in 1..Len(Sequence(key, 0)) :
              Presses(Sequence(key, 0)[i], m) => m \in Modifier(key.code)
         /\ \A i \in 1..Len(Sequence(key, 128)) : ~Presses(Sequence(key, 128)[i], m)
         /\ m \in Modifier(key.code) =>
              \E i \in 1..Len(Sequence(key, 128)) : Releases(Sequence(key, 128)[i], m)
  <1>1. key.code \in 0..127
    BY KeysAssumption
  <1>2. ~Presses(EXTENDED, m)
    BY DEF Presses, EXTENDED
  <1>3. KeyOf(key.code + 128) = key.code
    BY <1>1 DEF KeyOf
  <1>4. m \in Modifier(key.code) => key.code + 128 # EXTENDED
    BY <1>1 DEF Modifier, EXTENDED
  <1>5. m \in Modifier(key.code) => Releases(key.code + 128, m)
    BY <1>1, <1>3, <1>4 DEF Releases
  <1>6. ~Presses(key.code + 128, m)
    BY <1>1 DEF Presses
  <1>8. Presses(key.code + 0, m) => m \in Modifier(key.code)
    BY <1>1 DEF Presses
  <1>9. ASSUME NEW mark \in {0, 128}
        PROVE  /\ Len(Sequence(key, mark)) \in Nat \ {0}
               /\ \A i \in 1..Len(Sequence(key, mark)) :
                    Sequence(key, mark)[i] = key.code + mark \/ Sequence(key, mark)[i] = EXTENDED
               /\ Sequence(key, mark)[Len(Sequence(key, mark))] = key.code + mark
    <2>1. \A i \in 1..Len(Sequence(key, mark)) :
            i = Len(Sequence(key, mark)) \/ i < Len(Sequence(key, mark))
      BY SequenceElements
    <2> QED  BY <2>1, SequenceElements
  <1> DEFINE p == Sequence(key, 0)
             r == Sequence(key, 128)
  <1>10. \A i \in 1..Len(p) : p[i] = key.code + 0 \/ p[i] = EXTENDED
    BY <1>9
  <1>12. /\ \A i \in 1..Len(r) : r[i] = key.code + 128 \/ r[i] = EXTENDED
         /\ \E i \in 1..Len(r) : r[i] = key.code + 128
    BY <1>9
  <1> HIDE DEF p, r
  <1>13. /\ \A i \in 1..Len(p) : Presses(p[i], m) => m \in Modifier(key.code)
         /\ \A i \in 1..Len(r) : ~Presses(r[i], m)
         /\ m \in Modifier(key.code) => \E i \in 1..Len(r) : Releases(r[i], m)
    BY <1>2, <1>5, <1>6, <1>8, <1>10, <1>12
  <1> QED  BY <1>13 DEF p, r

\* A step that appends bytes which press nothing new keeps ModInv, if what is
\* no longer down is released among them.
LEMMA ModAppend ==
  ASSUME PathInv, ModInv, NEW bytes \in Seq(0..255),
         output' = output \o bytes, flags' = flags,
         \A m \in Modifiers :
           /\ HeldDown(m) => HeldDown(m)' \/ \E i \in 1..Len(bytes) : Releases(bytes[i], m)
           /\ \A i \in 1..Len(bytes) : Presses(bytes[i], m) => HeldDown(m)'
  PROVE  ModInv'
  <1> SUFFICES ASSUME NEW m \in Modifiers
      PROVE  /\ m \in flags' => HeldDown(m)' \/ ReleasedFrom(1, m)'
             /\ \A i \in 1..Len(output') :
                  Presses(output'[i], m) => HeldDown(m)' \/ ReleasedFrom(i + 1, m)'
    BY DEF ModInv, Presses
  <1>o. output \in Seq(0..255) /\ Len(output) \in Nat /\ Len(bytes) \in Nat
    BY LenProperties DEF PathInv, DeviceOK
  <1>1. /\ Len(output') = Len(output) + Len(bytes)
        /\ \A i \in 1..Len(output) : output'[i] = output[i]
        /\ \A i \in 1..Len(bytes) : output'[Len(output) + i] = bytes[i]
    <2>1. \A i \in 1..Len(bytes) :
            Len(output) + i \in 1..(Len(output) + Len(bytes)) /\ ~(Len(output) + i <= Len(output))
            /\ Len(output) + i - Len(output) = i
      BY <1>o
    <2>2. \A i \in 1..Len(output) : i \in 1..(Len(output) + Len(bytes)) /\ i <= Len(output)
      BY <1>o
    <2> QED  BY <1>o, <2>1, <2>2, ConcatProperties
  <1>2. ASSUME NEW n \in 1..(Len(output) + 1), HeldDown(m) \/ ReleasedFrom(n, m)
        PROVE  HeldDown(m)' \/ ReleasedFrom(n, m)'
    <2>1. CASE ReleasedFrom(n, m)
      <3>1. PICK i \in n..Len(output) : Releases(output[i], m)
        BY <2>1 DEF ReleasedFrom
      <3>2. i \in n..Len(output') /\ Releases(output'[i], m)
        BY <1>o, <1>1, <3>1
      <3> QED  BY <3>2 DEF ReleasedFrom, Releases
    <2>2. CASE HeldDown(m)
      <3> SUFFICES ASSUME NEW i \in 1..Len(bytes), Releases(bytes[i], m)
                   PROVE  ReleasedFrom(n, m)'
        BY <2>2
      <3>1. Len(output) + i \in n..Len(output') /\ Releases(output'[Len(output) + i], m)
        BY <1>o, <1>1
      <3> QED  BY <3>1 DEF ReleasedFrom, Releases
    <2> QED  BY <1>2, <2>1, <2>2
  <1>3. m \in flags' => HeldDown(m)' \/ ReleasedFrom(1, m)'
    BY <1>2, <1>o DEF ModInv
  <1>4. ASSUME NEW i \in 1..Len(output'), Presses(output'[i], m)
        PROVE  HeldDown(m)' \/ ReleasedFrom(i + 1, m)'
    <2>1. CASE i <= Len(output)
      <3>1. i \in 1..Len(output) /\ i + 1 \in 1..(Len(output) + 1) /\ output'[i] = output[i]
        BY <1>o, <1>1, <2>1, SMTT(40)
      <3> QED  BY <1>2, <1>4, <3>1 DEF ModInv
    <2>2. CASE ~(i <= Len(output))
      <3>1. i - Len(output) \in 1..Len(bytes) /\ Len(output) + (i - Len(output)) = i
        BY <1>o, <1>1, <2>2
      <3>2. output'[i] = bytes[i - Len(output)]
        BY <1>1, <3>1
      <3> QED  BY <1>4, <3>1, <3>2
    <2> QED  BY <2>1, <2>2
  <1> QED  BY <1>3, <1>4

\* What the handler takes and leaves: the first byte goes, acknowledgements,
\* which are no keys, may come.
LEMMA OutputTaken ==
  ASSUME PathInv, keyboard_interrupt_handler
  PROVE  /\ output[1] \in 0..255 /\ keyboard_handler(output[1])
         /\ \E n \in Nat, k \in Nat :
              /\ Len(output) = n + 1 /\ Len(output') = n + k
              /\ \A i \in 1..n : output'[i] = output[i + 1]
              /\ \A i \in 1..(n + k) : i \in 1..n \/ output'[i] = ACK
  <1> DEFINE byte == Head(output)
  <1>1. output \in Seq(0..255) /\ output # <<>>
    BY DEF PathInv, DeviceOK, keyboard_interrupt_handler
  <1>2. byte \in 0..255 /\ keyboard_handler(byte) /\ byte = output[1]
    <2>1. byte \in 0..255
      BY <1>1, HeadTailProperties
    <2>2. byte = output[1]
      BY <1>1
    <2> QED  BY <2>1, <2>2 DEF keyboard_interrupt_handler
  <1>3. PICK acks \in {<<ACK, ACK>>, <<>>} : output' = Tail(output) \o acks
    BY DEF keyboard_interrupt_handler
  <1>4. acks \in Seq(0..255) /\ (\A i \in 1..Len(acks) : acks[i] = ACK)
    <2>1. <<ACK, ACK>> \in Seq(0..255) /\ \A i \in 1..Len(<<ACK, ACK>>) : <<ACK, ACK>>[i] = ACK
      BY DEF ACK
    <2>2. <<>> \in Seq(0..255) /\ Len(<<>>) = 0
      BY EmptySeq
    <2>3. CASE acks = <<ACK, ACK>>
      BY ONLY <2>1, <2>3
    <2>4. CASE acks = <<>>
      BY ONLY <2>2, <2>4
    <2> QED  BY ONLY <1>3, <2>3, <2>4
  <1>5. PICK n \in Nat : Len(output) = n + 1
    <2>1. Len(output) \in Nat \ {0}
      BY <1>1, EmptySeq
    <2> QED  BY <2>1
  <1>6. PICK k \in Nat : k = Len(acks)
    BY <1>4, LenProperties
  <1>7. /\ Tail(output) \in Seq(0..255) /\ Len(Tail(output)) = n
        /\ \A i \in 1..n : Tail(output)[i] = output[i + 1]
    BY <1>1, <1>5, HeadTailProperties
  <1> DEFINE t == Tail(output)
  <1> HIDE DEF t, byte
  <1>8. /\ Len(t \o acks) = n + k
        /\ \A i \in 1..n + k : (t \o acks)[i] = IF i <= n THEN t[i] ELSE acks[i - n]
    BY <1>4, <1>6, <1>7, ConcatProperties, SMTT(40) DEF t
  <1>9. ASSUME NEW i \in 1..n PROVE output'[i] = output[i + 1]
    <2>1. i \in 1..n + k /\ i <= n
      BY <1>6
    <2> QED  BY <1>3, <1>7, <1>8, <2>1 DEF t
  <1>10. ASSUME NEW i \in 1..(n + k), i \notin 1..n PROVE output'[i] = ACK
    <2>1. i - n \in 1..Len(acks) /\ ~(i <= n)
      BY <1>6, <1>10
    <2> QED  BY <1>3, <1>4, <1>8, <2>1 DEF t
  <1>11. /\ Len(output) = n + 1 /\ Len(output') = n + k
         /\ \A i \in 1..n : output'[i] = output[i + 1]
         /\ \A i \in 1..(n + k) : i \in 1..n \/ output'[i] = ACK
    <2>1. Len(output') = n + k
      BY <1>3, <1>8 DEF t
    <2> QED  BY <1>5, <1>9, <1>10, <2>1
  <1>12. output[1] \in 0..255 /\ keyboard_handler(output[1])
    BY <1>2
  <1> QED  BY <1>11, <1>12

\* The handler takes the first byte: what it promised is seen to, or is
\* promised by a byte behind it.
LEMMA ModTake ==
  ASSUME PathInv, ModInv, keyboard_interrupt_handler
  PROVE  ModInv'
  <1> DEFINE byte == output[1]
  <1>1. byte \in 0..255 /\ keyboard_handler(byte) /\ held' = held
    BY OutputTaken DEF keyboard_interrupt_handler
  <1>2. PICK n \in Nat, k \in Nat :
          /\ Len(output) = n + 1 /\ Len(output') = n + k
          /\ \A i \in 1..n : output'[i] = output[i + 1]
          /\ \A i \in 1..(n + k) : i \in 1..n \/ output'[i] = ACK
    BY OutputTaken
  <1> SUFFICES ASSUME NEW m \in Modifiers
      PROVE  /\ m \in flags' => HeldDown(m)' \/ ReleasedFrom(1, m)'
             /\ \A i \in 1..Len(output') :
                  Presses(output'[i], m) => HeldDown(m)' \/ ReleasedFrom(i + 1, m)'
    BY DEF ModInv, Presses
  <1>3. HeldDown(m)' = HeldDown(m)
    BY <1>1 DEF HeldDown
  <1>4. ASSUME NEW l \in 1..(n + 1), ReleasedFrom(l + 1, m) PROVE ReleasedFrom(l, m)'
    <2>1. PICK i \in (l + 1)..Len(output) : Releases(output[i], m)
      BY <1>4 DEF ReleasedFrom
    <2>2. i - 1 \in l..Len(output') /\ i - 1 \in 1..n /\ (i - 1) + 1 = i
      BY <1>2, <2>1
    <2>3. Releases(output'[i - 1], m)
      BY <1>2, <2>1, <2>2
    <2> QED  BY <2>2, <2>3 DEF ReleasedFrom, Releases
  <1>5. ASSUME m \in flags' PROVE HeldDown(m)' \/ ReleasedFrom(1, m)'
    <2>1. CASE Presses(byte, m)
      <3>1. HeldDown(m) \/ ReleasedFrom(1 + 1, m)
        BY <1>2, <2>1 DEF ModInv
      <3> QED  BY <1>2, <1>3, <1>4, <3>1
    <2>2. CASE m \in flags /\ ~Releases(byte, m)
      <3>1. CASE HeldDown(m)
        BY <1>3, <3>1
      <3>2. CASE ReleasedFrom(1, m)
        <4>1. PICK i \in 1..Len(output) : Releases(output[i], m)
          BY <3>2 DEF ReleasedFrom
        <4>2. i # 1 /\ i \in (1 + 1)..Len(output)
          BY <1>2, <2>2, <4>1
        <4>3. ReleasedFrom(1 + 1, m)
          BY <4>1, <4>2 DEF ReleasedFrom
        <4> QED  BY <1>2, <1>4, <4>3
      <3> QED  BY <2>2, <3>1, <3>2 DEF ModInv
    <2> QED  BY <1>1, <1>5, <2>1, <2>2, FlagOfByte
  <1>6. ASSUME NEW i \in 1..Len(output'), Presses(output'[i], m)
        PROVE  HeldDown(m)' \/ ReleasedFrom(i + 1, m)'
    <2>1. output'[i] # ACK
      BY <1>6 DEF Presses, ACK
    <2>2. i \in 1..n /\ i + 1 \in 1..Len(output) /\ i + 1 \in 1..(n + 1) /\ output'[i] = output[i + 1]
      BY <1>2, <2>1
    <2>3. HeldDown(m) \/ ReleasedFrom(i + 1 + 1, m)
      BY <1>6, <2>2 DEF ModInv
    <2> QED  BY <1>3, <1>4, <2>2, <2>3
  <1> QED  BY <1>5, <1>6

LEMMA ModStepInv == PathInv /\ ModInv /\ [PathNext]_vars => ModInv'
  <1> SUFFICES ASSUME PathInv, ModInv, [PathNext]_vars PROVE ModInv'
    OBVIOUS
  <1>1. ASSUME UNCHANGED <<flags, output, held>> PROVE ModInv'
    BY <1>1 DEF ModInv, HeldDown, ReleasedFrom, Presses, Releases
  <1>2. ASSUME NEW key \in Keys, Press(key) PROVE ModInv'
    <2>1. /\ output' = output \o Sequence(key, 0) /\ flags' = flags
          /\ held' = held \cup {key} /\ Sequence(key, 0) \in Seq(0..255)
      BY <1>2, SequenceType DEF Press, Offer, kvars, locks
    <2>2. ASSUME NEW m \in Modifiers
          PROVE  /\ HeldDown(m) => HeldDown(m)'
                 /\ m \in Modifier(key.code) => HeldDown(m)'
      BY <2>1 DEF HeldDown
    <2>3. ASSUME NEW m \in Modifiers, NEW i \in 1..Len(Sequence(key, 0)),
                 Presses(Sequence(key, 0)[i], m)
          PROVE  HeldDown(m)'
      BY <2>2, <2>3, BytesOfKey
    <2> DEFINE bytes == Sequence(key, 0)
    <2> HIDE DEF bytes
    <2> QED  BY <2>1, <2>2, <2>3, ModAppend DEF bytes
  <1>3. ASSUME NEW key \in Keys, Release(key) PROVE ModInv'
    <2>1. /\ output' = output \o Sequence(key, 128) /\ flags' = flags
          /\ held' = held \ {key} /\ Sequence(key, 128) \in Seq(0..255)
      BY <1>3, SequenceType DEF Release, Offer, kvars, locks
    <2>2. ASSUME NEW m \in Modifiers, HeldDown(m)
          PROVE  HeldDown(m)' \/ m \in Modifier(key.code)
      BY <2>1, <2>2 DEF HeldDown
    <2>3. ASSUME NEW m \in Modifiers
          PROVE  /\ HeldDown(m) => \/ HeldDown(m)'
                                   \/ \E i \in 1..Len(Sequence(key, 128)) :
                                        Releases(Sequence(key, 128)[i], m)
                 /\ \A i \in 1..Len(Sequence(key, 128)) : ~Presses(Sequence(key, 128)[i], m)
      BY <2>2, BytesOfKey
    <2> DEFINE bytes == Sequence(key, 128)
    <2> HIDE DEF bytes
    <2> QED  BY <2>1, <2>3, ModAppend DEF bytes
  <1>4. CASE keyboard_interrupt_handler
    BY <1>4, ModTake
  <1>5. ASSUME GetChar \/ InitDrivers \/ UNCHANGED vars PROVE UNCHANGED <<flags, output, held>>
    <2>1. UNCHANGED device
      BY <1>5 DEF GetChar, InitDrivers, vars
    <2>2. CASE GetChar
      <3>1. UNCHANGED flags
        BY <2>2 DEF GetChar, keyboard_get_char, GetNothing, GetStart, LoadCount, ReadSlot,
                    StoreTail, StoreCount, MapChar, locks
      <3> QED  BY <2>1, <3>1 DEF device
    <2>3. CASE InitDrivers
      <3>1. UNCHANGED flags
        BY <2>3 DEF InitDrivers, PathInv, BootInv, At, Init, keyboard_init
      <3> QED  BY <2>1, <3>1 DEF device
    <2>4. CASE UNCHANGED vars
      BY <2>1, <2>4 DEF vars, kvars, locks, device
    <2> QED  BY <1>5, <2>2, <2>3, <2>4
  <1>6. ASSUME NEW irq \in {TIMER, KEYBOARD}, Interrupt(irq) PROVE UNCHANGED <<flags, output, held>>
    BY <1>6 DEF Interrupt, kvars, locks, device
  <1>7. ASSUME \/ TimerTick \/ timer_handler \/ StubEoi \/ Iret \/ EnableIrqs \/ Sti \/ Hlt
               \/ LineFull \/ Edit
        PROVE  UNCHANGED <<flags, output, held>>
    BY <1>7 DEF TimerTick, timer_handler, StubEoi, Iret, EnableIrqs, Sti, Hlt, LineFull, Edit,
                kvars, locks, device
  <1> QED
    BY <1>1, <1>2, <1>3, <1>4, <1>5, <1>6, <1>7 DEF PathNext, User, Handler, Main

(***************************************************************************)
(* No modifier stays down: whatever keys are pressed and released in       *)
(* whatever order, extended or not, once all are up and port 0x60 has      *)
(* delivered every byte the driver holds no modifier for pressed.          *)
(***************************************************************************)
THEOREM ModifiersComeUp == PathSpec => []NoStuckModifier
  <1>1. PathInv /\ ModInv => NoStuckModifier
    <2> SUFFICES ASSUME PathInv, ModInv, held = {}, output = <<>>, NEW m \in flags \cap Modifiers
                 PROVE  FALSE
      BY DEF NoStuckModifier
    <2>1. ~HeldDown(m)
      BY DEF HeldDown
    <2>2. ~ReleasedFrom(1, m)
      BY EmptySeq DEF ReleasedFrom
    <2> QED  BY <2>1, <2>2 DEF ModInv
  <1> QED  BY <1>1, PathInvariant, ModInit, ModStepInv, PTL DEF PathSpec
-----------------------------------------------------------------------------
(***************************************************************************)
(* The ring under interrupts.  The environment of module Keyboard, a byte  *)
(* of the set Bytes at any time, is replaced by the keyboard, the PIC and  *)
(* the CPU; the ring implements the same bounded FIFO.                     *)
(***************************************************************************)
LEMMA PathFifoStep ==
  ASSUME Codegen = "source", PathInv, FifoInv, [PathNext]_vars
  PROVE  FifoInv' /\ [Fifo!Next]_(Fifo!vars)
  <1>1. CASE UNCHANGED kvars
    BY <1>1, FifoStep
  <1>2. ASSUME NEW byte \in 0..255, keyboard_handler(byte), UNCHANGED reader
        PROVE  FifoInv' /\ [Fifo!Next]_(Fifo!vars)
    BY <1>2, HandlerRefines
  <1>3. CASE keyboard_get_char
    BY <1>3, ReaderRefines
  <1> QED  BY <1>1, <1>2, <1>3, PathKeyboard

(***************************************************************************)
(* Compiled in source order, from boot to the last line read: every key    *)
(* press the interrupt path brings to the driver is queued once, in order, *)
(* and dropped only when the ring is full; the initialisation of the       *)
(* driver after its handler was installed discards none.                   *)
(***************************************************************************)
THEOREM PathRingIsFifo ==
  ASSUME Codegen = "source"
  PROVE  PathSpec => FifoSpec
  <1>1. PathInit => FifoInv /\ Fifo!Init
    BY FifoInit DEF PathInit
  <1>2. PathInv /\ FifoInv /\ [PathNext]_vars => FifoInv' /\ [Fifo!Next]_(Fifo!vars)
    BY PathFifoStep
  <1> QED  BY <1>1, <1>2, PathInvariant, PTL DEF PathSpec, FifoSpec, Fifo!Spec
-----------------------------------------------------------------------------
(***************************************************************************)
(* The order of the keys.  OnTheWay is a set of places of the output and   *)
(* Rank counts it, so the proofs are about cardinalities: a key press adds *)
(* a last place, the handler takes the first and moves the rest one down.  *)
(***************************************************************************)

\* Numbers moved one down, without the one that was lowest.
LEMMA MovedDown ==
  ASSUME NEW S \in SUBSET (Nat \ {0}), IsFiniteSet(S),
         NEW T \in SUBSET (Nat \ {0}), \A j \in Nat \ {0} : j \in T <=> j + 1 \in S
  PROVE  /\ IsFiniteSet(T)
         /\ Cardinality(T) = IF 1 \in S THEN Cardinality(S) - 1 ELSE Cardinality(S)
  <1> DEFINE f == [k \in S \ {1} |-> k - 1]
  <1>1. f \in [S \ {1} -> T]
    <2>1. ASSUME NEW k \in S \ {1} PROVE k - 1 \in T
      <3>1. k - 1 \in Nat \ {0} /\ k - 1 + 1 = k
        OBVIOUS
      <3> QED  BY <3>1
    <2> QED  BY <2>1
  <1>2. \A a, b \in S \ {1} : f[a] = f[b] => a = b
    OBVIOUS
  <1>3. \A j \in T : \E k \in S \ {1} : f[k] = j
    <2>1. ASSUME NEW j \in T PROVE j + 1 \in S \ {1} /\ f[j + 1] = j
      <3>1. j \in Nat \ {0} /\ j + 1 # 1 /\ j + 1 - 1 = j
        OBVIOUS
      <3> QED  BY <3>1
    <2> QED  BY <2>1
  <1>4. ExistsBijection(S \ {1}, T)
    BY <1>1, <1>2, <1>3, Zenon
    DEF ExistsBijection, Bijection, Injection, Surjection, IsInjective
  <1>5. /\ IsFiniteSet(S \ {1})
        /\ Cardinality(S \ {1}) = IF 1 \in S THEN Cardinality(S) - 1 ELSE Cardinality(S)
    BY FS_RemoveElement
  <1> QED  BY <1>4, <1>5, FS_Bijection

\* Places are finitely many, and none is ranked beyond their number.
LEMMA PlacesFinite ==
  ASSUME PathInv
  PROVE  /\ OnTheWay \in SUBSET (Nat \ {0}) /\ IsFiniteSet(OnTheWay)
         /\ Cardinality(OnTheWay) \in Nat
         /\ \A i \in OnTheWay :
              /\ IsFiniteSet({j \in OnTheWay : j <= i})
              /\ Rank(i) \in 1..Cardinality(OnTheWay)
  <1>1. Len(output) \in Nat
    BY LenProperties DEF PathInv, DeviceOK
  <1>2. IsFiniteSet(1..Len(output))
    BY <1>1, FS_Interval
  <1>3. OnTheWay \in SUBSET (Nat \ {0}) /\ IsFiniteSet(OnTheWay)
    BY <1>1, <1>2, FS_Subset DEF OnTheWay
  <1>4. ASSUME NEW i \in OnTheWay
        PROVE  /\ IsFiniteSet({j \in OnTheWay : j <= i})
               /\ Rank(i) \in 1..Cardinality(OnTheWay)
    <2> DEFINE low == {j \in OnTheWay : j <= i}
    <2>1. IsFiniteSet(low) /\ Cardinality(low) <= Cardinality(OnTheWay)
      BY <1>3, FS_Subset
    <2>2. i \in low
      BY <1>3
    <2>3. Cardinality(low) \in Nat /\ Cardinality(low) # 0 /\ Cardinality(OnTheWay) \in Nat
      BY <1>3, <2>1, <2>2, FS_CardinalityType, FS_EmptySet
    <2>4. Rank(i) = Cardinality(low)
      BY DEF Rank
    <2> HIDE DEF low
    <2> QED  BY <2>1, <2>3, <2>4 DEF low
  <1> QED  BY <1>3, <1>4, FS_CardinalityType

LEMMA OrderInit == PathInit => TypedInOrder
  <1> SUFFICES ASSUME PathInit PROVE TypedInOrder  OBVIOUS
  <1>1. typed = <<>> /\ accepted = <<>> /\ output = <<>> /\ Len(<<>>) = 0
    BY EmptySeq DEF PathInit, Init
  <1>2. OnTheWay = {}
    BY <1>1 DEF OnTheWay
  <1> QED  BY <1>1, <1>2, FS_EmptySet DEF TypedInOrder

LEMMA OrderKept ==
  ASSUME TypedInOrder, UNCHANGED <<typed, accepted, dropped, output>>
  PROVE  TypedInOrder'
  BY DEF TypedInOrder, OnTheWay, Rank

\* Bytes that arrive at the end: their last may be the press of a regular key.
LEMMA OrderAppend ==
  ASSUME PathInv, TypedInOrder, NEW bytes \in Seq(0..255), Len(bytes) > 0,
         output' = output \o bytes, UNCHANGED <<accepted, dropped>>,
         \A i \in 1..Len(bytes) : i < Len(bytes) => bytes[i] \notin RegularKey,
         typed' = IF bytes[Len(bytes)] \in RegularKey
                  THEN Append(typed, bytes[Len(bytes)]) ELSE typed
  PROVE  TypedInOrder'
  <1> DEFINE k == Len(bytes)
             last == bytes[k]
  <1>n. PICK n \in Nat : n = Len(output)
    BY LenProperties DEF PathInv, DeviceOK
  <1>o. /\ output \in Seq(0..255) /\ n \in Nat /\ k \in Nat \ {0}
        /\ typed \in Seq(RegularKey) /\ accepted \in Seq(RegularKey)
        /\ Len(typed) \in Nat /\ Len(accepted) \in Nat
    BY LenProperties DEF PathInv, DeviceOK, TypeInv, TypeOK
  <1>1. /\ Len(output') = n + k
        /\ \A i \in 1..n + k : output'[i] = IF i <= n THEN output[i] ELSE bytes[i - n]
    BY <1>n, <1>o, ConcatProperties
  <1>p. /\ Cardinality(OnTheWay) \in Nat /\ IsFiniteSet(OnTheWay)
        /\ \A i \in OnTheWay : Rank(i) \in 1..Cardinality(OnTheWay)
    BY PlacesFinite
  <1> HIDE DEF k
  <1>2. ASSUME NEW i \in 1..(n + k)
        PROVE  /\ i \in 1..n => output'[i] = output[i]
               /\ i \notin 1..n /\ i # n + k => output'[i] \notin RegularKey
               /\ i = n + k => output'[i] = last /\ i \notin 1..n
    <2>1. CASE i \in 1..n
      BY <1>o, <1>1, <2>1
    <2>2. CASE i \notin 1..n
      <3>1. i - n \in 1..k /\ (i # n + k => i - n < k) /\ (i = n + k => i - n = k) /\ ~(i <= n)
        BY <1>o, <2>2
      <3> QED  BY <1>1, <2>2, <3>1 DEF k
    <2> QED  BY <2>1, <2>2
  <1>3. OnTheWay' = IF last \in RegularKey THEN OnTheWay \cup {n + k} ELSE OnTheWay
    <2>1. OnTheWay = {i \in 1..n : output[i] \in RegularKey}
      BY <1>n DEF OnTheWay
    <2>2. OnTheWay' = {i \in 1..(n + k) : output'[i] \in RegularKey}
      BY <1>1 DEF OnTheWay
    <2>3. 1..n \subseteq 1..(n + k) /\ n + k \in 1..(n + k)
      BY <1>o
    <2> QED  BY <1>2, <2>1, <2>2, <2>3
  <1>4. \A i \in OnTheWay : i \in 1..n /\ i < n + k /\ output'[i] = output[i]
    <2>1. \A i \in 1..n : i < n + k /\ i \in 1..(n + k)
      BY <1>o
    <2> QED  BY <1>2, <1>n, <2>1 DEF OnTheWay
  <1>5. ASSUME NEW i \in OnTheWay PROVE Rank(i)' = Rank(i)
    <2>1. i <= n
      BY <1>4
    <2>2. n + k \notin {j \in OnTheWay' : j <= i}
      <3>1. i \in Nat /\ ~(n + k <= i)
        BY <1>4, <1>o
      <3> QED  BY <3>1
    <2>3. {j \in OnTheWay' : j <= i} = {j \in OnTheWay : j <= i}
      BY <1>3, <2>2
    <2> QED  BY <2>3 DEF Rank
  <1> SUFFICES ASSUME dropped = 0
      PROVE  /\ Len(typed') = Len(accepted) + Cardinality(OnTheWay')
             /\ \A i \in 1..Len(accepted) : typed'[i] = accepted[i]
             /\ \A i \in OnTheWay' : typed'[Len(accepted) + Rank(i)'] = output'[i]
    BY DEF TypedInOrder
  <1>6. /\ Len(typed) = Len(accepted) + Cardinality(OnTheWay)
        /\ \A i \in 1..Len(accepted) : typed[i] = accepted[i]
        /\ \A i \in OnTheWay : typed[Len(accepted) + Rank(i)] = output[i]
    BY DEF TypedInOrder
  <1>7. CASE last \notin RegularKey
    <2>1. typed' = typed /\ OnTheWay' = OnTheWay
      BY <1>3, <1>7 DEF k
    <2> QED  BY <1>4, <1>5, <1>6, <2>1
  <1>8. CASE last \in RegularKey
    <2>1. /\ typed' = Append(typed, last) /\ OnTheWay' = OnTheWay \cup {n + k}
          /\ n + k \notin OnTheWay
      BY <1>3, <1>4, <1>8 DEF k
    <2>2. /\ Len(typed') = Len(typed) + 1
          /\ \A i \in 1..Len(typed) : typed'[i] = typed[i]
          /\ typed'[Len(typed) + 1] = last
      BY <1>o, <1>8, <2>1, AppendProperties
    <2>3. Cardinality(OnTheWay') = Cardinality(OnTheWay) + 1
      BY <1>p, <2>1, FS_AddElement
    <2>4. Rank(n + k)' = Cardinality(OnTheWay')
      <3>1. {j \in OnTheWay' : j <= n + k} = OnTheWay'
        BY <1>4, <1>o, <2>1
      <3> QED  BY <3>1 DEF Rank
    <2>5. Len(typed') = Len(accepted) + Cardinality(OnTheWay')
      BY <1>o, <1>6, <1>p, <2>2, <2>3
    <2>6. ASSUME NEW i \in 1..Len(accepted) PROVE typed'[i] = accepted[i]
      <3>1. i \in 1..Len(typed)
        BY <1>o, <1>6, <1>p
      <3> QED  BY <1>6, <2>2, <3>1
    <2>7. ASSUME NEW i \in OnTheWay PROVE typed'[Len(accepted) + Rank(i)'] = output'[i]
      <3>1. Len(accepted) + Rank(i) \in 1..Len(typed)
        BY <1>o, <1>6, <1>p
      <3> QED  BY <1>4, <1>5, <1>6, <2>2, <3>1
    <2>8. typed'[Len(accepted) + Rank(n + k)'] = output'[n + k]
      <3>1. n + k \in 1..(n + k)
        BY <1>o
      <3>2. output'[n + k] = last
        BY <1>2, <3>1
      <3>3. Len(accepted) + Cardinality(OnTheWay') = Len(typed) + 1
        BY <2>2, <2>5
      <3> QED  BY <2>2, <2>4, <3>2, <3>3
    <2>9. ASSUME NEW i \in OnTheWay' PROVE typed'[Len(accepted) + Rank(i)'] = output'[i]
      <3>1. CASE i \in OnTheWay
        BY <2>7, <3>1
      <3>2. CASE i = n + k
        BY <2>8, <3>2
      <3> QED  BY <2>1, <3>1, <3>2
    <2> QED  BY <2>5, <2>6, <2>9
  <1> QED  BY <1>7, <1>8

\* The handler keeps a regular key's press, and nothing else, if it finds room.
LEMMA AcceptedByHandler ==
  ASSUME TypeInv, NEW byte \in 0..255, keyboard_handler(byte), dropped' = 0
  PROVE  /\ dropped = 0
         /\ accepted' = IF byte \in RegularKey THEN Append(accepted, byte) ELSE accepted
  <1>d. dropped \in Nat
    BY DEF TypeInv, TypeOK
  <1>1. CASE byte \in RegularKey
    <2>1. byte # EXTENDED /\ KeyOf(byte) = byte /\ ~IsRelease(byte) /\ byte \notin SpecialKey
      BY <1>1 DEF RegularKey, EXTENDED, KeyOf, IsRelease
    <2>2. keyboard_buffer_put(byte)
      BY <2>1 DEF keyboard_handler, Buffered
    <2> QED  BY <1>1, <1>d, <2>2 DEF keyboard_buffer_put
  <1>2. CASE byte \notin RegularKey
    <2>1. byte = EXTENDED \/ ~Buffered(KeyOf(byte), IsRelease(byte))
      <3>1. CASE byte < 128
        <4>1. KeyOf(byte) = byte /\ byte \in SpecialKey
          BY <1>2, <3>1 DEF KeyOf, RegularKey
        <4> QED  BY <4>1 DEF Buffered
      <3>2. CASE ~(byte < 128)
        BY <3>2 DEF Buffered, IsRelease
      <3> QED  BY <3>1, <3>2
    <2>2. UNCHANGED ring
      BY <2>1 DEF keyboard_handler
    <2> QED  BY <1>2, <2>2 DEF ring
  <1> QED  BY <1>1, <1>2

LEMMA OrderTake ==
  ASSUME PathInv, TypedInOrder, keyboard_interrupt_handler
  PROVE  TypedInOrder'
  <1> DEFINE byte == output[1]
  <1> SUFFICES ASSUME dropped' = 0
      PROVE  /\ Len(typed') = Len(accepted') + Cardinality(OnTheWay')
             /\ \A i \in 1..Len(accepted') : typed'[i] = accepted'[i]
             /\ \A i \in OnTheWay' : typed'[Len(accepted') + Rank(i)'] = output'[i]
    BY DEF TypedInOrder
  <1>1. PICK n \in Nat, k \in Nat :
          /\ Len(output) = n + 1 /\ Len(output') = n + k
          /\ \A i \in 1..n : output'[i] = output[i + 1]
          /\ \A i \in 1..(n + k) : i \in 1..n \/ output'[i] = ACK
    BY OutputTaken
  <1>2. /\ dropped = 0 /\ typed' = typed
        /\ accepted' = IF byte \in RegularKey THEN Append(accepted, byte) ELSE accepted
    <2>1. byte \in 0..255 /\ keyboard_handler(byte) /\ TypeInv
      BY OutputTaken DEF PathInv
    <2> HIDE DEF byte
    <2>2. typed' = typed
      BY DEF keyboard_interrupt_handler
    <2> QED  BY <2>1, <2>2, AcceptedByHandler
  <1>o. /\ typed \in Seq(RegularKey) /\ accepted \in Seq(RegularKey)
        /\ Len(typed) \in Nat /\ Len(accepted) \in Nat
    BY LenProperties DEF PathInv, DeviceOK, TypeInv, TypeOK
  <1>p. /\ OnTheWay \in SUBSET (Nat \ {0}) /\ IsFiniteSet(OnTheWay)
        /\ Cardinality(OnTheWay) \in Nat
        /\ \A i \in OnTheWay : IsFiniteSet({j \in OnTheWay : j <= i})
        /\ \A i \in OnTheWay : Rank(i) \in 1..Cardinality(OnTheWay)
    BY PlacesFinite
  <1>3. /\ Len(typed) = Len(accepted) + Cardinality(OnTheWay)
        /\ \A i \in 1..Len(accepted) : typed[i] = accepted[i]
        /\ \A i \in OnTheWay : typed[Len(accepted) + Rank(i)] = output[i]
    BY <1>2 DEF TypedInOrder
  <1>4. OnTheWay' \in SUBSET (Nat \ {0}) /\ \A j \in Nat \ {0} : j \in OnTheWay' <=> j + 1 \in OnTheWay
    <2>1. OnTheWay' = {i \in 1..(n + k) : output'[i] \in RegularKey}
      BY <1>1 DEF OnTheWay
    <2>2. OnTheWay = {i \in 1..(n + 1) : output[i] \in RegularKey}
      BY <1>1 DEF OnTheWay
    <2>3. ACK \notin RegularKey
      BY DEF ACK, RegularKey
    <2>4. ASSUME NEW j \in Nat \ {0} PROVE j \in OnTheWay' <=> j + 1 \in OnTheWay
      <3>1. CASE j \in 1..n
        <4>1. j \in 1..(n + k) /\ j + 1 \in 1..(n + 1)
          BY <3>1
        <4> QED  BY <1>1, <2>1, <2>2, <3>1, <4>1
      <3>2. CASE j \notin 1..n
        <4>1. j + 1 \notin 1..(n + 1)
          BY <3>2
        <4> QED  BY <1>1, <2>1, <2>2, <2>3, <3>2, <4>1
      <3> QED  BY <3>1, <3>2
    <2>5. 1..(n + k) \subseteq Nat \ {0}
      OBVIOUS
    <2> QED  BY <2>1, <2>4, <2>5
  <1>5. Cardinality(OnTheWay') =
          IF 1 \in OnTheWay THEN Cardinality(OnTheWay) - 1 ELSE Cardinality(OnTheWay)
    BY <1>4, <1>p, MovedDown
  <1>6. ASSUME NEW i \in OnTheWay'
        PROVE  /\ i + 1 \in OnTheWay /\ output'[i] = output[i + 1]
               /\ Rank(i)' = IF 1 \in OnTheWay THEN Rank(i + 1) - 1 ELSE Rank(i + 1)
    <2>1. i \in Nat \ {0} /\ i + 1 \in OnTheWay
      BY <1>4
    <2>2. i \in 1..n
      <3>1. i + 1 \in 1..(n + 1)
        BY <1>1, <2>1 DEF OnTheWay
      <3> QED  BY <2>1, <3>1
    <2> DEFINE S == {j \in OnTheWay : j <= i + 1}
               T == {j \in OnTheWay' : j <= i}
    <2>3. S \in SUBSET (Nat \ {0}) /\ IsFiniteSet(S) /\ T \in SUBSET (Nat \ {0})
      BY <1>4, <1>p, <2>1
    <2>4. \A j \in Nat \ {0} : j \in T <=> j + 1 \in S
      <3>1. \A j \in Nat \ {0} : j <= i <=> j + 1 <= i + 1
        BY <2>1
      <3> QED  BY <1>4, <3>1
    <2>5. 1 \in S <=> 1 \in OnTheWay
      BY <2>1
    <2>6. Rank(i)' = Cardinality(T) /\ Rank(i + 1) = Cardinality(S)
      BY DEF Rank
    <2> HIDE DEF S, T
    <2>7. Cardinality(T) = IF 1 \in S THEN Cardinality(S) - 1 ELSE Cardinality(S)
      BY <2>3, <2>4, MovedDown
    <2> QED  BY <1>1, <2>1, <2>2, <2>5, <2>6, <2>7
  <1>7. 1 \in OnTheWay <=> byte \in RegularKey
    <2>1. 1 \in 1..Len(output)
      BY <1>1
    <2> QED  BY <2>1 DEF OnTheWay
  <1> HIDE DEF byte
  <1>8. CASE 1 \notin OnTheWay
    <2>1. accepted' = accepted /\ Cardinality(OnTheWay') = Cardinality(OnTheWay)
      BY <1>2, <1>5, <1>7, <1>8
    <2> QED  BY <1>2, <1>3, <1>6, <1>8, <2>1
  <1>9. CASE 1 \in OnTheWay
    <2>1. /\ accepted' \in Seq(RegularKey) /\ Len(accepted') = Len(accepted) + 1
          /\ \A i \in 1..Len(accepted) : accepted'[i] = accepted[i]
          /\ accepted'[Len(accepted) + 1] = byte
      BY <1>2, <1>7, <1>9, <1>o, AppendProperties
    <2>2. Rank(1) = 1
      <3>1. {j \in OnTheWay : j <= 1} = {1}
        <4>1. \A j \in OnTheWay : j \in Nat \ {0}
          BY <1>p
        <4>2. \A j \in OnTheWay : j <= 1 <=> j = 1
          BY <4>1
        <4> QED  BY <1>9, <4>2
      <3> QED  BY <3>1, FS_Singleton DEF Rank
    <2>3. typed[Len(accepted) + 1] = byte
      BY <1>3, <1>9, <2>2 DEF byte
    <2>4. Len(typed') = Len(accepted') + Cardinality(OnTheWay')
      BY <1>2, <1>3, <1>5, <1>9, <1>o, <1>p, <2>1
    <2>5. ASSUME NEW i \in 1..Len(accepted') PROVE typed'[i] = accepted'[i]
      <3>1. i \in 1..Len(accepted) \/ i = Len(accepted) + 1
        BY <1>o, <2>1
      <3> QED  BY <1>2, <1>3, <2>1, <2>3, <3>1
    <2>6. ASSUME NEW i \in OnTheWay' PROVE typed'[Len(accepted') + Rank(i)'] = output'[i]
      <3>1. /\ i + 1 \in OnTheWay /\ output'[i] = output[i + 1]
            /\ Rank(i)' = Rank(i + 1) - 1 /\ Rank(i + 1) \in Nat
        <4>1. i + 1 \in OnTheWay /\ output'[i] = output[i + 1] /\ Rank(i)' = Rank(i + 1) - 1
          BY <1>6, <1>9
        <4>2. Rank(i + 1) \in 1..Cardinality(OnTheWay)
          BY <1>p, <4>1
        <4> QED  BY <1>p, <4>1, <4>2
      <3>2. Len(accepted') + Rank(i)' = Len(accepted) + Rank(i + 1)
        BY <1>o, <2>1, <3>1
      <3> QED  BY <1>2, <1>3, <3>1, <3>2
    <2> QED  BY <2>4, <2>5, <2>6
  <1> QED  BY <1>8, <1>9

LEMMA OrderStep == PathInv /\ TypedInOrder /\ [PathNext]_vars => TypedInOrder'
  <1> SUFFICES ASSUME PathInv, TypedInOrder, [PathNext]_vars PROVE TypedInOrder'
    OBVIOUS
  <1>1. ASSUME NEW key \in Keys, NEW mark \in {0, 128},
               Offer(Sequence(key, mark)), UNCHANGED kvars,
               typed' = IF key.code + mark \in RegularKey
                        THEN Append(typed, key.code + mark) ELSE typed
        PROVE  TypedInOrder'
    <2> DEFINE bytes == Sequence(key, mark)
    <2>1. /\ bytes \in Seq(0..255) /\ Len(bytes) > 0 /\ bytes[Len(bytes)] = key.code + mark
          /\ \A i \in 1..Len(bytes) : i < Len(bytes) => bytes[i] \notin RegularKey
      <3>1. EXTENDED \notin RegularKey
        BY DEF EXTENDED, RegularKey
      <3> QED  BY <3>1, SequenceType, SequenceElements
    <2>2. output' = output \o bytes /\ UNCHANGED <<accepted, dropped>>
      BY <1>1 DEF Offer, kvars, ring
    <2> HIDE DEF bytes
    <2> QED  BY <1>1, <2>1, <2>2, OrderAppend
  <1>2. ASSUME NEW key \in Keys, Press(key) PROVE TypedInOrder'
    <2>1. key.code + 0 = key.code
      BY KeysAssumption
    <2>2. typed' = IF key.code + 0 \in RegularKey THEN Append(typed, key.code + 0) ELSE typed
      BY <1>2, <2>1 DEF Press
    <2> QED  BY <1>1, <1>2, <2>2 DEF Press
  <1>3. ASSUME NEW key \in Keys, Release(key) PROVE TypedInOrder'
    <2>1. key.code + 128 \notin RegularKey
      BY KeysAssumption DEF RegularKey
    <2>2. typed' = IF key.code + 128 \in RegularKey THEN Append(typed, key.code + 128) ELSE typed
      BY <1>3, <2>1 DEF Release
    <2> QED  BY <1>1, <1>3, <2>2 DEF Release
  <1>4. CASE keyboard_interrupt_handler
    BY <1>4, OrderTake
  <1>5. ASSUME UNCHANGED <<device, kvars>> PROVE TypedInOrder'
    BY <1>5, OrderKept DEF device, kvars, ring
  <1>6. ASSUME GetChar PROVE TypedInOrder'
    <2>1. UNCHANGED <<accepted, dropped>>
      BY <1>6 DEF GetChar, keyboard_get_char, GetNothing, GetStart, LoadCount, ReadSlot,
                  StoreTail, StoreCount, MapChar, ring
    <2> QED  BY <1>6, <2>1, OrderKept DEF GetChar, device
  <1>7. ASSUME InitDrivers PROVE TypedInOrder'
    BY <1>7, OrderKept DEF InitDrivers, device
  <1>8. ASSUME NEW irq \in {TIMER, KEYBOARD}, Interrupt(irq) PROVE TypedInOrder'
    BY <1>5, <1>8 DEF Interrupt
  <1>9. ASSUME \/ TimerTick \/ timer_handler \/ StubEoi \/ Iret \/ EnableIrqs \/ Sti \/ Hlt
               \/ LineFull \/ Edit \/ UNCHANGED vars
        PROVE  TypedInOrder'
    BY <1>5, <1>9 DEF TimerTick, timer_handler, StubEoi, Iret, EnableIrqs, Sti, Hlt, LineFull,
                      Edit, vars
  <1> QED
    BY <1>2, <1>3, <1>4, <1>6, <1>7, <1>8, <1>9 DEF PathNext, User, Handler, Main

(***************************************************************************)
(* While no key has found the ring full, the keys the driver accepted and  *)
(* the ones still between the keyboard and port 0x60 are the ones typed,   *)
(* in their order: no release, prefix or acknowledgement is taken for a    *)
(* key, none is lost at boot and none overtakes another.                   *)
(***************************************************************************)
THEOREM KeysStayInOrder == PathSpec => []TypedInOrder
  BY PathInvariant, OrderInit, OrderStep, PTL DEF PathSpec
-----------------------------------------------------------------------------
(***************************************************************************)
(* The screen.  Where the cursor is in the cells, row by row, what stands  *)
(* before it, and that everything behind it is blank: a character moves    *)
(* the cursor by one, whether or not the row ends there, and scrolling     *)
(* moves cells and cursor alike.                                           *)
(***************************************************************************)
W == VGA_WIDTH
H == VGA_HEIGHT
Memories == [Cells -> Chars]
Screens == [video_memory : Memories, x : 0..W-1, y : 0..H-1]

\* The text t ends at cell c, and nothing follows it.
ShownAt(vm, c, t) ==
  /\ Len(t) <= c
  /\ \A i \in 1..Len(t) : vm[c - Len(t) + i - 1] = t[i]
  /\ \A cell \in Cells : c <= cell => vm[cell] = SPACE
Shown(s, t) == ShownAt(s.video_memory, Cursor(s), t)

\* One row up.
Shifted(vm) == [i \in Cells |-> IF i + W \in Cells THEN vm[i + W] ELSE SPACE]

LEMMA ScreenSize ==
  /\ W \in Nat \ {0} /\ H \in Nat /\ H >= 2
  /\ W * H \in Nat /\ Cells = 0 .. W * H - 1
  /\ (H - 1) * W \in Nat /\ (H - 1) * W + W = W * H /\ W <= (H - 1) * W
  <1>1. W \in Nat \ {0} /\ H \in Nat /\ H >= 2 /\ Cells = 0 .. W * H - 1
    BY VgaAssumption, PromptAssumption DEF W, H, Cells
  <1>2. PICK h \in Nat : H = h + 2
    <2>1. H - 2 \in Nat /\ H = (H - 2) + 2
      BY <1>1
    <2> QED  BY <2>1
  <1>3. (h + 1) * W = h * W + W /\ W * (h + 2) = h * W + W + W /\ h * W \in Nat
    BY <1>1, SMT
  <1>4. H - 1 = h + 1
    BY <1>2
  <1> QED  BY <1>1, <1>2, <1>3, <1>4

LEMMA CursorIn ==
  ASSUME NEW y \in 0..H-1
  PROVE  /\ y * W \in Nat /\ y * W + W <= W * H
         /\ y + 1 < H => (y + 1) * W = y * W + W
         /\ y + 1 >= H => y = H - 1
  <1>1. y \in Nat /\ H - 1 \in Nat /\ y <= H - 1
    BY ScreenSize
  <1>2. y * W \in Nat /\ W * y = y * W /\ W * (H - 1) = (H - 1) * W
    BY <1>1, ScreenSize, ProductOfNats
  <1>3. W * y <= W * (H - 1)
    BY <1>1, ScreenSize, ProductGrows
  <1>4. (y + 1) * W = y * W + W
    BY <1>1, ScreenSize, SMT
  <1>5. PICK a, b, c : a = y * W /\ b = (H - 1) * W /\ c = W * H
    OBVIOUS
  <1>6. a \in Nat /\ b \in Nat /\ c \in Nat /\ a <= b /\ b + W = c
    BY <1>2, <1>3, <1>5, ScreenSize
  <1>7. a + W <= c
    BY <1>6, ScreenSize
  <1>8. y * W + W <= W * H
    BY ONLY <1>5, <1>7
  <1>9. y + 1 >= H => y = H - 1
    BY <1>1, ScreenSize
  <1> QED  BY <1>2, <1>4, <1>8, <1>9

LEMMA SpaceIsChar == SPACE \in Chars
  <1>1. 57 \in 0..127
    OBVIOUS
  <1> QED  BY <1>1, Zenon DEF SPACE, Chars

LEMMA ShownAfter ==
  ASSUME NEW vm \in Memories, NEW c \in Cells, NEW ch \in Chars, NEW t \in Seq(Chars),
         ShownAt(vm, c, t)
  PROVE  /\ [vm EXCEPT ![c] = ch] \in Memories
         /\ ShownAt([vm EXCEPT ![c] = ch], c + 1, Append(t, ch))
  <1> DEFINE new == [vm EXCEPT ![c] = ch]
             n == Len(t)
  <1>1. /\ n \in Nat /\ n <= c /\ c \in Nat
        /\ Append(t, ch) \in Seq(Chars) /\ Len(Append(t, ch)) = n + 1
        /\ Append(t, ch)[n + 1] = ch
        /\ \A i \in 1..n : Append(t, ch)[i] = t[i]
    BY ScreenSize DEF ShownAt
  <1>2. new \in Memories /\ new[c] = ch /\ \A cell \in Cells : cell # c => new[cell] = vm[cell]
    BY DEF Memories
  <1>3. ASSUME NEW i \in 1..n+1 PROVE new[(c + 1) - (n + 1) + i - 1] = Append(t, ch)[i]
    <2>1. CASE i = n + 1
      <3>1. (c + 1) - (n + 1) + i - 1 = c
        BY <1>1, <2>1
      <3> QED  BY <1>1, <1>2, <2>1, <3>1
    <2>2. CASE i \in 1..n
      <3>1. (c + 1) - (n + 1) + i - 1 = c - n + i - 1 /\ c - n + i - 1 \in Cells
            /\ c - n + i - 1 # c
        BY <1>1, <2>2, ScreenSize
      <3>2. vm[c - n + i - 1] = t[i]
        BY <2>2 DEF ShownAt
      <3> QED  BY <1>1, <1>2, <2>2, <3>1, <3>2
    <2> QED  BY <1>1, <2>1, <2>2
  <1>4. ASSUME NEW cell \in Cells, c + 1 <= cell PROVE new[cell] = SPACE
    <2>1. c <= cell /\ cell # c
      BY <1>1, <1>4, ScreenSize
    <2> QED  BY <1>2, <2>1 DEF ShownAt
  <1>5. n + 1 <= c + 1
    BY <1>1
  <1> HIDE DEF new
  <1> QED  BY <1>1, <1>2, <1>3, <1>4, <1>5 DEF ShownAt, new

LEMMA ShownShifted ==
  ASSUME NEW vm \in Memories, NEW c \in 0 .. W * H, NEW t \in Seq(Chars),
         Len(t) + W <= c, ShownAt(vm, c, t)
  PROVE  Shifted(vm) \in Memories /\ ShownAt(Shifted(vm), c - W, t)
  <1> DEFINE n == Len(t)
  <1>1. n \in Nat /\ c \in Nat /\ n + W <= c
    BY ScreenSize
  <1>2. SPACE \in Chars
    BY SpaceIsChar
  <1>3. Shifted(vm) \in Memories
    BY <1>2 DEF Shifted, Memories
  <1>4. ASSUME NEW i \in 1..n PROVE Shifted(vm)[c - W - n + i - 1] = t[i]
    <2>1. /\ c - W - n + i - 1 \in Cells /\ (c - W - n + i - 1) + W = c - n + i - 1
          /\ c - n + i - 1 \in Cells
      BY <1>1, ScreenSize
    <2>2. vm[c - n + i - 1] = t[i]
      BY DEF ShownAt
    <2> QED  BY <2>1, <2>2 DEF Shifted
  <1>5. ASSUME NEW cell \in Cells, c - W <= cell PROVE Shifted(vm)[cell] = SPACE
    <2>1. c <= cell + W
      BY <1>1, <1>5, ScreenSize
    <2> QED  BY <2>1 DEF Shifted, ShownAt
  <1>6. n <= c - W
    BY <1>1, ScreenSize
  <1> QED  BY <1>3, <1>4, <1>5, <1>6 DEF ShownAt

LEMMA ShownErased ==
  ASSUME NEW vm \in Memories, NEW c \in Cells, NEW t \in Seq(Chars), t # <<>>,
         ShownAt(vm, c, t)
  PROVE  /\ [vm EXCEPT ![c - 1] = SPACE] \in Memories
         /\ ShownAt([vm EXCEPT ![c - 1] = SPACE], c - 1, Front(t))
  <1> DEFINE new == [vm EXCEPT ![c - 1] = SPACE]
             n == Len(t)
  <1>1. n \in Nat \ {0} /\ n <= c /\ c \in Nat
    BY ScreenSize, EmptySeq DEF ShownAt
  <1>2. /\ Front(t) \in Seq(Chars) /\ Len(Front(t)) = n - 1
        /\ \A i \in 1..n-1 : Front(t)[i] = t[i]
    <2>1. Front(t) \in Seq(Chars) /\ Len(Front(t)) = n - 1
      BY FrontIsShorter
    <2>2. \A i \in 1..n-1 : Front(t)[i] = t[i]
      BY <1>1 DEF Front
    <2> QED  BY <2>1, <2>2
  <1>3. c - 1 \in Cells
    BY <1>1, ScreenSize
  <1>4. new \in Memories /\ new[c - 1] = SPACE /\ \A cell \in Cells : cell # c - 1 => new[cell] = vm[cell]
    BY <1>3, SpaceIsChar DEF Memories
  <1>5. ASSUME NEW i \in 1..n-1 PROVE new[(c - 1) - (n - 1) + i - 1] = Front(t)[i]
    <2>1. /\ (c - 1) - (n - 1) + i - 1 = c - n + i - 1 /\ c - n + i - 1 \in Cells
          /\ c - n + i - 1 # c - 1 /\ i \in 1..n
      BY <1>1, ScreenSize
    <2>2. vm[c - n + i - 1] = t[i]
      BY <2>1 DEF ShownAt
    <2> QED  BY <1>2, <1>4, <2>1, <2>2
  <1>6. ASSUME NEW cell \in Cells, c - 1 <= cell PROVE new[cell] = SPACE
    <2>1. c <= cell \/ cell = c - 1
      BY <1>1, <1>6, ScreenSize
    <2> QED  BY <1>4, <2>1 DEF ShownAt
  <1>7. n - 1 <= c - 1
    BY <1>1
  <1> HIDE DEF new
  <1> QED  BY <1>2, <1>4, <1>5, <1>6, <1>7 DEF ShownAt, new

\* A shorter end of a text is shown as well.
LEMMA ShownNothing ==
  ASSUME NEW vm, NEW c \in Nat, NEW t, ShownAt(vm, c, t)
  PROVE  ShownAt(vm, c, <<>>)
  BY DEF ShownAt
-----------------------------------------------------------------------------
(***************************************************************************)
(* What putchar and print_message do with one character.                   *)
(***************************************************************************)
ScreenOf(vm, x, y) == [video_memory |-> vm, x |-> x, y |-> y]

LEMMA ScreenFields ==
  ASSUME NEW vm, NEW x, NEW y
  PROVE  /\ ScreenOf(vm, x, y).x = x /\ ScreenOf(vm, x, y).y = y
         /\ ScreenOf(vm, x, y).video_memory = vm
  BY DEF ScreenOf

LEMMA SetX ==
  ASSUME NEW vm, NEW x, NEW y, NEW a PROVE [ScreenOf(vm, x, y) EXCEPT !.x = a] = ScreenOf(vm, a, y)
  BY DEF ScreenOf

LEMMA SetY ==
  ASSUME NEW vm, NEW x, NEW y, NEW a PROVE [ScreenOf(vm, x, y) EXCEPT !.y = a] = ScreenOf(vm, x, a)
  BY DEF ScreenOf

LEMMA SetMemory ==
  ASSUME NEW vm, NEW x, NEW y, NEW a
  PROVE  [ScreenOf(vm, x, y) EXCEPT !.video_memory = a] = ScreenOf(a, x, y)
  BY DEF ScreenOf

\* A new line, the margin, a scroll, a character and an erasure.
LEMMA NextRow ==
  ASSUME NEW vm, NEW x, NEW y, NEW s, s = ScreenOf(vm, x, y)
  PROVE  [s EXCEPT !.x = 0, !.y = @ + 1] = ScreenOf(vm, 0, y + 1)
  <1>1. s = ScreenOf(vm, x, y)
    OBVIOUS
  <1>2. [s EXCEPT !.x = 0, !.y = @ + 1] = [[s EXCEPT !.x = 0] EXCEPT !.y = s.y + 1]
    OBVIOUS
  <1>3. [s EXCEPT !.x = 0] = ScreenOf(vm, 0, y) /\ s.y = y
    BY <1>1, SetX, ScreenFields
  <1>4. [ScreenOf(vm, 0, y) EXCEPT !.y = y + 1] = ScreenOf(vm, 0, y + 1)
    BY SetY
  <1> QED  BY <1>1, <1>2, <1>3, <1>4

LEMMA WrappedIs ==
  ASSUME NEW vm, NEW x \in Nat, NEW y
  PROVE  Wrapped(ScreenOf(vm, x, y)) = IF x < W THEN ScreenOf(vm, x, y) ELSE ScreenOf(vm, 0, y + 1)
  <1>1. PICK s : s = ScreenOf(vm, x, y)
    OBVIOUS
  <1>2. s.x = x /\ [s EXCEPT !.x = 0, !.y = @ + 1] = ScreenOf(vm, 0, y + 1)
    <2>1. s.x = x
      BY <1>1, ScreenFields
    <2>2. [s EXCEPT !.x = 0, !.y = @ + 1] = ScreenOf(vm, 0, y + 1)
      BY ONLY <1>1, NextRow, ZenonT(60)
    <2> QED  BY <2>1, <2>2
  <1>3. Wrapped(s) = IF x >= VGA_WIDTH THEN ScreenOf(vm, 0, y + 1) ELSE s
    BY <1>2 DEF Wrapped
  <1>4. x >= VGA_WIDTH <=> ~(x < W)
    BY ScreenSize DEF W
  <1> QED  BY <1>1, <1>3, <1>4

LEMMA ScrolledIs ==
  ASSUME NEW vm, NEW x, NEW y \in Nat
  PROVE  Scrolled(ScreenOf(vm, x, y)) =
           IF y < H THEN ScreenOf(vm, x, y) ELSE ScreenOf(Shifted(vm), x, H - 1)
  <1>1. PICK s : s = ScreenOf(vm, x, y)
    OBVIOUS
  <1>2. s.y = y /\ s.video_memory = vm
    BY <1>1, ScreenFields
  <1>3. PICK new : new = Shifted(vm)
    OBVIOUS
  <1>4. PICK h : h = H - 1
    OBVIOUS
  <1>5. new = [i \in Cells |-> IF i + VGA_WIDTH \in Cells
                               THEN s.video_memory[i + VGA_WIDTH] ELSE SPACE]
    BY <1>2, <1>3 DEF Shifted, W
  <1>6. Scrolled(s) = IF y < H THEN s ELSE [s EXCEPT !.y = h, !.video_memory = new]
    BY <1>2, <1>4, <1>5 DEF Scrolled, H
  <1>7. [s EXCEPT !.y = h, !.video_memory = new] = [[s EXCEPT !.y = h] EXCEPT !.video_memory = new]
    OBVIOUS
  <1>8. [s EXCEPT !.y = h] = ScreenOf(vm, x, h)
    BY <1>1, SetY
  <1>9. [ScreenOf(vm, x, h) EXCEPT !.video_memory = new] = ScreenOf(new, x, h)
    BY SetMemory
  <1> QED  BY <1>1, <1>3, <1>4, <1>6, <1>7, <1>8, <1>9

LEMMA WrittenIs ==
  ASSUME NEW vm, NEW x, NEW y, NEW ch
  PROVE  Written(ScreenOf(vm, x, y), ch) = ScreenOf([vm EXCEPT ![y * W + x] = ch], x + 1, y)
  <1>1. PICK s : s = ScreenOf(vm, x, y)
    OBVIOUS
  <1>2. PICK c : c = Cursor(s)
    OBVIOUS
  <1>3. s.x = x /\ s.y = y /\ s.video_memory = vm
    BY <1>1, ScreenFields
  <1>4. PICK new : new = [vm EXCEPT ![c] = ch]
    OBVIOUS
  <1>5. [s EXCEPT !.video_memory[c] = ch] = [s EXCEPT !.video_memory = new]
    BY <1>3, <1>4
  <1>6. [s EXCEPT !.video_memory[c] = ch, !.x = @ + 1]
          = [[s EXCEPT !.video_memory[c] = ch] EXCEPT !.x = s.x + 1]
    OBVIOUS
  <1>7. [s EXCEPT !.video_memory = new] = ScreenOf(new, x, y)
    BY <1>1, SetMemory
  <1>8. [ScreenOf(new, x, y) EXCEPT !.x = x + 1] = ScreenOf(new, x + 1, y)
    BY SetX
  <1>9. c = y * W + x
    BY <1>2, <1>3 DEF Cursor, W
  <1>10. Written(s, ch) = ScreenOf(new, x + 1, y)
    BY <1>2, <1>3, <1>5, <1>6, <1>7, <1>8 DEF Written
  <1> QED  BY <1>1, <1>4, <1>9, <1>10

LEMMA ErasedIs ==
  ASSUME NEW vm, NEW x, NEW y
  PROVE  Erased(ScreenOf(vm, x, y)) = ScreenOf([vm EXCEPT ![(y * W + x) - 1] = SPACE], x - 1, y)
  <1>1. PICK s : s = ScreenOf(vm, x, y)
    OBVIOUS
  <1>2. PICK c : c = Cursor(s) - 1
    OBVIOUS
  <1>3. s.x = x /\ s.y = y /\ s.video_memory = vm
    BY <1>1, ScreenFields
  <1>4. PICK new : new = [vm EXCEPT ![c] = SPACE]
    OBVIOUS
  <1>5. [s EXCEPT !.video_memory[c] = SPACE] = [s EXCEPT !.video_memory = new]
    BY <1>3, <1>4
  <1>6. [s EXCEPT !.video_memory[c] = SPACE, !.x = @ - 1]
          = [[s EXCEPT !.video_memory[c] = SPACE] EXCEPT !.x = s.x - 1]
    OBVIOUS
  <1>7. [s EXCEPT !.video_memory = new] = ScreenOf(new, x, y)
    BY <1>1, SetMemory
  <1>8. [ScreenOf(new, x, y) EXCEPT !.x = x - 1] = ScreenOf(new, x - 1, y)
    BY SetX
  <1>9. c = (y * W + x) - 1
    BY <1>2, <1>3 DEF Cursor, W
  <1>10. Erased(s) = ScreenOf(new, x - 1, y)
    BY <1>2, <1>3, <1>5, <1>6, <1>7, <1>8 DEF Erased
  <1> QED  BY <1>1, <1>4, <1>9, <1>10

LEMMA ScreenParts ==
  ASSUME NEW s \in Screens
  PROVE  \E vm \in Memories, x \in 0..W-1, y \in 0..H-1 : s = ScreenOf(vm, x, y)
  <1>1. s = ScreenOf(s.video_memory, s.x, s.y)
    BY DEF Screens, ScreenOf
  <1> QED  BY <1>1 DEF Screens

LEMMA ScreenIs ==
  ASSUME NEW vm \in Memories, NEW x \in 0..W-1, NEW y \in 0..H-1
  PROVE  /\ ScreenOf(vm, x, y) \in Screens
         /\ Cursor(ScreenOf(vm, x, y)) = y * W + x
         /\ y * W + x \in Cells
  <1>1. y * W + x \in Cells
    <2>1. PICK a : a = y * W
      OBVIOUS
    <2>2. a \in Nat /\ a + W <= W * H
      BY <2>1, CursorIn
    <2>3. a + x \in Cells
      BY <2>2, ScreenSize
    <2> QED  BY <2>1, <2>3
  <1> QED  BY <1>1 DEF ScreenOf, Screens, Cursor, W

\* The end of a row and of the screen.
LEMMA Settles ==
  ASSUME NEW vm \in Memories, NEW x \in 0..W, NEW y \in 0..H-1
  PROVE  Scrolled(Wrapped(ScreenOf(vm, x, y))) =
           IF x < W THEN ScreenOf(vm, x, y)
           ELSE IF y + 1 < H THEN ScreenOf(vm, 0, y + 1)
           ELSE ScreenOf(Shifted(vm), 0, H - 1)
  <1>1. x \in Nat /\ y \in Nat /\ y + 1 \in Nat /\ y < H
    BY ScreenSize
  <1>2. CASE x < W
    BY <1>1, <1>2, WrappedIs, ScrolledIs
  <1>3. CASE ~(x < W)
    <2>1. Wrapped(ScreenOf(vm, x, y)) = ScreenOf(vm, 0, y + 1)
      BY <1>1, <1>3, WrappedIs
    <2> QED  BY <1>1, <1>3, <2>1, ScrolledIs
  <1> QED  BY <1>2, <1>3

LEMMA BehindTheRow ==
  ASSUME NEW a \in Nat, NEW x \in 0..W-1, NEW cell \in Cells, a + W <= cell
  PROVE  a + x <= cell
  BY ScreenSize

LEMMA NewRow ==
  ASSUME NEW s \in Screens, NEW t, Shown(s, t),
         NEW r, r = Scrolled(Wrapped([s EXCEPT !.x = 0, !.y = @ + 1]))
  PROVE  r \in Screens /\ Shown(r, <<>>) /\ r.x = 0
  <1>1. PICK vm \in Memories, x \in 0..W-1, y \in 0..H-1 : s = ScreenOf(vm, x, y)
    BY ScreenParts
  <1>2. PICK a : a = y * W
    OBVIOUS
  <1>3. a \in Nat /\ a + W <= W * H /\ (y + 1 < H => (y + 1) * W = a + W)
        /\ (y + 1 >= H => y = H - 1)
    BY <1>2, CursorIn
  <1>4. ShownAt(vm, a + x, t)
    BY <1>1, <1>2, ScreenIs, ScreenFields DEF Shown
  <1>5. r = Scrolled(ScreenOf(vm, 0, y + 1))
    <2>1. [s EXCEPT !.x = 0, !.y = @ + 1] = ScreenOf(vm, 0, y + 1)
      BY ONLY <1>1, NextRow, ZenonT(60)
    <2>2. Wrapped(ScreenOf(vm, 0, y + 1)) = ScreenOf(vm, 0, y + 1)
      BY WrappedIs, ScreenSize, SMTT(40)
    <2> QED  BY <2>1, <2>2
  <1>6. y + 1 \in Nat
    BY ONLY <1>1, ScreenSize
  <1>7. \A cell \in Cells : a + W <= cell => vm[cell] = SPACE
    <2>1. \A cell \in Cells : a + W <= cell => a + x <= cell
      BY <1>3, BehindTheRow
    <2> QED  BY <1>4, <2>1, Zenon DEF ShownAt
  <1>8. CASE y + 1 < H
    <2>1. r = ScreenOf(vm, 0, y + 1)
      BY <1>5, <1>6, <1>8, ScrolledIs
    <2>2. 0 \in 0..W-1 /\ y + 1 \in 0..H-1
      BY <1>8, ScreenSize, SMTT(40)
    <2>3. /\ r \in Screens /\ r.x = 0 /\ r.video_memory = vm
          /\ Cursor(r) = (y + 1) * W + 0 /\ (y + 1) * W + 0 \in Cells
      BY <2>1, <2>2, ScreenIs, ScreenFields
    <2>4. Cursor(r) = a + W
      BY <1>3, <1>8, <2>3, ScreenSize
    <2>5. ShownAt(vm, a + W, <<>>)
      BY <1>3, <1>7, ScreenSize DEF ShownAt
    <2> QED  BY <2>3, <2>4, <2>5 DEF Shown
  <1>9. CASE ~(y + 1 < H)
    <2>1. r = ScreenOf(Shifted(vm), 0, H - 1)
      BY <1>5, <1>6, <1>9, ScrolledIs
    <2>2. PICK b : b = (H - 1) * W
      OBVIOUS
    <2>3. b \in Nat /\ b + W = W * H /\ a = b /\ W * H \in Nat
      <3>1. y + 1 >= H
        BY <1>6, <1>9, ScreenSize
      <3> QED  BY <1>2, <1>3, <2>2, <3>1, ScreenSize
    <2>4. Shifted(vm) \in Memories /\ \A cell \in Cells : b <= cell => Shifted(vm)[cell] = SPACE
      <3>1. Shifted(vm) \in Memories
        BY SpaceIsChar DEF Shifted, Memories
      <3>2. \A cell \in Cells : b <= cell => cell + W \notin Cells
        <4>1. PICK wh \in Nat : wh = W * H
          BY <2>3
        <4>2. Cells = 0 .. wh - 1 /\ b + W = wh /\ W \in Nat
          BY <2>3, <4>1, ScreenSize
        <4> QED  BY ONLY <2>3, <4>1, <4>2, SMTT(40)
      <3> QED  BY <3>1, <3>2 DEF Shifted
    <2>5. 0 \in 0..W-1 /\ H - 1 \in 0..H-1
      BY ScreenSize
    <2>6. /\ r \in Screens /\ r.x = 0 /\ r.video_memory = Shifted(vm)
          /\ Cursor(r) = (H - 1) * W + 0
      BY <2>1, <2>4, <2>5, ScreenIs, ScreenFields
    <2>7. Cursor(r) = b
      BY <2>2, <2>3, <2>6
    <2>8. ShownAt(Shifted(vm), b, <<>>)
      BY <2>3, <2>4 DEF ShownAt
    <2> QED  BY <2>6, <2>7, <2>8 DEF Shown
  <1> QED  BY <1>8, <1>9

LEMMA Settled ==
  ASSUME NEW vm \in Memories, NEW x \in Nat, NEW y \in 0..H
  PROVE  Scrolled(Wrapped(ScreenOf(vm, x, y))) \in Screens
  <1>1. Shifted(vm) \in Memories
    BY SpaceIsChar DEF Shifted, Memories
  <1>2. ASSUME NEW a \in 0..W-1, NEW b \in 0..H+1 PROVE Scrolled(ScreenOf(vm, a, b)) \in Screens
    <2>1. b \in Nat /\ H - 1 \in 0..H-1
      BY ScreenSize
    <2>2. CASE b < H
      <3>1. b \in 0..H-1
        BY <2>1, <2>2, ScreenSize
      <3> QED  BY <2>1, <2>2, <3>1, ScrolledIs, ScreenIs
    <2>3. CASE ~(b < H)
      BY <1>1, <2>1, <2>3, ScrolledIs, ScreenIs
    <2> QED  BY <2>2, <2>3
  <1>3. CASE x < W
    <2>1. x \in 0..W-1 /\ y \in 0..H+1
      BY <1>3, ScreenSize
    <2> QED  BY <1>2, <1>3, <2>1, WrappedIs
  <1>4. CASE ~(x < W)
    <2>1. 0 \in 0..W-1 /\ y + 1 \in 0..H+1
      BY ScreenSize
    <2> QED  BY <1>2, <1>4, <2>1, WrappedIs
  <1> QED  BY <1>3, <1>4

\* Whatever is written, the cursor stays on the screen.
LEMMA StaysOnScreen ==
  ASSUME NEW s \in Screens, NEW ch \in Chars
  PROVE  /\ Scrolled(Wrapped([s EXCEPT !.x = 0, !.y = @ + 1])) \in Screens
         /\ Scrolled(Wrapped([s EXCEPT !.x = 0])) \in Screens
         /\ Scrolled(Wrapped([s EXCEPT !.x = ((@ + 8) \div 8) * 8])) \in Screens
         /\ Scrolled(Wrapped(s)) \in Screens
         /\ s.x # 0 => Scrolled(Wrapped(Erased(s))) \in Screens
         /\ Scrolled(Wrapped(Written(s, ch))) \in Screens
  <1>1. PICK vm \in Memories, x \in 0..W-1, y \in 0..H-1 : s = ScreenOf(vm, x, y)
    BY ScreenParts
  <1>2. s.x = x /\ y * W + x \in Cells
    BY <1>1, ScreenFields, ScreenIs
  <1>3. y \in 0..H /\ y + 1 \in 0..H /\ 0 \in Nat /\ x \in Nat /\ x + 1 \in Nat
    BY ScreenSize
  <1>4. ((x + 8) \div 8) * 8 \in Nat
    BY <1>3
  <1>5. [s EXCEPT !.x = 0, !.y = @ + 1] = ScreenOf(vm, 0, y + 1)
    BY ONLY <1>1, NextRow, ZenonT(60)
  <1>6. [s EXCEPT !.x = 0] = ScreenOf(vm, 0, y)
    BY <1>1, SetX
  <1>7. [s EXCEPT !.x = ((@ + 8) \div 8) * 8] = ScreenOf(vm, ((x + 8) \div 8) * 8, y)
    <2>1. PICK tab : tab = ((x + 8) \div 8) * 8
      OBVIOUS
    <2>2. [s EXCEPT !.x = ((@ + 8) \div 8) * 8] = [s EXCEPT !.x = tab]
      BY <1>2, <2>1
    <2>3. [s EXCEPT !.x = tab] = ScreenOf(vm, tab, y)
      BY <1>1, SetX
    <2> QED  BY <2>1, <2>2, <2>3
  <1>8. Written(s, ch) = ScreenOf([vm EXCEPT ![y * W + x] = ch], x + 1, y)
    BY <1>1, WrittenIs
  <1>9. Erased(s) = ScreenOf([vm EXCEPT ![(y * W + x) - 1] = SPACE], x - 1, y)
    BY <1>1, ErasedIs
  <1>10. [vm EXCEPT ![y * W + x] = ch] \in Memories /\ [vm EXCEPT ![(y * W + x) - 1] = SPACE] \in Memories
    BY SpaceIsChar DEF Memories
  <1>11. s.x # 0 => x - 1 \in Nat
    BY <1>2, <1>3
  <1>12. Scrolled(Wrapped(ScreenOf(vm, ((x + 8) \div 8) * 8, y))) \in Screens
    BY <1>3, <1>4, Settled
  <1> QED  BY <1>1, <1>3, <1>5, <1>6, <1>7, <1>8, <1>9, <1>10, <1>11, <1>12, Settled

\* A text that is shown goes on behind the cursor.
LEMMA WriteScreen ==
  ASSUME NEW s \in Screens, NEW ch \in Chars, NEW t \in Seq(Chars), Len(t) < W, Shown(s, t),
         NEW r, r = Scrolled(Wrapped(Written(s, ch)))
  PROVE  /\ r \in Screens /\ Shown(r, Append(t, ch))
         /\ r.x = IF s.x + 1 = W THEN 0 ELSE s.x + 1
  <1>1. PICK vm \in Memories, x \in 0..W-1, y \in 0..H-1 : s = ScreenOf(vm, x, y)
    BY ScreenParts
  <1>2. PICK a : a = y * W
    OBVIOUS
  <1>3. a \in Nat /\ a + W <= W * H /\ (y + 1 < H => (y + 1) * W = a + W)
        /\ (y + 1 >= H => y = H - 1)
    BY <1>2, CursorIn
  <1>4. s.x = x /\ Cursor(s) = a + x /\ a + x \in Cells /\ s.video_memory = vm
    BY <1>1, <1>2, ScreenFields, ScreenIs
  <1>5. PICK new, u : new = [vm EXCEPT ![a + x] = ch] /\ u = Append(t, ch)
    OBVIOUS
  <1>6. new \in Memories /\ ShownAt(new, a + x + 1, u)
    BY <1>4, <1>5, ShownAfter DEF Shown
  <1>7. Written(s, ch) = ScreenOf(new, x + 1, y) /\ x + 1 \in 0..W
    <2>1. Written(s, ch) = ScreenOf(new, x + 1, y)
      BY ONLY <1>1, <1>2, <1>5, WrittenIs, ZenonT(100)
    <2> QED  BY <2>1, ScreenSize
  <1>8. u \in Seq(Chars) /\ Len(u) = Len(t) + 1 /\ Len(t) \in Nat
    BY <1>5
  <1>9. CASE x + 1 < W
    <2>1. r = ScreenOf(new, x + 1, y) /\ x + 1 \in 0..W-1
      BY <1>6, <1>7, <1>9, Settles, ScreenSize
    <2>2. r \in Screens /\ r.x = x + 1 /\ Cursor(r) = a + (x + 1) /\ r.video_memory = new
      BY <1>2, <1>6, <2>1, ScreenIs, ScreenFields
    <2>3. a + (x + 1) = a + x + 1 /\ x + 1 # W
      BY <1>3, <1>9, ScreenSize
    <2> QED  BY <1>4, <1>5, <1>6, <2>2, <2>3 DEF Shown
  <1>10. CASE x + 1 = W /\ y + 1 < H
    <2>1. r = ScreenOf(new, 0, y + 1) /\ 0 \in 0..W-1 /\ y + 1 \in 0..H-1
      BY <1>6, <1>7, <1>10, Settles, ScreenSize
    <2>2. r \in Screens /\ r.x = 0 /\ Cursor(r) = (y + 1) * W + 0 /\ r.video_memory = new
      BY <1>6, <2>1, ScreenIs, ScreenFields
    <2>3. Cursor(r) = a + x + 1
      BY <1>3, <1>10, <2>2, ScreenSize
    <2> QED  BY <1>4, <1>5, <1>6, <1>10, <2>2, <2>3 DEF Shown
  <1>11. CASE x + 1 = W /\ ~(y + 1 < H)
    <2>1. r = ScreenOf(Shifted(new), 0, H - 1) /\ 0 \in 0..W-1 /\ H - 1 \in 0..H-1
      <3>1. y + 1 \in Nat /\ 0 \in 0..W-1 /\ H - 1 \in 0..H-1
        BY ScreenSize
      <3> QED  BY <1>6, <1>7, <1>11, <3>1, Settles
    <2>2. PICK b : b = (H - 1) * W
      OBVIOUS
    <2>3. b \in Nat /\ b = a /\ a + W = W * H /\ W <= b /\ W \in Nat /\ W * H \in Nat
      <3>1. y = H - 1
        BY <1>3, <1>11, ScreenSize
      <3> QED  BY <1>2, <2>2, <3>1, ScreenSize
    <2>4. PICK c : c = a + x + 1
      OBVIOUS
    <2>5. c \in 0 .. W * H /\ Len(u) + W <= c /\ c - W = b
      BY <1>3, <1>8, <1>11, <2>3, <2>4
    <2>6. Shifted(new) \in Memories /\ ShownAt(Shifted(new), b, u)
      BY <1>6, <1>8, <2>4, <2>5, ShownShifted
    <2>7. r \in Screens /\ r.x = 0 /\ Cursor(r) = (H - 1) * W + 0 /\ r.video_memory = Shifted(new)
      BY <2>1, <2>6, ScreenIs, ScreenFields
    <2>8. Cursor(r) = b
      BY <2>2, <2>3, <2>7
    <2> QED  BY <1>4, <1>5, <1>11, <2>6, <2>7, <2>8 DEF Shown
  <1> QED  BY <1>7, <1>9, <1>10, <1>11, ScreenSize

\* Its last character is erased.
LEMMA EraseScreen ==
  ASSUME NEW s \in Screens, NEW t \in Seq(Chars), t # <<>>, Shown(s, t), s.x # 0,
         NEW r, r = Scrolled(Wrapped(Erased(s)))
  PROVE  r \in Screens /\ Shown(r, Front(t)) /\ r.x = s.x - 1
  <1>1. PICK vm \in Memories, x \in 0..W-1, y \in 0..H-1 : s = ScreenOf(vm, x, y)
    BY ScreenParts
  <1>2. PICK a : a = y * W
    OBVIOUS
  <1>3. a \in Nat /\ a + W <= W * H
    BY <1>2, CursorIn
  <1>4. s.x = x /\ Cursor(s) = a + x /\ a + x \in Cells /\ s.video_memory = vm
    BY <1>1, <1>2, ScreenFields, ScreenIs
  <1>5. PICK new, u : new = [vm EXCEPT ![(a + x) - 1] = SPACE] /\ u = Front(t)
    OBVIOUS
  <1>6. new \in Memories /\ ShownAt(new, (a + x) - 1, u)
    <2>1. PICK c \in Cells : c = a + x
      BY <1>4
    <2>2. ShownAt(vm, c, t)
      BY <1>4, <2>1 DEF Shown
    <2> QED  BY <1>5, <2>1, <2>2, ShownErased
  <1>7. Erased(s) = ScreenOf(new, x - 1, y) /\ x - 1 \in 0..W-1 /\ x - 1 < W /\ x - 1 \in 0..W
    <2>1. Erased(s) = ScreenOf(new, x - 1, y)
      BY <1>1, <1>2, <1>5, ErasedIs
    <2> QED  BY <1>4, <2>1, ScreenSize
  <1>8. r = ScreenOf(new, x - 1, y)
    BY <1>6, <1>7, Settles
  <1>9. r \in Screens /\ r.x = x - 1 /\ Cursor(r) = a + (x - 1) /\ r.video_memory = new
    BY <1>2, <1>6, <1>7, <1>8, ScreenIs, ScreenFields
  <1>10. a + (x - 1) = (a + x) - 1
    BY <1>3, ScreenSize
  <1> QED  BY <1>4, <1>5, <1>6, <1>9, <1>10 DEF Shown
-----------------------------------------------------------------------------
(***************************************************************************)
(* What terminal_puts and print_message do with a sequence of characters:  *)
(* one screen after each.                                                  *)
(***************************************************************************)
Printed(s, c) ==
  Scrolled(Wrapped(
    CASE c = NEWLINE -> [s EXCEPT !.x = 0, !.y = @ + 1]
      [] c = RETURN  -> [s EXCEPT !.x = 0]
      [] OTHER       -> Written(s, c)))

LEMMA CharsApart == NEWLINE # RETURN /\ NEWLINE # TAB /\ NEWLINE # ERASE /\ RETURN # TAB
                    /\ RETURN # ERASE /\ TAB # ERASE
  BY DEF NEWLINE, RETURN, TAB, ERASE

LEMMA OneChar ==
  ASSUME NEW s, NEW c
  PROVE  /\ c = NEWLINE => /\ putchar(s, c) = Scrolled(Wrapped([s EXCEPT !.x = 0, !.y = @ + 1]))
                           /\ Printed(s, c) = Scrolled(Wrapped([s EXCEPT !.x = 0, !.y = @ + 1]))
         /\ c = RETURN => /\ putchar(s, c) = Scrolled(Wrapped([s EXCEPT !.x = 0]))
                          /\ Printed(s, c) = Scrolled(Wrapped([s EXCEPT !.x = 0]))
         /\ c = TAB => putchar(s, c) = Scrolled(Wrapped([s EXCEPT !.x = ((@ + 8) \div 8) * 8]))
         /\ c = ERASE => putchar(s, c) = Scrolled(Wrapped(IF s.x = 0 THEN s ELSE Erased(s)))
         /\ c \notin {NEWLINE, RETURN} => Printed(s, c) = Scrolled(Wrapped(Written(s, c)))
         /\ c \notin {NEWLINE, RETURN, TAB, ERASE} => putchar(s, c) = Scrolled(Wrapped(Written(s, c)))
  <1>1. c = NEWLINE => /\ putchar(s, c) = Scrolled(Wrapped([s EXCEPT !.x = 0, !.y = @ + 1]))
                       /\ Printed(s, c) = Scrolled(Wrapped([s EXCEPT !.x = 0, !.y = @ + 1]))
    BY CharsApart DEF putchar, Printed
  <1>2. c = RETURN => /\ putchar(s, c) = Scrolled(Wrapped([s EXCEPT !.x = 0]))
                      /\ Printed(s, c) = Scrolled(Wrapped([s EXCEPT !.x = 0]))
    BY CharsApart DEF putchar, Printed
  <1>3. c = TAB => putchar(s, c) = Scrolled(Wrapped([s EXCEPT !.x = ((@ + 8) \div 8) * 8]))
    BY CharsApart DEF putchar
  <1>4. c = ERASE => putchar(s, c) = Scrolled(Wrapped(IF s.x = 0 THEN s ELSE Erased(s)))
    BY CharsApart DEF putchar
  <1>5. c \notin {NEWLINE, RETURN} => Printed(s, c) = Scrolled(Wrapped(Written(s, c)))
    BY DEF Printed
  <1>6. c \notin {NEWLINE, RETURN, TAB, ERASE} => putchar(s, c) = Scrolled(Wrapped(Written(s, c)))
    BY DEF putchar
  <1> QED  BY <1>1, <1>2, <1>3, <1>4, <1>5, <1>6

LEMMA OneCharStays ==
  ASSUME NEW s \in Screens, NEW c \in Chars
  PROVE  putchar(s, c) \in Screens /\ Printed(s, c) \in Screens
  <1>1. /\ Scrolled(Wrapped([s EXCEPT !.x = 0, !.y = @ + 1])) \in Screens
        /\ Scrolled(Wrapped([s EXCEPT !.x = 0])) \in Screens
        /\ Scrolled(Wrapped([s EXCEPT !.x = ((@ + 8) \div 8) * 8])) \in Screens
        /\ Scrolled(Wrapped(s)) \in Screens
        /\ s.x # 0 => Scrolled(Wrapped(Erased(s))) \in Screens
        /\ Scrolled(Wrapped(Written(s, c))) \in Screens
    BY StaysOnScreen
  <1>2. CASE c = NEWLINE
    BY <1>1, <1>2, OneChar
  <1>3. CASE c = RETURN
    <2>1. c # NEWLINE
      BY <1>3, CharsApart
    <2> QED  BY <1>1, <1>3, OneChar
  <1>4. CASE c = TAB
    <2>1. c \notin {NEWLINE, RETURN}
      BY <1>4, CharsApart
    <2> QED  BY <1>1, <1>4, <2>1, OneChar
  <1>5. CASE c = ERASE
    <2>1. c \notin {NEWLINE, RETURN}
      BY <1>5, CharsApart
    <2> QED  BY <1>1, <1>5, <2>1, OneChar
  <1>6. CASE c \notin {NEWLINE, RETURN, TAB, ERASE}
    BY <1>1, <1>6, OneChar
  <1> QED  BY <1>2, <1>3, <1>4, <1>5, <1>6

\* The recursion of FoldLeft, as module Folds defines it.
PutsTo(s, str) == CHOOSE iter : iter = [t \in SUBSET DOMAIN str |->
  IF t = {} THEN s ELSE putchar(iter[t \ {Max(t)}], str[Max(t)])]
PrintsTo(s, str) == CHOOSE iter : iter = [t \in SUBSET DOMAIN str |->
  IF t = {} THEN s ELSE Printed(iter[t \ {Max(t)}], str[Max(t)])]

\* Each way to go on, as a function of the place and the screen.
PutStep(str) == [p \in Nat \X Screens |->
  IF p[1] \in 1..Len(str) THEN putchar(p[2], str[p[1]]) ELSE p[2]]
PrintStep(str) == [p \in Nat \X Screens |->
  IF p[1] \in 1..Len(str) THEN Printed(p[2], str[p[1]]) ELSE p[2]]

LEMMA PutsFold ==
  ASSUME NEW s, NEW str
  PROVE  /\ terminal_puts(s, str) = PutsTo(s, str)[DOMAIN str]
         /\ print_message(s, str) = PrintsTo(s, str)[DOMAIN str]
  <1>1. terminal_puts(s, str) = PutsTo(s, str)[DOMAIN str]
    BY DEF terminal_puts, FoldLeft, MapThenFoldSet, PutsTo
  <1>2. print_message(s, str) = PrintsTo(s, str)[DOMAIN str]
    BY DEF print_message, FoldLeft, MapThenFoldSet, PrintsTo, Printed
  <1> QED  BY <1>1, <1>2

LEMMA StepsStay ==
  ASSUME NEW s \in Screens, NEW str \in Seq(Chars)
  PROVE  StaysIn(Screens, s, PutStep(str)) /\ StaysIn(Screens, s, PrintStep(str))
  <1>1. ASSUME NEW n \in Nat, NEW r \in Screens
        PROVE  PutStep(str)[<<n, r>>] \in Screens /\ PrintStep(str)[<<n, r>>] \in Screens
    <2>1. PutStep(str)[<<n, r>>] = IF n \in 1..Len(str) THEN putchar(r, str[n]) ELSE r
      BY DEF PutStep
    <2>2. PrintStep(str)[<<n, r>>] = IF n \in 1..Len(str) THEN Printed(r, str[n]) ELSE r
      BY DEF PrintStep
    <2>3. n \in 1..Len(str) => str[n] \in Chars
      BY ElementOfSeq
    <2> QED  BY <2>1, <2>2, <2>3, OneCharStays
  <1> QED  BY <1>1 DEF StaysIn

LEMMA LastPlace ==
  ASSUME NEW n \in Nat, NEW t \in SUBSET (1..n), t # {}
  PROVE  Max(t) \in t /\ \A y \in t : y <= Max(t)
  <1> DEFINE S == {n - y : y \in t}
  <1>1. S \in SUBSET Nat /\ S # {}
    <2>1. \A y \in t : n - y \in Nat
      OBVIOUS
    <2>2. S # {}
      OBVIOUS
    <2> QED  BY <2>1, <2>2
  <1>2. PICK m \in S : \A k \in S : m <= k
    <2> HIDE DEF S
    <2> QED  BY <1>1, LeastNumber
  <1>3. PICK x \in t : m = n - x
    BY <1>2
  <1>4. \A y \in t : x >= y
    <2> SUFFICES ASSUME NEW y \in t PROVE x >= y
      OBVIOUS
    <2>1. n - x <= n - y
      BY <1>2, <1>3
    <2>2. x \in Nat /\ y \in Nat
      OBVIOUS
    <2> QED  BY <2>1, <2>2
  <1>5. Max(t) \in t /\ \A y \in t : Max(t) >= y
    BY <1>4, Zenon DEF Max
  <1>6. \A y \in t : y \in Nat
    OBVIOUS
  <1> QED  BY <1>5, <1>6

LEMMA LastOfPrefix ==
  ASSUME NEW n \in Nat, NEW k \in 1..n
  PROVE  /\ 1..k \in SUBSET (1..n) /\ 1..k # {} /\ Max(1..k) = k /\ (1..k) \ {k} = 1..(k-1)
  <1>1. 1..k \in SUBSET (1..n) /\ k \in 1..k
    OBVIOUS
  <1>2. Max(1..k) \in 1..k /\ \A y \in 1..k : y <= Max(1..k)
    <2> HIDE DEF Max
    <2>1. 1..k # {}
      BY <1>1
    <2> QED  BY <1>1, <2>1, LastPlace
  <1>3. Max(1..k) = k
    BY <1>1, <1>2
  <1> QED  BY <1>1, <1>3

\* The screens s[0], s[1], ... after none, one, ... of the characters.
PutsWalk(f, s, str) ==
  /\ f[0] = s /\ f[Len(str)] = terminal_puts(s, str)
  /\ \A k \in 1..Len(str) : f[k-1] \in Screens /\ f[k] \in Screens /\ f[k] = putchar(f[k-1], str[k])
PrintWalk(f, s, str) ==
  /\ f[0] = s /\ f[Len(str)] = print_message(s, str)
  /\ \A k \in 1..Len(str) : f[k-1] \in Screens /\ f[k] \in Screens /\ f[k] = Printed(f[k-1], str[k])

LEMMA PutsWalks ==
  ASSUME NEW s \in Screens, NEW str \in Seq(Chars)
  PROVE  \E f : PutsWalk(f, s, str)
  <1>1. PICK n \in Nat : n = Len(str)
    BY LenProperties
  <1>2. DOMAIN str = 1..n /\ \A k \in 1..n : str[k] \in Chars
    BY <1>1, LenProperties, ElementOfSeq
  <1> DEFINE Rec(iter) == [t \in SUBSET (1..n) |->
               IF t = {} THEN s ELSE putchar(iter[t \ {Max(t)}], str[Max(t)])]
  <1>3. \E iter : iter = Rec(iter)
    <2>1. PICK iter : FoldsUp(iter, Screens, n, s, PutStep(str))
      BY StepsStay, Folding
    <2>2. ASSUME NEW t \in SUBSET (1..n), t # {}
          PROVE  iter[t] = putchar(iter[t \ {Max(t)}], str[Max(t)])
      <3>1. PICK x : x = Max(t)
        OBVIOUS
      <3>2. x \in t /\ x \in 1..n /\ \A y \in t : y <= x
        BY <2>2, <3>1, LastPlace
      <3>3. t \ {x} \in SUBSET (1..n)
        OBVIOUS
      <3>4. iter[t] = PutStep(str)[<<x, iter[t \ {x}]>>] /\ iter[t \ {x}] \in Screens
        BY <2>1, <3>2, <3>3 DEF FoldsUp
      <3>5. PutStep(str)[<<x, iter[t \ {x}]>>] = putchar(iter[t \ {x}], str[x])
        BY <1>1, <3>2, <3>4 DEF PutStep
      <3> QED  BY <3>1, <3>4, <3>5
    <2>3. iter = Rec(iter)
      <3>1. iter = [t \in SUBSET (1..n) |-> iter[t]] /\ iter[{}] = s
        BY <2>1 DEF FoldsUp
      <3> QED  BY <2>2, <3>1
    <2> QED  BY <2>3
  <1> DEFINE g == PutsTo(s, str)
  <1>4. g = Rec(g)
    <2>1. g = CHOOSE iter : iter = Rec(iter)
      BY <1>2 DEF PutsTo
    <2> HIDE DEF g, Rec
    <2> QED  BY <1>3, <2>1
  <1> HIDE DEF g
  <1> DEFINE f == [k \in 0..n |-> g[1..k]]
  <1>5. g[{}] = s /\ \A k \in 1..n : g[1..k] = putchar(g[1..(k-1)], str[k])
    <2>1. {} \in SUBSET (1..n)
      OBVIOUS
    <2>2. g[{}] = s
      BY <1>4, <2>1
    <2>3. ASSUME NEW k \in 1..n PROVE g[1..k] = putchar(g[1..(k-1)], str[k])
      <3>1. PICK t : t = 1..k
        OBVIOUS
      <3>2. t \in SUBSET (1..n) /\ t # {} /\ Max(t) = k /\ t \ {k} = 1..(k-1)
        BY <3>1, LastOfPrefix
      <3>3. g[t] = putchar(g[t \ {Max(t)}], str[Max(t)])
        BY <1>4, <3>2
      <3> QED  BY <3>1, <3>2, <3>3
    <2> QED  BY <2>2, <2>3
  <1>6. /\ f[0] = s /\ f[n] = g[1..n]
        /\ \A k \in 1..n : f[k] = putchar(f[k-1], str[k])
    <2>1. 1..0 = {} /\ 0 \in 0..n /\ n \in 0..n
      OBVIOUS
    <2>2. f[0] = s /\ f[n] = g[1..n]
      BY <1>5, <2>1
    <2>3. ASSUME NEW k \in 1..n PROVE f[k] = putchar(f[k-1], str[k])
      <3>1. k \in 0..n /\ k - 1 \in 0..n
        OBVIOUS
      <3>2. f[k] = g[1..k] /\ f[k-1] = g[1..(k-1)]
        BY <3>1
      <3> QED  BY <1>5, <3>2
    <2> QED  BY <2>2, <2>3
  <1> HIDE DEF f
  <1> DEFINE S == {k \in Nat : k <= n => f[k] \in Screens}
  <1>7. S = Nat
    <2>1. 0 \in S
      BY <1>6
    <2>2. ASSUME NEW k \in Nat, k \in S PROVE k + 1 \in S
      <3> SUFFICES ASSUME k + 1 <= n PROVE f[k + 1] \in Screens
        OBVIOUS
      <3>1. k + 1 \in 1..n /\ (k + 1) - 1 = k /\ f[k] \in Screens
        BY <2>2
      <3>2. f[k + 1] = putchar(f[k], str[k + 1])
        BY <1>6, <3>1
      <3> QED  BY <1>2, <3>1, <3>2, OneCharStays
    <2>3. S \in SUBSET Nat
      OBVIOUS
    <2> HIDE DEF S
    <2> QED  BY <2>1, <2>2, <2>3, AllNumbers
  <1>8. \A k \in 1..n : f[k-1] \in Screens /\ f[k] \in Screens
    <2> SUFFICES ASSUME NEW k \in 1..n PROVE f[k-1] \in Screens /\ f[k] \in Screens
      OBVIOUS
    <2>1. k \in Nat /\ k - 1 \in Nat /\ k <= n /\ k - 1 <= n
      OBVIOUS
    <2> QED  BY <1>7, <2>1
  <1>9. terminal_puts(s, str) = g[1..n]
    BY <1>2, PutsFold DEF g
  <1>10. PutsWalk(f, s, str)
    BY <1>1, <1>6, <1>8, <1>9 DEF PutsWalk
  <1> QED  BY <1>10

LEMMA PrintWalks ==
  ASSUME NEW s \in Screens, NEW str \in Seq(Chars)
  PROVE  \E f : PrintWalk(f, s, str)
  <1>1. PICK n \in Nat : n = Len(str)
    BY LenProperties
  <1>2. DOMAIN str = 1..n /\ \A k \in 1..n : str[k] \in Chars
    BY <1>1, LenProperties, ElementOfSeq
  <1> DEFINE Rec(iter) == [t \in SUBSET (1..n) |->
               IF t = {} THEN s ELSE Printed(iter[t \ {Max(t)}], str[Max(t)])]
  <1>3. \E iter : iter = Rec(iter)
    <2>1. PICK iter : FoldsUp(iter, Screens, n, s, PrintStep(str))
      BY StepsStay, Folding
    <2>2. ASSUME NEW t \in SUBSET (1..n), t # {}
          PROVE  iter[t] = Printed(iter[t \ {Max(t)}], str[Max(t)])
      <3>1. PICK x : x = Max(t)
        OBVIOUS
      <3>2. x \in t /\ x \in 1..n /\ \A y \in t : y <= x
        BY <2>2, <3>1, LastPlace
      <3>3. t \ {x} \in SUBSET (1..n)
        OBVIOUS
      <3>4. iter[t] = PrintStep(str)[<<x, iter[t \ {x}]>>] /\ iter[t \ {x}] \in Screens
        BY <2>1, <3>2, <3>3 DEF FoldsUp
      <3>5. PrintStep(str)[<<x, iter[t \ {x}]>>] = Printed(iter[t \ {x}], str[x])
        BY <1>1, <3>2, <3>4 DEF PrintStep
      <3> QED  BY <3>1, <3>4, <3>5
    <2>3. iter = Rec(iter)
      <3>1. iter = [t \in SUBSET (1..n) |-> iter[t]] /\ iter[{}] = s
        BY <2>1 DEF FoldsUp
      <3> QED  BY <2>2, <3>1
    <2> QED  BY <2>3
  <1> DEFINE g == PrintsTo(s, str)
  <1>4. g = Rec(g)
    <2>1. g = CHOOSE iter : iter = Rec(iter)
      BY <1>2 DEF PrintsTo
    <2> HIDE DEF g, Rec
    <2> QED  BY <1>3, <2>1
  <1> HIDE DEF g
  <1> DEFINE f == [k \in 0..n |-> g[1..k]]
  <1>5. g[{}] = s /\ \A k \in 1..n : g[1..k] = Printed(g[1..(k-1)], str[k])
    <2>1. {} \in SUBSET (1..n)
      OBVIOUS
    <2>2. g[{}] = s
      BY <1>4, <2>1
    <2>3. ASSUME NEW k \in 1..n PROVE g[1..k] = Printed(g[1..(k-1)], str[k])
      <3>1. PICK t : t = 1..k
        OBVIOUS
      <3>2. t \in SUBSET (1..n) /\ t # {} /\ Max(t) = k /\ t \ {k} = 1..(k-1)
        BY <3>1, LastOfPrefix
      <3>3. g[t] = Printed(g[t \ {Max(t)}], str[Max(t)])
        BY <1>4, <3>2
      <3> QED  BY <3>1, <3>2, <3>3
    <2> QED  BY <2>2, <2>3
  <1>6. /\ f[0] = s /\ f[n] = g[1..n]
        /\ \A k \in 1..n : f[k] = Printed(f[k-1], str[k])
    <2>1. 1..0 = {} /\ 0 \in 0..n /\ n \in 0..n
      OBVIOUS
    <2>2. f[0] = s /\ f[n] = g[1..n]
      BY <1>5, <2>1
    <2>3. ASSUME NEW k \in 1..n PROVE f[k] = Printed(f[k-1], str[k])
      <3>1. k \in 0..n /\ k - 1 \in 0..n
        OBVIOUS
      <3>2. f[k] = g[1..k] /\ f[k-1] = g[1..(k-1)]
        BY <3>1
      <3> QED  BY <1>5, <3>2
    <2> QED  BY <2>2, <2>3
  <1> HIDE DEF f
  <1> DEFINE S == {k \in Nat : k <= n => f[k] \in Screens}
  <1>7. S = Nat
    <2>1. 0 \in S
      BY <1>6
    <2>2. ASSUME NEW k \in Nat, k \in S PROVE k + 1 \in S
      <3> SUFFICES ASSUME k + 1 <= n PROVE f[k + 1] \in Screens
        OBVIOUS
      <3>1. k + 1 \in 1..n /\ (k + 1) - 1 = k /\ f[k] \in Screens
        BY <2>2
      <3>2. f[k + 1] = Printed(f[k], str[k + 1])
        BY <1>6, <3>1
      <3> QED  BY <1>2, <3>1, <3>2, OneCharStays
    <2>3. S \in SUBSET Nat
      OBVIOUS
    <2> HIDE DEF S
    <2> QED  BY <2>1, <2>2, <2>3, AllNumbers
  <1>8. \A k \in 1..n : f[k-1] \in Screens /\ f[k] \in Screens
    <2> SUFFICES ASSUME NEW k \in 1..n PROVE f[k-1] \in Screens /\ f[k] \in Screens
      OBVIOUS
    <2>1. k \in Nat /\ k - 1 \in Nat /\ k <= n /\ k - 1 <= n
      OBVIOUS
    <2> QED  BY <1>7, <2>1
  <1>9. print_message(s, str) = g[1..n]
    BY <1>2, PutsFold DEF g
  <1>10. PrintWalk(f, s, str)
    BY <1>1, <1>6, <1>8, <1>9 DEF PrintWalk
  <1> QED  BY <1>10
-----------------------------------------------------------------------------
(***************************************************************************)
(* The screen's type: whatever is written, the cursor stays on the screen, *)
(* so that every character has a cell.                                     *)
(***************************************************************************)
LEMMA WritingStays ==
  ASSUME NEW s \in Screens, NEW str \in Seq(Chars)
  PROVE  terminal_puts(s, str) \in Screens /\ print_message(s, str) \in Screens
  <1>1. PICK f : PutsWalk(f, s, str)
    BY PutsWalks
  <1>2. PICK g : PrintWalk(g, s, str)
    BY PrintWalks
  <1>3. PICK n \in Nat : n = Len(str)
    BY LenProperties
  <1>4. CASE n = 0
    BY <1>1, <1>2, <1>3, <1>4 DEF PutsWalk, PrintWalk
  <1>5. CASE n # 0
    <2>1. n \in 1..n
      BY <1>5
    <2> QED  BY <1>1, <1>2, <1>3, <2>1 DEF PutsWalk, PrintWalk
  <1> QED  BY <1>4, <1>5

LEMMA PromptChars ==
  /\ Prompt \in Seq(Chars) /\ <<NEWLINE>> \o Prompt \in Seq(Chars)
  /\ <<NEWLINE>> \in Seq(Chars) /\ NEWLINE \in Chars /\ ERASE \in Chars
  /\ \A i \in 1..Len(Prompt) : Prompt[i] \in Chars /\ Prompt[i] \notin {NEWLINE, RETURN}
  <1>1. \A i \in 1..Len(Prompt) : Prompt[i] \in Chars /\ Prompt[i] \notin {NEWLINE, RETURN}
    <2>1. Prompt \in Seq(Chars \ {NEWLINE, RETURN})
      BY PromptAssumption DEF Chars
    <2>2. \A i \in 1..Len(Prompt) : Prompt[i] \in Chars \ {NEWLINE, RETURN}
      BY <2>1, ElementOfSeq
    <2> QED  BY <2>2
  <1>2. Prompt \in Seq(Chars)
    <2>1. Prompt \in Seq(Chars \ {NEWLINE, RETURN})
      BY PromptAssumption DEF Chars
    <2> QED  BY <2>1
  <1>3. NEWLINE \in Chars /\ ERASE \in Chars
    <2>1. 28 \in 0..127 /\ 14 \in 0..127 /\ FALSE \in BOOLEAN
      OBVIOUS
    <2>2. NEWLINE \in Chars
      BY <2>1, Zenon DEF NEWLINE, Chars
    <2>3. ERASE \in Chars
      BY <2>1, Zenon DEF ERASE, Chars
    <2> QED  BY <2>2, <2>3
  <1>4. <<NEWLINE>> \in Seq(Chars)
    BY <1>3
  <1> QED  BY <1>1, <1>2, <1>3, <1>4, ConcatProperties

LEMMA EchoChars ==
  ASSUME NEW c \in Chars
  PROVE  Echo(c) \in Seq(Chars)
  <1>1. <<c>> \in Seq(Chars) /\ <<NEWLINE>> \in Seq(Chars) /\ <<>> \in Seq(Chars)
    BY PromptChars, EmptySeq
  <1>2. <<ERASE, SPACE, ERASE>> \in Seq(Chars)
    <2>1. ASSUME NEW a \in Chars, NEW b \in Chars PROVE <<a, b, a>> \in Seq(Chars)
      OBVIOUS
    <2> QED  BY <2>1, PromptChars, SpaceIsChar
  <1>3. Echo(c) \in {<<c>>, <<NEWLINE>>, <<>>, <<ERASE, SPACE, ERASE>>}
    BY DEF Echo
  <1> QED  BY <1>1, <1>2, <1>3

LEMMA ScreenInit == PathInit => screen \in Screens
  <1> SUFFICES ASSUME PathInit PROVE screen \in Screens
    OBVIOUS
  <1>1. screen = ScreenOf([i \in Cells |-> SPACE], 0, 0)
    BY DEF PathInit, Cleared, ScreenOf
  <1>2. [i \in Cells |-> SPACE] \in Memories /\ 0 \in 0..W-1 /\ 0 \in 0..H-1
    BY SpaceIsChar, ScreenSize DEF Memories
  <1> QED  BY <1>1, <1>2, ScreenIs

\* Which steps write.
LEMMA ScreenSteps ==
  ASSUME [PathNext]_vars
  PROVE  \/ UNCHANGED screen
         \/ Sti /\ screen' = print_message(screen, <<NEWLINE>> \o Prompt)
         \/ LineFull /\ screen' \in {screen, print_message(screen, Prompt)}
         \/ /\ Edit
            /\ screen' \in {terminal_puts(screen, Echo(char)),
                            print_message(terminal_puts(screen, Echo(char)), Prompt)}
  <1>1. ASSUME NEW key \in Keys, Press(key) \/ Release(key) PROVE UNCHANGED screen
    BY <1>1 DEF Press, Release, login
  <1>2. ASSUME NEW irq \in {TIMER, KEYBOARD}, Interrupt(irq) PROVE UNCHANGED screen
    BY <1>2 DEF Interrupt, login
  <1>3. ASSUME TimerTick \/ Handler \/ UNCHANGED vars PROVE UNCHANGED screen
    BY <1>3 DEF TimerTick, Handler, timer_handler, keyboard_interrupt_handler, StubEoi, Iret,
                vars, login
  <1>4. ASSUME EnableIrqs \/ InitDrivers \/ GetChar \/ Hlt PROVE UNCHANGED screen
    BY <1>4 DEF EnableIrqs, InitDrivers, GetChar, Hlt
  <1>5. ASSUME Sti PROVE screen' = print_message(screen, <<NEWLINE>> \o Prompt)
    BY <1>5 DEF Sti
  <1>6. ASSUME NEW text, NEW shown, ReturnLine(text, shown)
        PROVE  screen' \in {shown, print_message(shown, Prompt)}
    BY <1>6 DEF ReturnLine
  <1>7. ASSUME LineFull PROVE screen' \in {screen, print_message(screen, Prompt)}
    BY <1>6, <1>7 DEF LineFull
  <1>8. ASSUME Edit
        PROVE  screen' \in {terminal_puts(screen, Echo(char)),
                            print_message(terminal_puts(screen, Echo(char)), Prompt)}
    BY <1>6, <1>8 DEF Edit
  <1> QED  BY <1>1, <1>2, <1>3, <1>4, <1>5, <1>7, <1>8 DEF PathNext, User, Main

LEMMA ScreenStep == PathInv /\ screen \in Screens /\ [PathNext]_vars => (screen \in Screens)'
  <1> SUFFICES ASSUME PathInv, screen \in Screens, [PathNext]_vars PROVE screen' \in Screens
    OBVIOUS
  <1>1. char \in Chars
    BY DEF PathInv, TypeInv, TypeOK, Chars
  <1>2. Echo(char) \in Seq(Chars)
    BY <1>1, EchoChars
  <1>3. Prompt \in Seq(Chars) /\ <<NEWLINE>> \o Prompt \in Seq(Chars)
    BY PromptChars
  <1>4. PICK shown : shown = terminal_puts(screen, Echo(char))
    OBVIOUS
  <1>5. shown \in Screens
    BY <1>2, <1>4, WritingStays
  <1>6. screen' \in {screen, print_message(screen, <<NEWLINE>> \o Prompt),
                     print_message(screen, Prompt), shown, print_message(shown, Prompt)}
    BY <1>4, ScreenSteps
  <1>7. /\ print_message(screen, <<NEWLINE>> \o Prompt) \in Screens
        /\ print_message(screen, Prompt) \in Screens /\ print_message(shown, Prompt) \in Screens
    BY <1>3, <1>5, WritingStays
  <1> QED  BY <1>5, <1>6, <1>7

(***************************************************************************)
(* Every variable of the path keeps its type.  For the screen this says    *)
(* that print_message and putchar, which put a character into VGA memory   *)
(* without a look at the cursor, always find the cursor on the screen.     *)
(***************************************************************************)
THEOREM PathTypeCorrect == PathSpec => []PathTypeOK
  <1>1. screen \in Screens => ScreenOK
    BY DEF Screens, Memories, ScreenOK, Chars, W, H
  <1>2. PathVarsOK /\ ScreenOK => PathTypeOK
    BY DEF PathTypeOK
  <1>3. PathInit => screen \in Screens
    BY ScreenInit
  <1>4. PathInv /\ screen \in Screens /\ [PathNext]_vars => (screen \in Screens)'
    BY ScreenStep
  <1> QED  BY <1>1, <1>2, <1>3, <1>4, PathInvariant, PathTypesHold, PTL DEF PathSpec
-----------------------------------------------------------------------------
(***************************************************************************)
(* What a reader sees.  print_message shows its message behind the cursor, *)
(* from the left margin on when the row is full; terminal_get_line shows   *)
(* each character of the line and takes the last one away again.           *)
(***************************************************************************)
LEMMA LongerPrefix ==
  ASSUME NEW S, NEW msg \in Seq(S), NEW k \in 0..Len(msg)
  PROVE  /\ SubSeq(msg, 1, k) \in Seq(S) /\ Len(SubSeq(msg, 1, k)) = k
         /\ k < Len(msg) => SubSeq(msg, 1, k + 1) = Append(SubSeq(msg, 1, k), msg[k + 1])
  <1>1. PICK n \in Nat : n = Len(msg)
    BY LenProperties
  <1>2. \A i \in 1..n : msg[i] \in S
    BY <1>1, ElementOfSeq
  <1>3. ASSUME NEW j \in 0..n
        PROVE  /\ SubSeq(msg, 1, j) \in Seq(S) /\ Len(SubSeq(msg, 1, j)) = j
               /\ \A i \in 1..j : SubSeq(msg, 1, j)[i] = msg[i]
    <2>1. 1 \in Int /\ j \in Int /\ \A i \in 1..j : msg[i] \in S
      BY <1>2
    <2>2. /\ SubSeq(msg, 1, j) \in Seq(S)
          /\ Len(SubSeq(msg, 1, j)) = IF 1 <= j THEN j - 1 + 1 ELSE 0
          /\ \A i \in 1 .. j - 1 + 1 : SubSeq(msg, 1, j)[i] = msg[1 + i - 1]
      BY ONLY <2>1, SubSeqProperties
    <2>3. j - 1 + 1 = j /\ (~(1 <= j) => j = 0) /\ \A i \in 1..j : 1 + i - 1 = i
      OBVIOUS
    <2> QED  BY <2>2, <2>3
  <1>4. ASSUME k < n PROVE SubSeq(msg, 1, k + 1) = Append(SubSeq(msg, 1, k), msg[k + 1])
    <2>1. PICK a, b, c : a = SubSeq(msg, 1, k) /\ b = SubSeq(msg, 1, k + 1) /\ c = msg[k + 1]
      OBVIOUS
    <2>2. k \in 0..n /\ k + 1 \in 0..n /\ k + 1 \in 1..n /\ k \in Nat
      BY <1>1, <1>4
    <2>3. a \in Seq(S) /\ Len(a) = k /\ c \in S /\ \A i \in 1..k : a[i] = msg[i]
      BY <1>2, <1>3, <2>1, <2>2
    <2>4. b \in Seq(S) /\ Len(b) = k + 1 /\ \A i \in 1..k+1 : b[i] = msg[i]
      BY <1>3, <2>1, <2>2
    <2>5. /\ Append(a, c) \in Seq(S) /\ Len(Append(a, c)) = k + 1
          /\ \A i \in 1..k : Append(a, c)[i] = a[i] /\ Append(a, c)[k + 1] = c
      BY <2>2, <2>3, AppendProperties
    <2>6. ASSUME NEW i \in 1..k+1 PROVE b[i] = Append(a, c)[i]
      <3>1. CASE i \in 1..k
        BY <2>3, <2>4, <2>5, <3>1
      <3>2. CASE i = k + 1
        <4>1. Append(a, c)[k + 1] = c
          BY <2>3, AppendProperties
        <4> QED  BY <2>1, <2>4, <3>2, <4>1
      <3>3. i \in 1..k \/ i = k + 1
        OBVIOUS
      <3> QED  BY ONLY <3>1, <3>2, <3>3
    <2>7. b = Append(a, c)
      BY <2>4, <2>5, <2>6, SeqEqual
    <2> QED  BY <2>1, <2>7
  <1> QED  BY <1>1, <1>3, <1>4

LEMMA FrontElements ==
  ASSUME NEW S, NEW s \in Seq(S), s # <<>>
  PROVE  \A i \in 1 .. Len(s) - 1 : Front(s)[i] = s[i]
  <1>1. PICK n \in Nat : n = Len(s) - 1
    BY EmptySeq
  <1>2. Front(s) = SubSeq(s, 1, n)
    BY <1>1 DEF Front
  <1>3. \A i \in 1..n : s[i] \in S
    BY <1>1
  <1>4. 1 \in Int /\ n \in Int /\ \A i \in 1..n : i \in 1 .. n - 1 + 1 /\ 1 + i - 1 = i
    OBVIOUS
  <1>5. \A i \in 1 .. n - 1 + 1 : SubSeq(s, 1, n)[i] = s[1 + i - 1]
    BY ONLY <1>3, <1>4, SubSeqProperties
  <1>6. \A i \in 1..n : SubSeq(s, 1, n)[i] = s[i]
    BY <1>4, <1>5
  <1> QED  BY <1>1, <1>2, <1>6

LEMMA FrontAppended ==
  ASSUME NEW S, NEW u \in Seq(S), NEW c \in S
  PROVE  Front(Append(u, c)) = u
  <1>0. PICK n \in Nat : n = Len(u)
    BY LenProperties
  <1>1. PICK a : a = Append(u, c) /\ n = Len(u)
    BY <1>0
  <1>2. a \in Seq(S) /\ a # <<>> /\ Len(a) = n + 1 /\ \A i \in 1..n : a[i] = u[i]
    BY <1>1, AppendProperties
  <1>3. Front(a) \in Seq(S) /\ Len(Front(a)) = n
    BY <1>2, FrontIsShorter
  <1>4. \A i \in 1..n : Front(a)[i] = a[i]
    <2>1. Len(a) - 1 = n
      BY <1>2
    <2> QED  BY <1>2, <2>1, FrontElements
  <1>5. PICK w : w = Front(a)
    OBVIOUS
  <1>6. w \in Seq(S) /\ Len(w) = Len(u) /\ \A i \in 1..Len(u) : w[i] = u[i]
    BY <1>1, <1>2, <1>3, <1>4, <1>5
  <1>7. w = u
    BY ONLY <1>6, u \in Seq(S), SeqEqual
  <1> QED  BY <1>1, <1>5, <1>7

LEMMA PlacesOfBoth ==
  ASSUME NEW n \in Nat, NEW k \in Nat, NEW i \in 1 .. n + k
  PROVE  i \in 1 .. n + (k + 1) /\ (~(i <= n) => i - n \in 1..k)
  OBVIOUS

LEMMA FrontOfBoth ==
  ASSUME NEW S, NEW u \in Seq(S), NEW t \in Seq(S), t # <<>>
  PROVE  u \o t # <<>> /\ Front(u \o t) = u \o Front(t)
  <1>1. PICK n \in Nat, k \in Nat : n = Len(u) /\ Len(t) = k + 1
    <2>1. Len(u) \in Nat /\ Len(t) \in Nat /\ Len(t) # 0
      BY EmptySeq
    <2>2. Len(t) - 1 \in Nat /\ Len(t) = (Len(t) - 1) + 1
      BY ONLY <2>1
    <2> QED  BY <2>1, <2>2
  <1>2. PICK a, b, f : a = u \o t /\ f = Front(t) /\ b = u \o f
    OBVIOUS
  <1>3. /\ a \in Seq(S) /\ Len(a) = n + (k + 1)
        /\ \A i \in 1 .. n + (k + 1) : a[i] = IF i <= n THEN u[i] ELSE t[i - n]
    <2>1. /\ a \in Seq(S) /\ Len(a) = Len(u) + Len(t)
          /\ \A i \in 1 .. Len(u) + Len(t) : a[i] = IF i <= Len(u) THEN u[i] ELSE t[i - Len(u)]
      BY <1>2, ConcatProperties
    <2> QED  BY <1>1, <2>1
  <1>4. f \in Seq(S) /\ Len(f) = k /\ \A i \in 1..k : f[i] = t[i]
    <2>1. f \in Seq(S) /\ Len(f) = Len(t) - 1 /\ \A i \in 1 .. Len(t) - 1 : f[i] = t[i]
      BY <1>2, FrontIsShorter, FrontElements
    <2>2. Len(t) - 1 = k
      BY <1>1
    <2> QED  BY <2>1, <2>2
  <1>5. /\ b \in Seq(S) /\ Len(b) = n + k
        /\ \A i \in 1 .. n + k : b[i] = IF i <= n THEN u[i] ELSE f[i - n]
    BY <1>1, <1>2, <1>4, ConcatProperties
  <1>6. a # <<>>
    <2>1. Len(a) # 0
      BY <1>3
    <2> QED  BY <2>1
  <1>7. PICK w : w = Front(a)
    OBVIOUS
  <1>8. w \in Seq(S) /\ Len(w) = n + k /\ \A i \in 1 .. n + k : w[i] = a[i]
    <2>1. Len(a) - 1 = n + k
      BY <1>3
    <2> QED  BY <1>3, <1>6, <1>7, <2>1, FrontIsShorter, FrontElements
  <1>9. ASSUME NEW i \in 1 .. n + k PROVE w[i] = b[i]
    <2>1. i \in 1 .. n + (k + 1) /\ (~(i <= n) => i - n \in 1..k)
      BY PlacesOfBoth
    <2>2. w[i] = a[i]
      BY <1>8
    <2>3. a[i] = IF i <= n THEN u[i] ELSE t[i - n]
      BY <1>3, <2>1
    <2>4. b[i] = IF i <= n THEN u[i] ELSE f[i - n]
      BY <1>5
    <2>5. ~(i <= n) => f[i - n] = t[i - n]
      BY <1>4, <2>1
    <2> QED  BY ONLY <2>2, <2>3, <2>4, <2>5
  <1>10. w = b
    BY <1>5, <1>8, <1>9, SeqEqual
  <1> QED  BY <1>2, <1>6, <1>7, <1>10

LEMMA AppendToBoth ==
  ASSUME NEW u \in Seq(Chars), NEW t \in Seq(Chars), NEW c \in Chars
  PROVE  Append(u \o t, c) = u \o Append(t, c)
  <1>1. <<c>> \in Seq(Chars) /\ u \o t \in Seq(Chars)
    BY ConcatProperties
  <1>2. Append(u \o t, c) = (u \o t) \o <<c>> /\ Append(t, c) = t \o <<c>>
    BY <1>1, AppendIsConcat
  <1> QED  BY <1>1, <1>2, ConcatAssociative

LEMMA ColumnOf ==
  ASSUME NEW s \in Screens
  PROVE  s.x \in Nat /\ s.x < W
  BY ScreenSize DEF Screens

\* Another character on a row of W.
LEMMA NextColumn ==
  ASSUME NEW w \in Nat \ {0}, NEW x \in Nat, NEW m, m = x % w
  PROVE  (x + 1) % w = IF m + 1 = w THEN 0 ELSE m + 1
  <1>1. m \in 0..w-1 /\ (m + 1) % w = (x + 1) % w
    <2>1. x % w \in 0..w-1
      OBVIOUS
    <2> QED  BY <2>1, ModNext
  <1>2. ASSUME NEW k \in 0..w-1 PROVE (k + 1) % w = IF k + 1 = w THEN 0 ELSE k + 1
    BY SMTT(40)
  <1> QED  BY <1>1, <1>2

LEMMA NextPlace ==
  ASSUME NEW a \in Nat, NEW k \in Nat, NEW n \in Nat, k + 1 <= n
  PROVE  /\ k <= n /\ k < n /\ k \in 0..n /\ k + 1 \in 1..n /\ a + (k + 1) \in 1 .. a + n
         /\ (a + (k + 1)) - 1 = a + k
  OBVIOUS

\* From screen a of the walk on, print_message prints the message msg.
LEMMA MessageShown ==
  ASSUME NEW s, NEW str, NEW f, PrintWalk(f, s, str),
         NEW a \in Nat, NEW msg \in Seq(Chars), Len(str) = a + Len(msg), Len(msg) < W,
         \A i \in 1..Len(msg) : str[a + i] = msg[i] /\ msg[i] \notin {NEWLINE, RETURN},
         f[a] \in Screens, Shown(f[a], <<>>),
         NEW r, r = print_message(s, str)
  PROVE  r \in Screens /\ Shown(r, msg) /\ r.x = (f[a].x + Len(msg)) % W
  <1>1. PICK n \in Nat : n = Len(msg)
    BY LenProperties
  <1>2. PICK x : x = f[a].x
    OBVIOUS
  <1>3. x \in Nat /\ x < W /\ W \in Nat \ {0} /\ n < W
    BY <1>1, <1>2, ScreenSize, ColumnOf
  <1> DEFINE Good(k) == /\ f[a + k] \in Screens /\ Shown(f[a + k], SubSeq(msg, 1, k))
                        /\ f[a + k].x = (x + k) % W
             S == {k \in Nat : k <= n => Good(k)}
  <1>4. 0 \in S
    <2>1. SubSeq(msg, 1, 0) = <<>> /\ a + 0 = a /\ (x + 0) % W = x
      <3>1. SubSeq(msg, 1, 0) = <<>>
        BY SubSeqEmpty
      <3>2. a + 0 = a
        OBVIOUS
      <3>3. x + 0 = x /\ x % W = x
        BY <1>3
      <3> QED  BY <3>1, <3>2, <3>3
    <2>2. Good(0)
      BY <1>2, <2>1
    <2> QED  BY <2>2
  <1>5. ASSUME NEW k \in Nat, k \in S PROVE k + 1 \in S
    <2> SUFFICES ASSUME k + 1 <= n PROVE Good(k + 1)
      OBVIOUS
    <2>1. k <= n /\ k < n /\ k \in 0..n /\ k + 1 \in 1..n /\ a + (k + 1) \in 1 .. a + n
          /\ (a + (k + 1)) - 1 = a + k
      BY NextPlace
    <2>2. PICK p, q, t, c : p = f[a + k] /\ q = f[a + (k + 1)] /\ t = SubSeq(msg, 1, k) /\ c = msg[k + 1]
      OBVIOUS
    <2>3. p \in Screens /\ Shown(p, t) /\ p.x = (x + k) % W
      BY <1>5, <2>1, <2>2
    <2>4. c \in Chars /\ c \notin {NEWLINE, RETURN} /\ str[a + (k + 1)] = c
      BY <1>1, <2>1, <2>2, ElementOfSeq
    <2>5. t \in Seq(Chars) /\ Len(t) = k /\ SubSeq(msg, 1, k + 1) = Append(t, c)
      <3>1. k \in 0..Len(msg) /\ k < Len(msg)
        BY <1>1, <2>1
      <3> QED  BY <2>2, <3>1, LongerPrefix
    <2>6. q = Printed(p, c)
      BY <1>1, <2>1, <2>2, <2>4 DEF PrintWalk
    <2>7. q = Scrolled(Wrapped(Written(p, c)))
      BY <2>4, <2>6, OneChar
    <2>8. Len(t) < W
      BY <1>3, <2>1, <2>5
    <2>9. q \in Screens /\ Shown(q, Append(t, c)) /\ q.x = IF p.x + 1 = W THEN 0 ELSE p.x + 1
      BY <2>3, <2>4, <2>5, <2>7, <2>8, WriteScreen
    <2>10. q.x = (x + (k + 1)) % W
      <3>1. PICK m : m = p.x
        OBVIOUS
      <3>2. m = (x + k) % W /\ m \in 0..W-1 /\ q.x = IF m + 1 = W THEN 0 ELSE m + 1
        BY <2>3, <2>9, <3>1 DEF Screens
      <3>3. PICK y \in Nat : y = x + k
        BY <1>3
      <3>4. y + 1 = x + (k + 1)
        BY <1>3, <3>3
      <3>5. (y + 1) % W = IF m + 1 = W THEN 0 ELSE m + 1
        BY <1>3, <3>2, <3>3, NextColumn
      <3> QED  BY <3>2, <3>4, <3>5
    <2> QED  BY <2>2, <2>5, <2>9, <2>10
  <1> HIDE DEF Good
  <1>6. S = Nat
    <2>1. S \in SUBSET Nat
      OBVIOUS
    <2> HIDE DEF S
    <2> QED  BY <1>4, <1>5, <2>1, AllNumbers
  <1>7. Good(n)
    BY <1>6
  <1>8. SubSeq(msg, 1, n) = msg
    BY <1>1, SubSeqFull
  <1>9. r = f[a + n]
    BY <1>1 DEF PrintWalk
  <1> QED  BY <1>1, <1>2, <1>7, <1>8, <1>9 DEF Good
-----------------------------------------------------------------------------
(***************************************************************************)
(* The columns at which login_prompt's prompt ends: behind a line that     *)
(* filled its buffer the next prompt starts where that line ended.         *)
(***************************************************************************)
PromptEnd == Len(Prompt)
SecondEnd == (PromptEnd + (PromptEnd + (max_length - 1))) % W

LEMMA PromptFits ==
  /\ PromptEnd \in Nat /\ SecondEnd \in Nat /\ max_length - 1 \in Nat
  /\ PromptEnd + (max_length - 1) < W /\ SecondEnd + (max_length - 1) < W
  /\ PromptEnd < W /\ PromptEnd % W = PromptEnd
  <1>1. PICK n \in Nat : n = PromptEnd
    BY PromptChars, LenProperties DEF PromptEnd
  <1>2. PICK m \in Nat : m = max_length - 1
    BY MaxLengthAssumption
  <1>3. W \in Nat \ {0}
    BY ScreenSize
  <1>4. n + m < W
    BY <1>1, <1>2, PromptAssumption, <1>3 DEF PromptEnd, W
  <1>5. 2 * n + max_length - 1 = n + (n + m)
    BY <1>2, MaxLengthAssumption
  <1>6. SecondEnd = (2 * n + max_length - 1) % W
    BY <1>1, <1>2, <1>5 DEF SecondEnd
  <1>7. ((2 * n + max_length - 1) % W) + max_length - 1 < W
    BY <1>1, PromptAssumption DEF PromptEnd, W
  <1>8. PICK e : e = SecondEnd
    OBVIOUS
  <1>9. e \in Nat
    <2>1. n + (n + m) \in Nat
      OBVIOUS
    <2> QED  BY <1>3, <1>5, <1>6, <1>8, <2>1
  <1>10. e + m < W
    BY <1>2, <1>6, <1>7, <1>8, <1>9, MaxLengthAssumption
  <1>11. n < W /\ n % W = n
    BY <1>3, <1>4
  <1> QED  BY <1>1, <1>2, <1>4, <1>8, <1>9, <1>10, <1>11

\* The prompt, from the cursor on.
LEMMA PromptShown ==
  ASSUME NEW s \in Screens, Shown(s, <<>>), NEW r, r = print_message(s, Prompt)
  PROVE  r \in Screens /\ Shown(r, Prompt) /\ r.x = (s.x + PromptEnd) % W
  <1>1. PICK f : PrintWalk(f, s, Prompt)
    BY PromptChars, PrintWalks
  <1>2. f[0] = s
    BY <1>1 DEF PrintWalk
  <1>3. Len(Prompt) = 0 + Len(Prompt) /\ Len(Prompt) < W
    BY PromptFits DEF PromptEnd
  <1>4. \A i \in 1..Len(Prompt) : Prompt[0 + i] = Prompt[i] /\ Prompt[i] \notin {NEWLINE, RETURN}
    <2>1. ASSUME NEW i \in 1..Len(Prompt) PROVE Prompt[0 + i] = Prompt[i]
      <3>1. 0 + i = i
        OBVIOUS
      <3> QED  BY <3>1
    <2> QED  BY <2>1, PromptChars
  <1>5. Prompt \in Seq(Chars) /\ f[0] \in Screens /\ Shown(f[0], <<>>)
    BY <1>2, PromptChars
  <1>6. r \in Screens /\ Shown(r, Prompt) /\ r.x = (f[0].x + Len(Prompt)) % W
    BY <1>1, <1>3, <1>4, <1>5, MessageShown
  <1> QED  BY <1>2, <1>6 DEF PromptEnd

\* The prompt on a row of its own.
LEMMA PromptOnNewRow ==
  ASSUME NEW s \in Screens, Shown(s, <<>>), NEW r, r = print_message(s, <<NEWLINE>> \o Prompt)
  PROVE  r \in Screens /\ Shown(r, Prompt) /\ r.x = PromptEnd
  <1>1. PICK str : str = <<NEWLINE>> \o Prompt
    OBVIOUS
  <1>2. PICK f : PrintWalk(f, s, str)
    BY <1>1, PromptChars, PrintWalks
  <1>3. PICK n \in Nat : n = Len(Prompt)
    BY PromptChars, LenProperties
  <1>4. Len(str) = 1 + n /\ str[1] = NEWLINE /\ \A i \in 1..n : str[1 + i] = Prompt[i]
    <2>1. Len(<<NEWLINE>>) = 1 /\ <<NEWLINE>>[1] = NEWLINE
      OBVIOUS
    <2>2. /\ Len(str) = 1 + n
          /\ \A i \in 1 .. 1 + n : str[i] = IF i <= 1 THEN <<NEWLINE>>[i] ELSE Prompt[i - 1]
      BY <1>1, <1>3, <2>1, PromptChars, ConcatProperties
    <2>3. str[1] = NEWLINE
      <3>1. 1 \in 1 .. 1 + n /\ 1 <= 1
        OBVIOUS
      <3> QED  BY <2>1, <2>2, <3>1
    <2>4. ASSUME NEW i \in 1..n PROVE str[1 + i] = Prompt[i]
      <3>1. 1 + i \in 1 .. 1 + n /\ ~(1 + i <= 1) /\ (1 + i) - 1 = i
        OBVIOUS
      <3> QED  BY <2>2, <3>1
    <2> QED  BY <2>2, <2>3, <2>4
  <1>5. PICK p : p = f[1]
    OBVIOUS
  <1>6. p = Scrolled(Wrapped([s EXCEPT !.x = 0, !.y = @ + 1]))
    <2>1. 1 \in 1..Len(str) /\ 1 - 1 = 0
      BY <1>4
    <2>2. p = Printed(s, NEWLINE)
      BY <1>2, <1>4, <1>5, <2>1 DEF PrintWalk
    <2> QED  BY <2>2, OneChar
  <1>7. p \in Screens /\ Shown(p, <<>>) /\ p.x = 0
    BY <1>6, NewRow
  <1>8. /\ 1 \in Nat /\ Prompt \in Seq(Chars) /\ Len(str) = 1 + Len(Prompt) /\ Len(Prompt) < W
        /\ \A i \in 1..Len(Prompt) : str[1 + i] = Prompt[i] /\ Prompt[i] \notin {NEWLINE, RETURN}
        /\ f[1] \in Screens /\ Shown(f[1], <<>>) /\ r = print_message(s, str)
    BY <1>1, <1>3, <1>4, <1>5, <1>7, PromptChars, PromptFits DEF PromptEnd
  <1>9. r \in Screens /\ Shown(r, Prompt) /\ r.x = (f[1].x + Len(Prompt)) % W
    BY <1>2, <1>8, MessageShown
  <1>10. (0 + PromptEnd) % W = PromptEnd
    <2>1. 0 + PromptEnd = PromptEnd
      BY PromptFits
    <2> QED  BY <2>1, PromptFits
  <1> QED  BY <1>5, <1>7, <1>9, <1>10 DEF PromptEnd

\* The echo of one character.
LEMMA OnePut ==
  ASSUME NEW s \in Screens, NEW c \in Chars
  PROVE  terminal_puts(s, <<c>>) = putchar(s, c)
  <1>1. PICK str : str = <<c>>
    OBVIOUS
  <1>2. str \in Seq(Chars) /\ Len(str) = 1 /\ str[1] = c
    BY <1>1
  <1>3. PICK f : PutsWalk(f, s, str)
    BY <1>2, PutsWalks
  <1>4. 1 \in 1..Len(str) /\ 1 - 1 = 0
    BY <1>2
  <1>5. f[1] = putchar(s, c) /\ f[1] = terminal_puts(s, str)
    BY <1>2, <1>3, <1>4 DEF PutsWalk
  <1> QED  BY <1>1, <1>5

LEMMA NoPut ==
  ASSUME NEW s \in Screens
  PROVE  terminal_puts(s, <<>>) = s
  <1>1. PICK str : str = <<>>
    OBVIOUS
  <1>2. str \in Seq(Chars) /\ Len(str) = 0
    BY <1>1, EmptySeq
  <1>3. PICK f : PutsWalk(f, s, str)
    BY <1>2, PutsWalks
  <1>4. f[0] = s /\ f[0] = terminal_puts(s, str)
    BY <1>2, <1>3 DEF PutsWalk
  <1> QED  BY <1>1, <1>4

LEMMA NewlineEcho ==
  ASSUME NEW s \in Screens, NEW t, Shown(s, t), NEW r, r = terminal_puts(s, <<NEWLINE>>)
  PROVE  r \in Screens /\ Shown(r, <<>>) /\ r.x = 0
  <1>1. r = Scrolled(Wrapped([s EXCEPT !.x = 0, !.y = @ + 1]))
    BY PromptChars, OnePut, OneChar
  <1> QED  BY <1>1, NewRow

LEMMA CharEcho ==
  ASSUME NEW s \in Screens, NEW t \in Seq(Chars), Len(t) < W, Shown(s, t),
         NEW c \in Chars, c \notin {NEWLINE, RETURN, TAB, ERASE},
         NEW r, r = terminal_puts(s, <<c>>), s.x + 1 < W
  PROVE  r \in Screens /\ Shown(r, Append(t, c)) /\ r.x = s.x + 1
  <1>1. r = Scrolled(Wrapped(Written(s, c)))
    BY OnePut, OneChar
  <1>2. r \in Screens /\ Shown(r, Append(t, c)) /\ r.x = IF s.x + 1 = W THEN 0 ELSE s.x + 1
    BY <1>1, WriteScreen
  <1>3. s.x \in Nat /\ W \in Nat
    BY ScreenSize DEF Screens
  <1> QED  BY <1>2, <1>3

LEMMA EraseEcho ==
  ASSUME NEW s \in Screens, NEW t \in Seq(Chars), t # <<>>, Len(t) < W, Shown(s, t), s.x # 0,
         NEW r, r = terminal_puts(s, <<ERASE, SPACE, ERASE>>)
  PROVE  r \in Screens /\ Shown(r, Front(t)) /\ r.x = s.x - 1
  <1>1. PICK str : str = <<ERASE, SPACE, ERASE>>
    OBVIOUS
  <1>2. Len(str) = 3 /\ str[1] = ERASE /\ str[2] = SPACE /\ str[3] = ERASE
    BY <1>1
  <1>3. str \in Seq(Chars)
    <2>1. ASSUME NEW a \in Chars, NEW b \in Chars PROVE <<a, b, a>> \in Seq(Chars)
      OBVIOUS
    <2> QED  BY <1>1, <2>1, PromptChars, SpaceIsChar
  <1>4. PICK f : PutsWalk(f, s, str)
    BY <1>3, PutsWalks
  <1>5. /\ 1 \in 1..3 /\ 2 \in 1..3 /\ 3 \in 1..3
        /\ 1 - 1 = 0 /\ 2 - 1 = 1 /\ 3 - 1 = 2
    OBVIOUS
  <1>6. PICK p, q : p = f[1] /\ q = f[2]
    OBVIOUS
  <1>7. p = putchar(s, ERASE) /\ q = putchar(p, SPACE) /\ r = putchar(q, ERASE)
    <2>1. f[0] = s /\ f[3] = r
      BY <1>1, <1>2, <1>4 DEF PutsWalk
    <2>2. \A k \in 1..3 : f[k] = putchar(f[k-1], str[k])
      BY <1>2, <1>4 DEF PutsWalk
    <2>3. f[1] = putchar(f[0], ERASE) /\ f[2] = putchar(f[1], SPACE) /\ f[3] = putchar(f[2], ERASE)
      BY <1>2, <1>5, <2>2
    <2> QED  BY <1>6, <2>1, <2>3
  <1>0. PICK x \in Nat : x = s.x
    BY DEF Screens
  <1>8. PICK u : x = s.x /\ u = Front(t)
    BY <1>0
  <1>9. x # 0 /\ x < W /\ W \in Nat
    BY <1>8, ScreenSize DEF Screens
  <1>10. u \in Seq(Chars) /\ Len(u) = Len(t) - 1
    BY <1>8, FrontIsShorter
  <1>11. p \in Screens /\ Shown(p, u) /\ p.x = x - 1
    <2>1. p = Scrolled(Wrapped(Erased(s)))
      BY <1>7, <1>8, <1>9, OneChar
    <2> QED  BY <1>8, <2>1, EraseScreen
  <1>12. PICK v : v = Append(u, SPACE)
    OBVIOUS
  <1>13. v \in Seq(Chars) /\ v # <<>> /\ Front(v) = u
    <2>1. v \in Seq(Chars) /\ Len(v) = Len(u) + 1 /\ Len(u) \in Nat
      BY <1>10, <1>12, SpaceIsChar, AppendProperties, LenProperties
    <2>2. v # <<>>
      BY <2>1
    <2> QED  BY <1>10, <1>12, <2>1, <2>2, SpaceIsChar, FrontAppended
  <1>14. Len(u) < W
    <2>1. Len(t) \in Nat
      BY LenProperties
    <2> QED  BY <1>9, <1>10, <2>1
  <1>15. q \in Screens /\ Shown(q, v) /\ q.x = x
    <2>1. SPACE \notin {NEWLINE, RETURN, TAB, ERASE}
      BY DEF SPACE, NEWLINE, RETURN, TAB, ERASE
    <2>2. q = Scrolled(Wrapped(Written(p, SPACE)))
      BY ONLY <1>7, <2>1, OneChar, ZenonT(40)
    <2>3. q \in Screens /\ Shown(q, v) /\ q.x = IF p.x + 1 = W THEN 0 ELSE p.x + 1
      BY <1>10, <1>11, <1>12, <1>14, <2>2, SpaceIsChar, WriteScreen
    <2>4. q.x = x
      BY <1>9, <1>11, <2>3
    <2> QED  BY <2>3, <2>4
  <1>16. r \in Screens /\ Shown(r, u) /\ r.x = x - 1
    <2>1. q.x # 0
      BY <1>9, <1>15
    <2>2. r = Scrolled(Wrapped(Erased(q)))
      <3>1. putchar(q, ERASE) = Scrolled(Wrapped(IF q.x = 0 THEN q ELSE Erased(q)))
        BY OneChar
      <3> QED  BY ONLY <1>7, <2>1, <3>1
    <2> QED  BY <1>13, <1>15, <2>1, <2>2, EraseScreen
  <1> QED  BY <1>8, <1>16
-----------------------------------------------------------------------------
(***************************************************************************)
(* The invariant: while a line is read, the prompt and the line end at the *)
(* cursor, which is as far behind the end of the prompt as the line is     *)
(* long.  Without the column the end of the row could not be excluded, and *)
(* a backspace there would not take back what was shown.                   *)
(***************************************************************************)
LineShown(s, text, before) ==
  /\ Shown(s, Prompt \o text)
  /\ Len(before) <= 1
  /\ s.x = PromptEnd + Len(text) \/ (before # <<>> /\ s.x = SecondEnd + Len(text))

EchoInv ==
  /\ main \in {"boot", "drivers", "sti"} => screen = Cleared
  /\ char # RETURN
  /\ main \in {"getline", "hlt", "edit"} => LineShown(screen, line, lines)

LEMMA NothingCleared == Cleared \in Screens /\ Shown(Cleared, <<>>)
  <1>1. PICK vm : vm = [i \in Cells |-> SPACE]
    OBVIOUS
  <1>2. Cleared = ScreenOf(vm, 0, 0)
    BY <1>1 DEF Cleared, ScreenOf
  <1>3. vm \in Memories /\ 0 \in 0..W-1 /\ 0 \in 0..H-1
    BY <1>1, SpaceIsChar, ScreenSize DEF Memories
  <1>4. ShownAt(vm, 0, <<>>)
    BY <1>1 DEF ShownAt
  <1>5. 0 * W + 0 = 0
    BY ScreenSize
  <1>6. Cursor(Cleared) = 0 /\ Cleared.video_memory = vm
    BY <1>1, <1>5 DEF Cleared, Cursor, W
  <1> QED  BY <1>2, <1>3, <1>4, <1>6, ScreenIs DEF Shown

LEMMA EchoInit == PathInit => EchoInv
  <1>1. NO_CHAR # RETURN
    BY DEF NO_CHAR, RETURN
  <1> QED  BY <1>1 DEF PathInit, Init, EchoInv

\* No key of the table yields '\r'.
LEMMA NoReturnKey ==
  ASSUME NEW k \in 0..127, NEW fl
  PROVE  Translate(k, fl) # RETURN
  <1>1. PICK shift : shift = ("SHIFT" \in fl \/ ("CAPS" \in fl /\ k \in Letters))
    OBVIOUS
  <1>2. Translate(k, fl) = scancode_to_ascii(k, shift)
    BY <1>1 DEF Translate
  <1>3. \/ scancode_to_ascii(k, shift) = NO_CHAR
        \/ scancode_to_ascii(k, shift) = <<k, FALSE>>
        \/ k \notin OneGlyph /\ scancode_to_ascii(k, shift) = <<k, shift>>
    <2>1. k \in NoAscii => k \notin OneGlyph
      BY DEF NoAscii, OneGlyph
    <2>2. CASE k \in NoAscii
      BY <2>1, <2>2 DEF scancode_to_ascii
    <2>3. CASE k \notin NoAscii /\ k \in OneGlyph
      BY <2>3 DEF scancode_to_ascii
    <2>4. CASE k \notin NoAscii /\ k \notin OneGlyph
      BY <2>4 DEF scancode_to_ascii
    <2> QED  BY <2>2, <2>3, <2>4
  <1>4. NO_CHAR # RETURN /\ <<k, FALSE>> # RETURN /\ (k \notin OneGlyph => <<k, shift>> # RETURN)
    BY DEF NO_CHAR, RETURN, OneGlyph
  <1> QED  BY <1>2, <1>3, <1>4

LEMMA NoReturn == ASSUME PathInv, EchoInv, [PathNext]_vars PROVE char' # RETURN
  <1>1. char # RETURN
    BY DEF EchoInv
  <1>2. CASE char' = char
    BY <1>1, <1>2
  <1>3. CASE keyboard_get_char
    <2>1. char' \in {char, NO_CHAR, Translate(scancode, flags)}
      BY <1>3 DEF keyboard_get_char, GetNothing, GetStart, LoadCount, ReadSlot, StoreTail,
                  StoreCount, MapChar
    <2>2. scancode \in 0..127
      BY DEF PathInv, TypeInv, TypeOK
    <2>3. NO_CHAR # RETURN
      BY DEF NO_CHAR, RETURN
    <2> QED  BY <1>1, <2>1, <2>2, <2>3, NoReturnKey
  <1>4. \/ char' = char \/ keyboard_get_char
    BY PathKeyboard DEF kvars, reader
  <1> QED  BY <1>2, <1>3, <1>4

\* terminal_get_line returned and login_prompt asks for the next line.
LEMMA EchoReturned ==
  ASSUME PathInv, NEW text, NEW shown \in Screens, Shown(shown, <<>>), Len(lines) <= 1,
         \/ shown.x = 0
         \/ shown.x = PromptEnd + (max_length - 1)
         \/ lines # <<>>,
         ReturnLine(text, shown), main' = "getline"
  PROVE  LineShown(screen', line', lines')
  <1>1. /\ lines' = Append(lines, text) /\ line' = <<>> /\ Len(lines') # 2
        /\ screen' = print_message(shown, Prompt)
    BY DEF ReturnLine, MaxLines
  <1>2. lines = <<>> /\ lines' # <<>> /\ Len(lines') = 1
    <2>1. lines \in Seq(Seq(Chars))
      BY DEF PathInv, LineOK
    <2>2. Len(lines') = Len(lines) + 1
      BY <1>1, <2>1
    <2>3. Len(lines) \in Nat /\ Len(lines) <= 1
      BY <2>1, LenProperties
    <2>4. Len(lines) = 0
      BY <1>1, <2>2, <2>3
    <2>5. lines = <<>>
      BY <2>1, <2>4, EmptySeq
    <2> QED  BY <2>2, <2>4, <2>5, EmptySeq
  <1>3. Shown(screen', Prompt) /\ screen'.x = (shown.x + PromptEnd) % W
    BY <1>1, PromptShown
  <1>4. Prompt \o <<>> = Prompt /\ Len(<<>>) = 0
    BY PromptChars, ConcatEmptySeq
  <1>5. screen'.x \in {PromptEnd, SecondEnd}
    <2>1. CASE shown.x = 0
      <3>1. 0 + PromptEnd = PromptEnd
        BY PromptFits
      <3> QED  BY <1>3, <2>1, <3>1, PromptFits
    <2>2. CASE shown.x = PromptEnd + (max_length - 1)
      <3>1. (PromptEnd + (max_length - 1)) + PromptEnd = PromptEnd + (PromptEnd + (max_length - 1))
        BY PromptFits
      <3> QED  BY <1>3, <2>2, <3>1 DEF SecondEnd
    <2> QED  BY <1>2, <2>1, <2>2
  <1>6. PromptEnd + 0 = PromptEnd /\ SecondEnd + 0 = SecondEnd
    BY PromptFits
  <1> QED  BY <1>1, <1>2, <1>3, <1>4, <1>5, <1>6 DEF LineShown

\* A line in the buffer, and the room its row has.
LEMMA RowHolds ==
  ASSUME PathInv, LineShown(screen, line, lines)
  PROVE  /\ Prompt \o line \in Seq(Chars) /\ line \in Seq(Chars) /\ Len(line) \in Nat
         /\ Len(Prompt \o line) = PromptEnd + Len(line) /\ Len(Prompt \o line) < W
         /\ screen.x \in Nat
         /\ Len(line) < max_length - 1 => screen.x + 1 < W
         /\ line # <<>> => screen.x # 0 /\ Prompt \o line # <<>>
                           /\ Front(Prompt \o line) = Prompt \o Front(line)
  <1>1. line \in Seq(Chars) /\ Len(line) < max_length
    BY DEF PathInv, LineOK, LineInv, LineFits
  <1>2. PICK n \in Nat : n = Len(line)
    BY <1>1, LenProperties
  <1>3. PICK m \in Nat : m = max_length - 1
    BY PromptFits
  <1>4. n <= m
    BY <1>1, <1>2, <1>3, MaxLengthAssumption
  <1>5. PICK p \in Nat : p = PromptEnd
    BY PromptFits
  <1>6. PICK e \in Nat : e = SecondEnd
    BY PromptFits
  <1>7. p + m < W /\ e + m < W /\ W \in Nat
    BY <1>3, <1>5, <1>6, PromptFits, ScreenSize
  <1>8. PICK x : x = screen.x
    OBVIOUS
  <1>9. x = p + n \/ x = e + n
    BY <1>2, <1>5, <1>6, <1>8 DEF LineShown
  <1>10. x \in Nat /\ (n < m => x + 1 < W) /\ (n # 0 => x # 0)
    BY <1>7, <1>9
  <1>11. Prompt \o line \in Seq(Chars) /\ Len(Prompt \o line) = p + n
    BY <1>1, <1>2, <1>5, PromptChars, ConcatProperties DEF PromptEnd
  <1>12. p + n < W
    BY <1>4, <1>7
  <1>13. line # <<>> => n # 0
    BY <1>1, <1>2, EmptySeq
  <1>14. line # <<>> => Prompt \o line # <<>> /\ Front(Prompt \o line) = Prompt \o Front(line)
    BY <1>1, PromptChars, FrontOfBoth
  <1> QED  BY <1>1, <1>2, <1>3, <1>5, <1>8, <1>10, <1>11, <1>12, <1>13, <1>14

LEMMA EchoLineFull ==
  ASSUME PathInv, EchoInv, screen \in Screens, LineFull, main' = "getline"
  PROVE  LineShown(screen', line', lines')
  <1>1. main = "getline" /\ ~Room /\ ReturnLine(line, screen)
    BY DEF LineFull, At
  <1>2. LineShown(screen, line, lines)
    BY <1>1 DEF EchoInv
  <1>3. Len(line) = max_length - 1
    <2>1. Len(line) < max_length /\ Len(line) \in Nat
      BY <1>2, RowHolds DEF PathInv, LineInv, LineFits
    <2>2. ~(Len(line) < max_length - 1)
      BY <1>1 DEF Room
    <2> QED  BY <2>1, <2>2, MaxLengthAssumption
  <1>4. Shown(screen, <<>>)
    <2>1. Cursor(screen) \in Nat
      <3>1. PICK vm \in Memories, x \in 0..W-1, y \in 0..H-1 : screen = ScreenOf(vm, x, y)
        BY ScreenParts
      <3>2. Cursor(screen) = y * W + x /\ y * W \in Nat
        BY <3>1, ScreenIs, CursorIn
      <3> QED  BY <3>2
    <2> QED  BY <1>2, <2>1, ShownNothing DEF LineShown, Shown
  <1>5. /\ Len(lines) <= 1
        /\ screen.x = PromptEnd + (max_length - 1) \/ lines # <<>>
    BY <1>2, <1>3 DEF LineShown
  <1> QED  BY <1>1, <1>4, <1>5, EchoReturned

LEMMA EchoEdit ==
  ASSUME PathInv, EchoInv, screen \in Screens, Edit, main' = "getline"
  PROVE  LineShown(screen', line', lines')
  <1>1. main = "edit"
    BY DEF Edit, At
  <1>2. LineShown(screen, line, lines) /\ char # RETURN /\ char \in Chars
    BY <1>1 DEF EchoInv, PathInv, TypeInv, TypeOK, Chars
  <1>3. Len(line) < max_length - 1
    BY <1>1 DEF PathInv, LineInv, Room
  <1>4. Shown(screen, Prompt \o line) /\ Len(lines) <= 1
    BY <1>2 DEF LineShown
  <1>5. CASE char = NEWLINE
    <2>1. PICK shown : shown = terminal_puts(screen, Echo(char))
      OBVIOUS
    <2>2. Echo(char) = <<NEWLINE>>
      BY <1>5, CharsApart DEF Echo
    <2>3. shown \in Screens /\ Shown(shown, <<>>) /\ shown.x = 0
      BY <1>4, <2>1, <2>2, NewlineEcho
    <2>4. ReturnLine(line, shown)
      BY <1>5, <2>1 DEF Edit
    <2> QED  BY <1>4, <2>3, <2>4, EchoReturned
  <1>6. ASSUME char # NEWLINE
        PROVE  /\ screen' = terminal_puts(screen, Echo(char)) /\ lines' = lines
               /\ line' = CASE char = ERASE /\ line # <<>> -> Front(line)
                            [] Printable(char) -> Append(line, char)
                            [] OTHER -> line
    BY <1>6 DEF Edit
  <1>7. PICK p, n, x : p = Prompt \o line /\ n = Len(line) /\ x = screen.x
    OBVIOUS
  <1>8. /\ p \in Seq(Chars) /\ line \in Seq(Chars) /\ n \in Nat /\ Len(p) < W /\ x \in Nat
        /\ x + 1 < W /\ (line # <<>> => x # 0 /\ p # <<>> /\ Front(p) = Prompt \o Front(line))
    BY <1>2, <1>3, <1>7, RowHolds
  <1>9. x = PromptEnd + n \/ (lines # <<>> /\ x = SecondEnd + n)
    BY <1>2, <1>7 DEF LineShown
  <1>10. CASE char = ERASE /\ line # <<>>
    <2>1. char # NEWLINE
      BY <1>10, CharsApart
    <2>2. Echo(char) = <<ERASE, SPACE, ERASE>>
      BY <1>10, <2>1 DEF Echo
    <2>3. lines' = lines /\ line' = Front(line) /\ screen' = terminal_puts(screen, <<ERASE, SPACE, ERASE>>)
      <3>1. ~Printable(char)
        BY <1>10 DEF Printable
      <3> QED  BY <1>6, <1>10, <2>1, <2>2, <3>1
    <2>4. Shown(screen', Front(p)) /\ screen'.x = x - 1
      BY <1>4, <1>7, <1>8, <1>10, <2>3, EraseEcho
    <2>5. Len(line') = n - 1 /\ n # 0
      BY <1>7, <1>8, <1>10, <2>3, FrontIsShorter, EmptySeq
    <2>6. x - 1 = PromptEnd + (n - 1) \/ (lines # <<>> /\ x - 1 = SecondEnd + (n - 1))
      BY <1>8, <1>9, <2>5, PromptFits
    <2> QED  BY <1>4, <1>8, <1>10, <2>3, <2>4, <2>5, <2>6 DEF LineShown
  <1>11. CASE Printable(char)
    <2>1. char \notin {NEWLINE, ERASE, TAB}
      BY <1>11 DEF Printable
    <2>2. Echo(char) = <<char>>
      BY <1>11, <2>1 DEF Echo
    <2>3. lines' = lines /\ line' = Append(line, char) /\ screen' = terminal_puts(screen, <<char>>)
      BY <1>6, <1>11, <2>1, <2>2
    <2>4. char \notin {NEWLINE, RETURN, TAB, ERASE}
      BY <1>2, <2>1
    <2>5. Shown(screen', Append(p, char)) /\ screen'.x = x + 1
      BY <1>2, <1>4, <1>7, <1>8, <2>3, <2>4, CharEcho
    <2>6. Append(p, char) = Prompt \o line' /\ Len(line') = n + 1
      <3>1. Append(p, char) = Prompt \o line'
        <4>1. Prompt \in Seq(Chars) /\ line \in Seq(Chars) /\ char \in Chars
          BY <1>2, <1>8, PromptChars
        <4>2. Append(Prompt \o line, char) = Prompt \o Append(line, char)
          BY ONLY <4>1, AppendToBoth
        <4> QED  BY ONLY <1>7, <2>3, <4>2
      <3>2. Len(line') = n + 1
        BY <1>2, <1>7, <1>8, <2>3, AppendProperties
      <3> QED  BY <3>1, <3>2
    <2>7. x + 1 = PromptEnd + (n + 1) \/ (lines # <<>> /\ x + 1 = SecondEnd + (n + 1))
      BY <1>8, <1>9, PromptFits
    <2> QED  BY <1>4, <2>3, <2>5, <2>6, <2>7 DEF LineShown
  <1>12. CASE char # NEWLINE /\ ~Printable(char) /\ ~(char = ERASE /\ line # <<>>)
    <2>1. Echo(char) = <<>>
      BY <1>12 DEF Echo
    <2>2. lines' = lines /\ line' = line
      BY <1>6, <1>12
    <2>3. screen' = screen
      BY <1>6, <1>12, <2>1, NoPut
    <2> QED  BY <1>2, <2>2, <2>3
  <1> QED  BY <1>5, <1>10, <1>11, <1>12

LEMMA EchoSti ==
  ASSUME PathInv, EchoInv, Sti
  PROVE  LineShown(screen', line', lines')
  <1>1. main = "sti" /\ UNCHANGED <<line, lines>>
        /\ screen' = print_message(screen, <<NEWLINE>> \o Prompt)
    BY DEF Sti, At
  <1>2. line = <<>> /\ lines = <<>>
    BY <1>1 DEF PathInv, BootInv
  <1>3. screen \in Screens /\ Shown(screen, <<>>)
    BY <1>1, NothingCleared DEF EchoInv
  <1>4. Shown(screen', Prompt) /\ screen'.x = PromptEnd
    BY <1>1, <1>3, PromptOnNewRow
  <1>5. Prompt \o <<>> = Prompt /\ Len(<<>>) = 0 /\ PromptEnd + 0 = PromptEnd
    BY PromptChars, ConcatEmptySeq, PromptFits
  <1> QED  BY <1>1, <1>2, <1>4, <1>5 DEF LineShown

\* The steps between which a line is not touched.
LEMMA EchoSteps ==
  ASSUME [PathNext]_vars
  PROVE  \/ /\ UNCHANGED <<screen, line, lines>>
            /\ main' \in {"boot", "drivers", "sti"} => main \in {"boot", "drivers", "sti"}
            /\ main' \in {"getline", "hlt", "edit"} => main \in {"getline", "hlt", "edit"}
         \/ Sti /\ main' = "getline"
         \/ LineFull /\ main' \in {"getline", "idle"}
         \/ Edit /\ main' \in {"getline", "idle"}
  <1>1. ASSUME NEW key \in Keys, Press(key) \/ Release(key)
        PROVE  UNCHANGED <<main, screen, line, lines>>
    BY <1>1 DEF Press, Release, login
  <1>2. ASSUME NEW irq \in {TIMER, KEYBOARD}, Interrupt(irq)
        PROVE  UNCHANGED <<main, screen, line, lines>>
    BY <1>2 DEF Interrupt, login
  <1>3. ASSUME TimerTick \/ Handler \/ UNCHANGED vars
        PROVE  UNCHANGED <<main, screen, line, lines>>
    BY <1>3 DEF TimerTick, Handler, timer_handler, keyboard_interrupt_handler, StubEoi, Iret,
                vars, login
  <1>4. ASSUME EnableIrqs \/ InitDrivers
        PROVE  /\ UNCHANGED <<screen, line, lines>>
               /\ main \in {"boot", "drivers"} /\ main' \in {"drivers", "sti"}
    BY <1>4 DEF EnableIrqs, InitDrivers, At
  <1>5. ASSUME GetChar
        PROVE  /\ UNCHANGED <<screen, line, lines>>
               /\ main = "getline" /\ main' \in {"getline", "hlt", "edit"}
    BY <1>5 DEF GetChar, At
  <1>6. ASSUME Hlt
        PROVE  /\ UNCHANGED <<screen, line, lines>>
               /\ (main = "hlt" /\ main' = "getline") \/ (main = "idle" /\ main' = "idle")
    BY <1>6 DEF Hlt, At
  <1>7. ASSUME Sti PROVE main' = "getline"
    BY <1>7 DEF Sti
  <1>8. ASSUME LineFull \/ Edit PROVE main' \in {"getline", "idle"}
    BY <1>8 DEF LineFull, Edit, ReturnLine
  <1> QED
    BY <1>1, <1>2, <1>3, <1>4, <1>5, <1>6, <1>7, <1>8 DEF PathNext, User, Main

LEMMA EchoStep == PathInv /\ screen \in Screens /\ EchoInv /\ [PathNext]_vars => EchoInv'
  <1> SUFFICES ASSUME PathInv, screen \in Screens, EchoInv, [PathNext]_vars PROVE EchoInv'
    OBVIOUS
  <1>1. char' # RETURN
    BY NoReturn
  <1>2. CASE /\ UNCHANGED <<screen, line, lines>>
             /\ main' \in {"boot", "drivers", "sti"} => main \in {"boot", "drivers", "sti"}
             /\ main' \in {"getline", "hlt", "edit"} => main \in {"getline", "hlt", "edit"}
    <2>1. main' \in {"boot", "drivers", "sti"} => screen' = Cleared
      BY <1>2 DEF EchoInv
    <2>2. main' \in {"getline", "hlt", "edit"} => LineShown(screen', line', lines')
      BY <1>2 DEF EchoInv
    <2> QED  BY <1>1, <2>1, <2>2 DEF EchoInv
  <1>3. CASE \/ Sti /\ main' = "getline"
             \/ LineFull /\ main' \in {"getline", "idle"}
             \/ Edit /\ main' \in {"getline", "idle"}
    <2>1. main' \in {"getline", "idle"}
      BY <1>3
    <2>2. main' = "getline" => LineShown(screen', line', lines')
      BY <1>3, EchoSti, EchoLineFull, EchoEdit
    <2> QED  BY <1>1, <2>1, <2>2 DEF EchoInv
  <1> QED  BY <1>2, <1>3, EchoSteps

(***************************************************************************)
(* While login_prompt reads a line, the screen shows the prompt and the    *)
(* line up to the cursor and nothing behind it, for every prompt and       *)
(* buffer that fit into a row of the screen.                               *)
(***************************************************************************)
THEOREM EchoStays == PathSpec => []EchoShown
  <1>1. EchoInv => EchoShown
    <2> SUFFICES ASSUME EchoInv, main \in {"getline", "hlt", "edit"}
                 PROVE  /\ \A i \in 1..Len(Prompt \o line) :
                             screen.video_memory[Cursor(screen) - Len(Prompt \o line) + i - 1]
                               = (Prompt \o line)[i]
                        /\ \A cell \in Cells : cell >= Cursor(screen)
                             => screen.video_memory[cell] = SPACE
      BY DEF EchoShown
    <2>1. Shown(screen, Prompt \o line)
      BY DEF EchoInv, LineShown
    <2> QED  BY <2>1 DEF Shown, ShownAt
  <1>2. PathInv /\ screen \in Screens /\ EchoInv /\ [PathNext]_vars => EchoInv'
    BY EchoStep
  <1>3. PathInit => screen \in Screens /\ EchoInv
    BY ScreenInit, EchoInit
  <1>4. PathInv /\ screen \in Screens /\ [PathNext]_vars => (screen \in Screens)'
    BY ScreenStep
  <1> QED  BY <1>1, <1>2, <1>3, <1>4, PathInvariant, PTL DEF PathSpec
=============================================================================
