----------------------------- MODULE InputPath -----------------------------
(***************************************************************************)
(* The path of a key from the keyboard to a line of input: the keyboard    *)
(* and its controller, the interrupt controller as pic.c programs it, the  *)
(* IRQ stub of interrupt_asm.s with the C handlers it calls, and the main  *)
(* thread, which enables interrupts in kernel_main, then reads the two     *)
(* lines of login_prompt with terminal_get_line and shows them.            *)
(*                                                                         *)
(* Between two of its instructions the main thread can be interrupted; the *)
(* handlers run with the interrupt flag clear.  tick_count is left out:    *)
(* nothing on this path reads it.                                          *)
(***************************************************************************)
EXTENDS Keyboard, Screen, FiniteSets

CONSTANTS
  Keys,        \* the keys of the keyboard, [code : 0..127, extended : BOOLEAN]
  max_length,  \* the size of the buffer given to terminal_get_line
  Prompt,      \* what login_prompt prints before it reads a line
  MaxPresses   \* bound: keys pressed in one behaviour

ASSUME KeysAssumption == Keys \subseteq [code : 0..127, extended : BOOLEAN]
ASSUME MaxLengthAssumption == max_length \in Nat \ {0}
\* A row holds a prompt and a line: 10 + 63 characters of 80; and it holds a
\* line behind the part of a prompt that came round the margin: after a full
\* line, the last 3 characters of the second prompt and 63 more.
ASSUME PromptAssumption ==
  /\ Prompt \in Seq(((0..127) \X BOOLEAN) \ {NEWLINE, RETURN})
  /\ Len(Prompt) + max_length - 1 < VGA_WIDTH
  /\ ((2 * Len(Prompt) + max_length - 1) % VGA_WIDTH) + max_length - 1 < VGA_WIDTH
  /\ VGA_HEIGHT >= 2
ASSUME MaxPressesAssumption == MaxPresses \in Nat

VARIABLES
  held,       \* keys that are down
  typed,      \* history: regular keys pressed, in order
  presses,    \* history: how many keys were pressed
  output,     \* bytes the keyboard has sent and port 0x60 not yet delivered
  irr, isr, imr,  \* the master PIC: requested, in service, masked
  IF_flag,    \* the interrupt flag of EFLAGS
  stack,      \* interrupt frames, innermost first
  halted,     \* the CPU executes hlt
  main,       \* where the main thread is
  line, lines, \* terminal_get_line's buffer up to pos; the lines it returned
  screen      \* what print_message and putchar have written

device == <<held, typed, presses, output>>
pic    == <<irr, isr, imr>>
cpu    == <<IF_flag, stack, halted>>
login  == <<main, line, lines, screen>>
vars   == <<kvars, device, pic, cpu, login>>

TIMER    == 0
KEYBOARD == 1
ACK      == 250
MaxLines == 2
-----------------------------------------------------------------------------
(***************************************************************************)
(* The devices.  A key sends its code when pressed and the code with bit 7 *)
(* set when released, after the prefix 0xE0 if it is an extended key.  The *)
(* controller requests IRQ 1 for each byte it offers at port 0x60.         *)
(***************************************************************************)
Sequence(key, mark) ==
  (IF key.extended THEN <<EXTENDED>> ELSE <<>>) \o <<key.code + mark>>

Offer(bytes) ==
  /\ output' = output \o bytes
  /\ irr' = irr \cup {KEYBOARD}

Press(key) ==
  /\ presses < MaxPresses /\ key \notin held
  /\ presses' = presses + 1
  /\ held' = held \cup {key}
  /\ typed' = IF key.code \in RegularKey THEN Append(typed, key.code) ELSE typed
  /\ Offer(Sequence(key, 0))
  /\ UNCHANGED <<kvars, isr, imr, cpu, login>>

Release(key) ==
  /\ key \in held
  /\ held' = held \ {key}
  /\ Offer(Sequence(key, 128))
  /\ UNCHANGED <<kvars, typed, presses, isr, imr, cpu, login>>

TimerTick ==
  /\ TIMER \notin irr
  /\ irr' = irr \cup {TIMER}
  /\ UNCHANGED <<kvars, device, isr, imr, cpu, login>>
-----------------------------------------------------------------------------
(***************************************************************************)
(* Interrupts.  The PIC interrupts for a request that is not masked and    *)
(* has a higher priority than all that are in service.  The IDT holds      *)
(* interrupt gates and the stub starts with cli, so the flag is clear      *)
(* until the iret, which the sti before it does not anticipate: sti takes  *)
(* effect one instruction late.                                            *)
(***************************************************************************)
Pending(irq) ==
  /\ irq \in irr \ imr
  /\ \A i \in (irr \ imr) \cup isr : irq <= i
  /\ irq \notin isr

\* Mutant: the handler runs with interrupts enabled.
FlagInHandlerSet == TRUE
FlagInHandler == FALSE

Interrupt(irq) ==
  /\ IF_flag /\ Pending(irq)
  /\ irr' = irr \ {irq}
  /\ isr' = isr \cup {irq}
  /\ IF_flag' = FlagInHandler
  /\ stack' = <<[irq |-> irq, at |-> "handler"]>> \o stack
  /\ halted' = FALSE
  /\ UNCHANGED <<kvars, device, imr, login>>

\* pic_send_eoi(irq) for irq < 8: the non-specific end of interrupt, which
\* retires the request of the highest priority among those in service.
Eoi(inService) == {i \in inService : \E j \in inService : j < i}

InHandler(irq, place) ==
  /\ stack # <<>>
  /\ stack[1] = [irq |-> irq, at |-> place]

timer_handler ==
  /\ InHandler(TIMER, "handler")
  /\ isr' = Eoi(isr)
  /\ stack' = [stack EXCEPT ![1].at = "stub"]
  /\ UNCHANGED <<kvars, device, irr, imr, IF_flag, halted, login>>

\* keyboard_handler and its EOI.  The keyboard acknowledges each of the two
\* bytes of a set-LEDs command.
keyboard_interrupt_handler ==
  LET byte == Head(output)
      acks == IF byte # EXTENDED /\ UpdatesLeds(KeyOf(byte), IsRelease(byte))
              THEN <<ACK, ACK>> ELSE <<>>
  IN  /\ InHandler(KEYBOARD, "handler") /\ output # <<>>
      /\ keyboard_handler(byte)
      /\ output' = Tail(output) \o acks
      /\ irr' = IF output' # <<>> THEN irr \cup {KEYBOARD} ELSE irr
      /\ isr' = Eoi(isr)
      /\ stack' = [stack EXCEPT ![1].at = "stub"]
      /\ UNCHANGED <<reader, held, typed, presses, imr, IF_flag, halted, login>>

\* irq_common_stub sends an EOI of its own.
StubEoi ==
  /\ stack # <<>> /\ stack[1].at = "stub"
  /\ isr' = Eoi(isr)
  /\ stack' = [stack EXCEPT ![1].at = "iret"]
  /\ UNCHANGED <<kvars, device, irr, imr, IF_flag, halted, login>>

Iret ==
  /\ stack # <<>> /\ stack[1].at = "iret"
  /\ stack' = Tail(stack)
  /\ IF_flag' = TRUE
  /\ UNCHANGED <<kvars, device, pic, halted, login>>

Handler == timer_handler \/ keyboard_interrupt_handler \/ StubEoi \/ Iret
-----------------------------------------------------------------------------
(***************************************************************************)
(* The main thread.                                                        *)
(***************************************************************************)
At(place) == main = place /\ stack = <<>> /\ ~halted

\* Mutant: the timer stays masked.
EnabledIrqsNoTimer == {KEYBOARD}
EnabledIrqs == {TIMER, KEYBOARD}

\* kernel_init: pic_init has masked every line; two are enabled.
EnableIrqs ==
  /\ At("boot")
  /\ imr' = imr \ EnabledIrqs
  /\ main' = "drivers"
  /\ UNCHANGED <<kvars, device, irr, isr, cpu, line, lines, screen>>

\* keyboard_init, before interrupts are enabled.
InitDrivers ==
  /\ At("drivers")
  /\ flags' = {} /\ led_state' = {} /\ extended_scancode' = FALSE
  /\ buffer' = [i \in Slots |-> 0]
  /\ buffer_head' = 0 /\ buffer_tail' = 0 /\ buffer_count' = 0
  /\ main' = "sti"
  /\ UNCHANGED <<pc, reg, scancode, char, accepted, dropped, delivered, device, pic, cpu,
                 line, lines, screen>>

\* sti, and login_prompt up to its first read.
Sti ==
  /\ At("sti")
  /\ IF_flag' = TRUE
  /\ main' = "getline"
  /\ screen' = print_message(screen, <<NEWLINE>> \o Prompt)
  /\ UNCHANGED <<kvars, device, pic, stack, halted, line, lines>>

\* Mutant: the buffer is filled to its last character.
RoomToTheEnd == Len(line) < max_length
Room == Len(line) < max_length - 1

\* terminal_getchar inside the loop of terminal_get_line.
GetChar ==
  /\ At("getline") /\ Room
  /\ keyboard_get_char
  /\ main' = IF pc' # "idle" THEN "getline"
             ELSE IF char' = NO_CHAR THEN "hlt" ELSE "edit"
  /\ UNCHANGED <<device, pic, cpu, line, lines, screen>>

\* The instruction after a failed terminal_getchar, and the idle loop.
Hlt ==
  /\ At("hlt") \/ At("idle")
  /\ halted' = TRUE
  /\ main' = IF main = "hlt" THEN "getline" ELSE "idle"
  /\ UNCHANGED <<kvars, device, pic, IF_flag, stack, line, lines, screen>>

Printable(c) == c \notin {NO_CHAR, NEWLINE, ERASE, TAB, <<1, FALSE>>}

\* Mutant: BACKSPACE erases although the line is empty.
EchoEager(c) ==
  CASE c = NEWLINE -> <<NEWLINE>>
    [] c = ERASE -> <<ERASE, SPACE, ERASE>>
    [] OTHER -> IF Printable(c) THEN <<c>> ELSE <<>>
\* What terminal_get_line shows of a character.
Echo(c) ==
  CASE c = NEWLINE -> <<NEWLINE>>
    [] c = ERASE /\ line # <<>> -> <<ERASE, SPACE, ERASE>>
    [] OTHER -> IF Printable(c) THEN <<c>> ELSE <<>>

\* terminal_get_line returns, having shown shown; login_prompt reads two
\* lines, and nothing reads a key after that.
ReturnLine(text, shown) ==
  /\ lines' = Append(lines, text)
  /\ line' = <<>>
  /\ IF Len(lines') = MaxLines
     THEN main' = "idle" /\ screen' = shown
     ELSE main' = "getline" /\ screen' = print_message(shown, Prompt)

LineFull ==
  /\ At("getline") /\ pc = "idle" /\ ~Room
  /\ ReturnLine(line, screen)
  /\ UNCHANGED <<kvars, device, pic, cpu>>

Edit ==
  /\ At("edit")
  /\ LET shown == terminal_puts(screen, Echo(char))
     IN  \/ char = NEWLINE /\ ReturnLine(line, shown)
         \/ /\ char # NEWLINE
            /\ line' = CASE char = ERASE /\ line # <<>> -> Front(line)
                         [] Printable(char) -> Append(line, char)
                         [] OTHER -> line
            /\ screen' = shown
            /\ main' = "getline"
            /\ UNCHANGED lines
  /\ UNCHANGED <<kvars, device, pic, cpu>>

Main == EnableIrqs \/ InitDrivers \/ Sti \/ GetChar \/ Hlt \/ LineFull \/ Edit
-----------------------------------------------------------------------------
PathInit ==
  /\ Init
  /\ held = {} /\ typed = <<>> /\ presses = 0 /\ output = <<>>
  /\ irr = {} /\ isr = {} /\ imr = {TIMER, KEYBOARD}
  /\ IF_flag = FALSE /\ stack = <<>> /\ halted = FALSE
  /\ main = "boot" /\ line = <<>> /\ lines = <<>> /\ screen = Cleared

User == \E key \in Keys : Press(key) \/ Release(key)

PathNext ==
  \/ User \/ TimerTick
  \/ \E irq \in {TIMER, KEYBOARD} : Interrupt(irq)
  \/ Handler \/ Main

(***************************************************************************)
(* The timer never stops and the CPU executes what it can.  A tick comes   *)
(* every 10 ms (timer_init(100)), far longer than a handler runs, so ticks *)
(* starve neither the main thread nor the keyboard's lower priority: they  *)
(* get strong fairness.  The user is under no obligation.                  *)
(***************************************************************************)
Fairness ==
  /\ WF_vars(TimerTick) /\ WF_vars(Handler) /\ WF_vars(Interrupt(TIMER))
  /\ SF_vars(Interrupt(KEYBOARD)) /\ SF_vars(Main)

PathSpec == PathInit /\ [][PathNext]_vars
FairSpec == PathSpec /\ Fairness
-----------------------------------------------------------------------------
\* The screen apart, which print_message and putchar write.
PathVarsOK ==
  /\ TypeOK
  /\ held \subseteq Keys /\ typed \in Seq(RegularKey) /\ presses \in 0..MaxPresses
  /\ output \in Seq(0..255)
  /\ irr \subseteq {TIMER, KEYBOARD} /\ isr \subseteq {TIMER, KEYBOARD}
  /\ imr \subseteq {TIMER, KEYBOARD}
  /\ IF_flag \in BOOLEAN /\ halted \in BOOLEAN
  /\ stack \in Seq([irq : {TIMER, KEYBOARD}, at : {"handler", "stub", "iret"}])
  /\ main \in {"boot", "drivers", "sti", "getline", "hlt", "edit", "idle"}
  /\ lines \in Seq(Seq((0..127) \X BOOLEAN))

ScreenOK ==
  /\ screen.video_memory \in [Cells -> (0..127) \X BOOLEAN]
  /\ screen.x \in 0..VGA_WIDTH-1 /\ screen.y \in 0..VGA_HEIGHT-1

PathTypeOK == PathVarsOK /\ ScreenOK

(***************************************************************************)
(* Each IRQ is ended twice, by its C handler and by irq_common_stub.  The  *)
(* second EOI is not aimed at any request, so it must never find one of    *)
(* another interrupt in service.                                           *)
(***************************************************************************)
NoStolenEoi == stack # <<>> /\ stack[1].at = "stub" => isr = {}

(***************************************************************************)
(* Unless a key found the ring full, the keys the driver has accepted and  *)
(* those still on their way are the keys that were typed, in their order.  *)
(* The LED acknowledgements, releases and prefixes in between are no keys. *)
(***************************************************************************)
OnTheWay == {i \in 1..Len(output) : output[i] \in RegularKey}
Rank(i)  == Cardinality({j \in OnTheWay : j <= i})

TypedInOrder ==
  dropped = 0 =>
    /\ Len(typed) = Len(accepted) + Cardinality(OnTheWay)
    /\ \A i \in 1..Len(accepted) : typed[i] = accepted[i]
    /\ \A i \in OnTheWay : typed[Len(accepted) + Rank(i)] = output[i]

(***************************************************************************)
(* When no key is down and the driver has seen every byte, it believes no  *)
(* modifier is down.                                                       *)
(***************************************************************************)
NoStuckModifier == held = {} /\ output = <<>> => flags \cap Modifiers = {}

(***************************************************************************)
(* The terminating NUL of every line fits into the caller's buffer.        *)
(***************************************************************************)
LineFits ==
  /\ Len(line) < max_length
  /\ \A i \in 1..Len(lines) : Len(lines[i]) < max_length

(***************************************************************************)
(* While a line is read, the screen shows the prompt and the line up to    *)
(* the cursor and nothing behind it: what the user sees is what            *)
(* login_prompt will get, over erasures, a prompt that wraps and scrolling.*)
(***************************************************************************)
EchoShown ==
  LET shown == Prompt \o line
  IN  main \in {"getline", "hlt", "edit"} =>
        /\ \A i \in 1..Len(shown) :
             screen.video_memory[Cursor(screen) - Len(shown) + i - 1] = shown[i]
        /\ \A cell \in Cells : cell >= Cursor(screen) => screen.video_memory[cell] = SPACE

(***************************************************************************)
(* While login_prompt reads, a key that is in the ring is taken out of it, *)
(* although the interrupt that brought it may fall between the test for an *)
(* empty ring and the hlt: the timer ends every hlt.                       *)
(***************************************************************************)
KeyConsumed ==
  \A n \in 1..MaxPresses :
    (Len(accepted) >= n) ~> (Len(delivered) >= n \/ main = "idle")
=============================================================================
