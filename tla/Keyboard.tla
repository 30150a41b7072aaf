----------------------------- MODULE Keyboard ------------------------------
(***************************************************************************)
(* The keyboard driver, kernel/drivers/keyboard.c.                         *)
(*                                                                         *)
(* keyboard_handler runs in the IRQ 1 handler, with interrupts disabled,   *)
(* so one execution of it is one step.  keyboard_get_char runs in the main *)
(* thread with interrupts enabled: the handler may run between any two of  *)
(* its accesses to keyboard_state, so each access is a step.               *)
(*                                                                         *)
(* keyboard_state is neither volatile nor protected by cli, so the order   *)
(* of those accesses is the compiler's choice.  Codegen names the one that *)
(* is modelled: "source" is the order the C text gives, with the decrement *)
(* of buffer_count a single memory instruction; "gcc" is what gcc 12 makes *)
(* of keyboard_buffer_get with the flags of the Makefile (-Os): the count  *)
(* is loaded once, the decremented copy is stored back first, the slot is  *)
(* read after that and the tail is stored last.                            *)
(***************************************************************************)
EXTENDS Integers, Sequences

CONSTANTS
  KEYBOARD_BUFFER_SIZE,
  Bytes,       \* the values port 0x60 delivers
  Codegen,     \* the access order of keyboard_buffer_get: "source" or "gcc"
  MaxKeys      \* bound: keys typed in one behaviour

ASSUME BufferSizeAssumption == KEYBOARD_BUFFER_SIZE \in Nat \ {0}
ASSUME BytesAssumption == Bytes \subseteq 0..255
ASSUME CodegenAssumption == Codegen \in {"source", "gcc"}
ASSUME MaxKeysAssumption == MaxKeys \in Nat

VARIABLES
  flags, led_state, extended_scancode,              \* fields of keyboard_state
  buffer, buffer_head, buffer_tail, buffer_count,
  pc,          \* the next access of keyboard_get_char, or "idle"
  reg,         \* the copy of buffer_count that keyboard_buffer_get loaded
  scancode,    \* the code it has read
  char,        \* what keyboard_get_char last returned
  accepted,    \* history: every code stored in the ring
  dropped,     \* history: how many codes found it full
  delivered    \* history: every code read out of it

ring   == <<buffer, buffer_head, buffer_count, accepted, dropped>>
locks  == <<flags, led_state, extended_scancode>>
reader == <<pc, reg, scancode, char, buffer_tail, delivered>>
kvars  == <<ring, locks, reader>>

Slots == 0 .. KEYBOARD_BUFFER_SIZE - 1

(***************************************************************************)
(* Scan codes.  A byte carries the key in its low seven bits and the       *)
(* release mark in bit 7; 0xE0 is the prefix of an extended key.           *)
(***************************************************************************)
EXTENDED == 224
KeyOf(byte) == byte % 128
IsRelease(byte) == byte >= 128

Modifier(key) == CASE key \in {42, 54} -> {"SHIFT"}
                   [] key = 29         -> {"CTRL"}
                   [] key = 56         -> {"ALT"}
                   [] OTHER            -> {}
Lock(key) == CASE key = 58 -> {"CAPS"}
               [] key = 69 -> {"NUM"}
               [] key = 70 -> {"SCROLL"}
               [] OTHER    -> {}

Modifiers == {"SHIFT", "CTRL", "ALT"}
Locks     == {"CAPS", "NUM", "SCROLL"}
SpecialKey == {29, 42, 54, 56, 58, 69, 70}
RegularKey == (0..127) \ SpecialKey

(***************************************************************************)
(* scancode_to_ascii and the letter-case rule of keyboard_get_char.  A     *)
(* character is the key and the column of the table it comes from; keys    *)
(* the tables have no entry for yield NO_CHAR (0 in the code), keys with   *)
(* the same entry in both tables always count as unshifted.                *)
(***************************************************************************)
NO_CHAR == <<0, FALSE>>
Letters == (16..25) \cup (30..38) \cup (44..50)
NoAscii == {0, 29, 42, 54, 56} \cup (58..127)
OneGlyph == {1, 14, 15, 28, 55, 57}

scancode_to_ascii(key, shift) ==
  CASE key \in NoAscii  -> NO_CHAR
    [] key \in OneGlyph -> <<key, FALSE>>
    [] OTHER            -> <<key, shift>>

Translate(key, fl) ==
  LET shift == "SHIFT" \in fl
      caps  == "CAPS" \in fl
  IN  scancode_to_ascii(key, shift \/ (caps /\ key \in Letters))
-----------------------------------------------------------------------------
(***************************************************************************)
(* The interrupt side.                                                     *)
(***************************************************************************)
keyboard_init ==
  /\ flags = {} /\ led_state = {} /\ extended_scancode = FALSE
  /\ buffer = [i \in Slots |-> 0]
  /\ buffer_head = 0 /\ buffer_tail = 0 /\ buffer_count = 0

\* Mutant: the index is not wrapped.
NextSlotUnwrapped(i) == i + 1
\* Mutant: the index does not move.
NextSlotFrozen(i) == i
NextSlot(i) == (i + 1) % KEYBOARD_BUFFER_SIZE

\* Mutant: the test for a full buffer is off by one.
PutPastEnd(key) ==
  IF buffer_count <= KEYBOARD_BUFFER_SIZE
  THEN /\ buffer' = [buffer EXCEPT ![buffer_head] = key]
       /\ buffer_head' = NextSlot(buffer_head)
       /\ buffer_count' = buffer_count + 1
       /\ accepted' = Append(accepted, key)
       /\ UNCHANGED dropped
  ELSE /\ dropped' = dropped + 1
       /\ UNCHANGED <<buffer, buffer_head, buffer_count, accepted>>

keyboard_buffer_put(key) ==
  IF buffer_count < KEYBOARD_BUFFER_SIZE
  THEN /\ buffer' = [buffer EXCEPT ![buffer_head] = key]
       /\ buffer_head' = NextSlot(buffer_head)
       /\ buffer_count' = buffer_count + 1
       /\ accepted' = Append(accepted, key)
       /\ UNCHANGED dropped
  ELSE /\ dropped' = dropped + 1
       /\ UNCHANGED <<buffer, buffer_head, buffer_count, accepted>>

\* keyboard_update_leds and keyboard_set_leds: the LEDs show the locks.
Leds(fl) == fl \cap Locks

\* Mutant: a released modifier leaves its bit set.
FlagsNoRelease(key, released) ==
  IF released THEN flags
  ELSE (flags \ Lock(key)) \cup Modifier(key) \cup (Lock(key) \ flags)
FlagsAfter(key, released) ==
  IF released THEN flags \ Modifier(key)
  ELSE (flags \ Lock(key)) \cup Modifier(key) \cup (Lock(key) \ flags)

UpdatesLeds(key, released) == Lock(key) # {} /\ ~released
\* Mutant: a release of a regular key is taken for a press.
BufferedOnRelease(key, released) == key \notin SpecialKey
Buffered(key, released) == key \notin SpecialKey /\ ~released

keyboard_handler(byte) ==
  LET key      == KeyOf(byte)
      released == IsRelease(byte)
  IN  IF byte = EXTENDED
      THEN extended_scancode' = TRUE /\ UNCHANGED <<ring, flags, led_state>>
      ELSE /\ extended_scancode' = FALSE
           /\ flags' = FlagsAfter(key, released)
           /\ led_state' = IF UpdatesLeds(key, released) THEN Leds(flags') ELSE led_state
           /\ IF Buffered(key, released) THEN keyboard_buffer_put(key) ELSE UNCHANGED ring

\* One keyboard interrupt.
KeyIrq ==
  /\ Len(accepted) + dropped < MaxKeys
  /\ \E byte \in Bytes : keyboard_handler(byte)
  /\ UNCHANGED reader
-----------------------------------------------------------------------------
(***************************************************************************)
(* The reader: keyboard_get_char, one access of keyboard_state per step.   *)
(***************************************************************************)
\* What follows each access of keyboard_buffer_get in the two orders.
Following == [source |-> [load |-> "slot",  slot |-> "tail", tail |-> "count", count |-> "map"],
              gcc    |-> [load |-> "count", slot |-> "tail", tail |-> "map",   count |-> "slot"]]

\* Step on to the next access; the last one completes the get.
Advance(code) ==
  /\ pc' = Following[Codegen][pc]
  /\ delivered' = IF pc' = "map" THEN Append(delivered, code) ELSE delivered

\* keyboard_get_char: nothing to read.
GetNothing ==
  /\ pc = "idle" /\ buffer_count = 0
  /\ char' = NO_CHAR
  /\ UNCHANGED <<ring, locks, pc, reg, scancode, buffer_tail, delivered>>

\* keyboard_get_char: go on to keyboard_buffer_get.
GetStart ==
  /\ pc = "idle" /\ buffer_count # 0
  /\ pc' = "load"
  /\ UNCHANGED <<ring, locks, reg, scancode, char, buffer_tail, delivered>>

\* keyboard_buffer_get's own test of the count, which never fails.
LoadCount ==
  /\ pc = "load" /\ buffer_count > 0
  /\ reg' = buffer_count
  /\ Advance(scancode)
  /\ UNCHANGED <<ring, locks, scancode, char, buffer_tail>>

ReadSlot ==
  /\ pc = "slot"
  /\ scancode' = buffer[buffer_tail]
  /\ Advance(scancode')
  /\ UNCHANGED <<ring, locks, reg, char, buffer_tail>>

StoreTail ==
  /\ pc = "tail"
  /\ buffer_tail' = NextSlot(buffer_tail)
  /\ Advance(scancode)
  /\ UNCHANGED <<ring, locks, reg, scancode, char>>

\* Mutant: the count keeps its value when a key is removed.
CountAfterGetKept == buffer_count
\* One decrement in memory, or the stale copy less one.
CountAfterGet == IF Codegen = "source" THEN buffer_count - 1 ELSE reg - 1

StoreCount ==
  /\ pc = "count"
  /\ buffer_count' = CountAfterGet
  /\ Advance(scancode)
  /\ UNCHANGED <<buffer, buffer_head, accepted, dropped, locks, reg, scancode, char,
                 buffer_tail>>

MapChar ==
  /\ pc = "map"
  /\ char' = Translate(scancode, flags)
  /\ pc' = "idle"
  /\ UNCHANGED <<ring, locks, reg, scancode, buffer_tail, delivered>>

keyboard_get_char ==
  GetNothing \/ GetStart \/ LoadCount \/ ReadSlot \/ StoreTail \/ StoreCount \/ MapChar
-----------------------------------------------------------------------------
Init ==
  /\ keyboard_init
  /\ pc = "idle" /\ reg = 0 /\ scancode = 0 /\ char = NO_CHAR
  /\ accepted = <<>> /\ dropped = 0 /\ delivered = <<>>

Next == KeyIrq \/ keyboard_get_char

Spec == Init /\ [][Next]_kvars
-----------------------------------------------------------------------------
TypeOK ==
  /\ flags \subseteq Modifiers \cup Locks
  /\ led_state \subseteq Locks
  /\ extended_scancode \in BOOLEAN
  /\ buffer \in [Slots -> 0..127]
  /\ buffer_head \in Slots /\ buffer_tail \in Slots
  /\ buffer_count \in 0..KEYBOARD_BUFFER_SIZE
  /\ pc \in {"idle", "load", "slot", "tail", "count", "map"}
  /\ reg \in 0..KEYBOARD_BUFFER_SIZE
  /\ scancode \in 0..127
  /\ char \in (0..127) \X BOOLEAN
  /\ accepted \in Seq(RegularKey) /\ delivered \in Seq(0..127)
  /\ dropped \in Nat

(***************************************************************************)
(* Whatever the compiler did, the count never promises more keys than were *)
(* typed and not handed over, so no key is invented.                       *)
(***************************************************************************)
CountNeverOverstates == buffer_count <= Len(accepted) - Len(delivered)

(***************************************************************************)
(* Whatever the compiler did, the i-th key handed over is the i-th key     *)
(* typed or one typed a whole number of turns of the ring later, which     *)
(* overwrote it.                                                           *)
(***************************************************************************)
OnlyOvertaken ==
  \A i \in 1..Len(delivered) : \E j \in i..Len(accepted) :
    delivered[i] = accepted[j] /\ (j - i) % KEYBOARD_BUFFER_SIZE = 0

(***************************************************************************)
(* A press of a regular key that found room is processed ("only process    *)
(* key press, not release", keyboard.c:180): when the driver reports an    *)
(* empty buffer, every key it accepted has been handed over.               *)
(***************************************************************************)
EmptyMeansAllRead ==
  pc = "idle" /\ buffer_count = 0 => Len(delivered) = Len(accepted)

(***************************************************************************)
(* The slot that the oldest key occupies.  Once the tail has moved but     *)
(* the count has not, the ring still treats the slot before it as taken.   *)
(***************************************************************************)
Oldest == IF pc = "count"
          THEN (buffer_tail + KEYBOARD_BUFFER_SIZE - 1) % KEYBOARD_BUFFER_SIZE
          ELSE buffer_tail

\* The keys in the ring, oldest first.
Contents ==
  [i \in 1..buffer_count |-> buffer[(Oldest + (i - 1)) % KEYBOARD_BUFFER_SIZE]]

(***************************************************************************)
(* Compiled in source order, the ring is a bounded FIFO whatever the       *)
(* interleaving: nothing is lost, repeated or reordered, and a key is      *)
(* dropped only when KEYBOARD_BUFFER_SIZE keys wait.                       *)
(***************************************************************************)
Fifo == INSTANCE KeyFifo WITH
          Capacity <- KEYBOARD_BUFFER_SIZE, Key <- RegularKey,
          queue <- Contents, taken <- delivered, dropped <- dropped
FifoSpec == Fifo!Spec
=============================================================================
