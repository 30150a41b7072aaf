-------------------------- MODULE KeyboardProofs ---------------------------
(***************************************************************************)
(* Proofs about module Keyboard: its variables keep their types whatever   *)
(* the compiler did, and compiled in source order the ring implements the  *)
(* bounded FIFO of module KeyFifo for every ring size, every set of scan   *)
(* codes and every interleaving.                                           *)
(***************************************************************************)
EXTENDS Keyboard, Arithmetic, SequenceTheorems, TLAPS

N == KEYBOARD_BUFFER_SIZE
-----------------------------------------------------------------------------
(***************************************************************************)
(* Arithmetic of the ring.                                                 *)
(***************************************************************************)
LEMMA ModSmall == ASSUME NEW n \in Nat \ {0}, NEW x \in 0..(n-1) PROVE x % n = x
  BY SMT

LEMMA ModOnce == ASSUME NEW n \in Nat \ {0}, NEW x \in n..(2*n-1) PROVE x % n = x - n
  BY SMT

LEMMA ModRange == ASSUME NEW n \in Nat \ {0}, NEW x \in Nat PROVE x % n \in 0..(n-1)
  BY SMT

LEMMA ModShift ==
  ASSUME NEW n \in Nat \ {0}, NEW j \in 0..(n-1)
  PROVE  (n + j) % n = j
  <1>1. n + j \in n..(2*n-1)
    OBVIOUS
  <1>2. (n + j) % n = (n + j) - n
    BY ONLY <1>1, ModOnce
  <1> QED  BY <1>2

LEMMA ModStep ==
  ASSUME NEW n \in Nat \ {0}, NEW a \in 0..(n-1), NEW j \in 0..(n-1)
  PROVE  (a + j) % n = IF a + j < n THEN a + j ELSE a + j - n
  <1>1. CASE a + j < n
    <2>1. a + j \in 0..(n-1)  BY <1>1
    <2> QED  BY <1>1, <2>1, ModSmall
  <1>2. CASE ~(a + j < n)
    <2>1. a + j \in n..(2*n-1)  BY <1>2
    <2>2. (a + j) % n = a + j - n  BY <2>1, ModOnce
    <2> QED  BY <1>2, <2>2
  <1> QED  BY <1>1, <1>2

\* Counting j slots on from the successor of slot a.
LEMMA ModSucc ==
  ASSUME NEW n \in Nat \ {0}, NEW a \in 0..(n-1), NEW j \in 0..(n-1)
  PROVE  (((a + 1) % n) + j) % n = (a + 1 + j) % n
  <1>1. CASE a + 1 < n
    <2>1. a + 1 \in 0..(n-1)  BY <1>1
    <2>2. (a + 1) % n = a + 1  BY <2>1, ModSmall
    <2> QED  BY <2>2
  <1>2. CASE a + 1 = n
    <2>1. n \in n..(2*n-1)  OBVIOUS
    <2>2. n % n = 0  BY <2>1, ModOnce
    <2>3. (a + 1 + j) % n = j  BY <1>2, ModShift
    <2>4. j % n = j  BY ModSmall
    <2> QED  BY <1>2, <2>2, <2>3, <2>4
  <1> QED  BY <1>1, <1>2

\* Different offsets reach different slots.
LEMMA ModDistinct ==
  ASSUME NEW n \in Nat \ {0}, NEW a \in 0..(n-1),
         NEW x \in 0..(n-1), NEW y \in 0..(n-1), x # y
  PROVE  (a + x) % n # (a + y) % n
  <1>1. (a + x) % n = IF a + x < n THEN a + x ELSE a + x - n
    BY ModStep
  <1>2. (a + y) % n = IF a + y < n THEN a + y ELSE a + y - n
    BY ModStep
  <1> QED  BY <1>1, <1>2

LEMMA ModAddOne ==
  ASSUME NEW n \in Nat \ {0}, NEW a \in 0..(n-1), NEW c \in 0..(n-1)
  PROVE  (((a + c) % n) + 1) % n = (a + c + 1) % n
  <1>1. CASE a + c < n
    <2>1. (a + c) % n = a + c  BY <1>1, ModStep
    <2> QED  BY <2>1
  <1>2. CASE ~(a + c < n)
    <2> DEFINE j == a + c - n + 1
    <2>1. ((a + c) % n) + 1 = j  BY <1>2, ModStep
    <2>2. j \in 0..(n-1) /\ n + j = a + c + 1  BY <1>2
    <2>3. j % n = j  BY <2>2, ModSmall
    <2>4. (n + j) % n = j  BY <2>2, ModShift
    <2> QED  BY <2>1, <2>2, <2>3, <2>4
  <1> QED  BY <1>1, <1>2

LEMMA ModPrevNext ==
  ASSUME NEW n \in Nat \ {0}, NEW i \in 0..(n-1)
  PROVE  (((i + n - 1) % n) + 1) % n = i
  BY SMT

LEMMA ModNextPrev ==
  ASSUME NEW n \in Nat \ {0}, NEW i \in 0..(n-1)
  PROVE  (((i + 1) % n) + n - 1) % n = i
  BY SMT

\* NextSlot keeps an index inside the ring.
LEMMA NextSlotInRing == ASSUME NEW i \in Slots PROVE NextSlot(i) \in Slots
  BY BufferSizeAssumption, ModRange DEF NextSlot, Slots

\* A byte splits into a seven-bit key and the release mark.
LEMMA KeyOfByte == ASSUME NEW b \in 0..255 PROVE KeyOf(b) \in 0..127
  BY DEF KeyOf
-----------------------------------------------------------------------------
(***************************************************************************)
(* Type correctness.  TypeOK is not inductive: that the decrement of the   *)
(* count stays above zero needs the fact that the test which let the       *)
(* reader in still holds at the decrement.                                 *)
(***************************************************************************)
TestStillHolds ==
  /\ Codegen = "source" /\ pc \in {"slot", "tail", "count"} => buffer_count > 0
  /\ Codegen = "gcc" /\ pc = "count" => reg > 0

TypeInv == TypeOK /\ TestStillHolds

LEMMA TypeInit == Init => TypeInv
  <1> SUFFICES ASSUME Init PROVE TypeInv  OBVIOUS
  <1> USE BufferSizeAssumption DEF Init, keyboard_init
  <1>0. /\ 0 \in Slots
        /\ buffer \in [Slots -> 0..127]
        /\ accepted \in Seq(RegularKey) /\ delivered \in Seq(0..127)
    BY DEF Slots
  <1>1. TypeOK
    BY <1>0 DEF TypeOK, NO_CHAR
  <1>2. TestStillHolds
    BY DEF TestStillHolds
  <1> QED  BY <1>1, <1>2 DEF TypeInv

LEMMA NoCharType == NO_CHAR \in (0..127) \X BOOLEAN
  <1>1. 0 \in 0..127  OBVIOUS
  <1> QED  BY <1>1, Zenon DEF NO_CHAR

LEMMA TranslateType ==
  ASSUME NEW k \in 0..127, NEW fl
  PROVE  Translate(k, fl) \in (0..127) \X BOOLEAN
  <1>2. ASSUME NEW s \in BOOLEAN PROVE scancode_to_ascii(k, s) \in (0..127) \X BOOLEAN
    <2>1. <<k, s>> \in (0..127) \X BOOLEAN /\ <<k, FALSE>> \in (0..127) \X BOOLEAN
      BY <1>2, Zenon
    <2>2. \/ scancode_to_ascii(k, s) = NO_CHAR
          \/ scancode_to_ascii(k, s) = <<k, FALSE>>
          \/ scancode_to_ascii(k, s) = <<k, s>>
      <3>1. CASE k \in NoAscii
        <4>1. k \notin OneGlyph  BY <3>1 DEF NoAscii, OneGlyph
        <4> QED  BY <3>1, <4>1 DEF scancode_to_ascii
      <3>2. CASE k \notin NoAscii /\ k \in OneGlyph
        BY <3>2 DEF scancode_to_ascii
      <3>3. CASE k \notin NoAscii /\ k \notin OneGlyph
        BY <3>3 DEF scancode_to_ascii
      <3> QED  BY <3>1, <3>2, <3>3
    <2> QED  BY NoCharType, <2>1, <2>2, Zenon
  <1> DEFINE s == "SHIFT" \in fl \/ ("CAPS" \in fl /\ k \in Letters)
  <1>3. Translate(k, fl) = scancode_to_ascii(k, s)
    BY DEF Translate
  <1> QED  BY <1>2, <1>3, Zenon

LEMMA HandlerType ==
  ASSUME TypeInv, NEW byte \in 0..255, keyboard_handler(byte), UNCHANGED reader
  PROVE  TypeInv'
  <1> DEFINE key == KeyOf(byte)
             released == IsRelease(byte)
  <1>k. key \in 0..127  BY KeyOfByte
  <1> USE DEF TypeInv
  <1>1. CASE byte = EXTENDED
    BY <1>1 DEF keyboard_handler, ring, reader, TypeOK, TestStillHolds
  <1>2. CASE byte # EXTENDED
    <2>1. /\ extended_scancode' = FALSE
          /\ flags' = FlagsAfter(key, released)
          /\ led_state' = IF UpdatesLeds(key, released) THEN Leds(flags') ELSE led_state
      BY <1>2 DEF keyboard_handler
    <2>2. FlagsAfter(key, released) \subseteq Modifiers \cup Locks
      BY DEF FlagsAfter, Modifier, Lock, Modifiers, Locks, TypeOK
    <2>3. led_state' \subseteq Locks
      BY <2>1 DEF Leds, TypeOK
    <2>4. CASE Buffered(key, released) /\ buffer_count < KEYBOARD_BUFFER_SIZE
      <3>1. /\ buffer' = [buffer EXCEPT ![buffer_head] = key]
            /\ buffer_head' = NextSlot(buffer_head)
            /\ buffer_count' = buffer_count + 1
            /\ accepted' = Append(accepted, key)
            /\ UNCHANGED dropped
        BY <1>2, <2>4 DEF keyboard_handler, keyboard_buffer_put
      <3>2. key \in RegularKey
        BY <2>4, <1>k DEF Buffered, RegularKey
      <3>3. buffer_head' \in Slots
        BY <3>1, NextSlotInRing DEF TypeOK
      <3>4. buffer_count' \in 0..KEYBOARD_BUFFER_SIZE /\ buffer_count' > buffer_count
        BY <3>1, <2>4, BufferSizeAssumption DEF TypeOK
      <3>5. buffer' \in [Slots -> 0..127]
        BY <3>1, <1>k DEF TypeOK
      <3>6. accepted' \in Seq(RegularKey)
        BY <3>1, <3>2 DEF TypeOK
      <3>7. TypeOK'
        BY <2>1, <2>2, <2>3, <3>1, <3>3, <3>4, <3>5, <3>6 DEF TypeOK, reader, Slots
      <3>8. TestStillHolds'
        BY <3>4, BufferSizeAssumption DEF TestStillHolds, reader, TypeOK
      <3> QED  BY <3>7, <3>8
    <2>5. CASE ~(Buffered(key, released) /\ buffer_count < KEYBOARD_BUFFER_SIZE)
      <3>1. /\ UNCHANGED <<buffer, buffer_head, buffer_count, accepted>>
            /\ dropped' \in Nat
        BY <1>2, <2>5 DEF keyboard_handler, keyboard_buffer_put, ring, TypeOK
      <3> QED  BY <2>1, <2>2, <2>3, <3>1 DEF TypeOK, TestStillHolds, reader, Slots
    <2> QED  BY <2>4, <2>5
  <1> QED  BY <1>1, <1>2

LEMMA ReaderType == ASSUME TypeInv, keyboard_get_char PROVE TypeInv'
  <1> USE DEF TypeInv, TestStillHolds, ring, locks
  <1>c. Codegen = "source" \/ Codegen = "gcc"  BY CodegenAssumption
  <1>a. ASSUME NEW code \in 0..127, Advance(code), pc \in {"load", "slot", "tail", "count"}
        PROVE  /\ delivered' \in Seq(0..127)
               /\ pc' \in {"slot", "tail", "count", "map"}
    <2>1. delivered' \in Seq(0..127)
      <3>1. delivered \in Seq(0..127)  BY DEF TypeOK
      <3>2. Append(delivered, code) \in Seq(0..127)  BY <3>1, <1>a
      <3> QED  BY <1>a, <3>1, <3>2 DEF Advance
    <2>2. CASE Codegen = "source"
      <3>1. pc' = [load |-> "slot", slot |-> "tail", tail |-> "count", count |-> "map"][pc]
        BY <1>a, <2>2 DEF Advance, Following
      <3> QED  BY <3>1, <2>1, <1>a
    <2>3. CASE Codegen = "gcc"
      BY <1>a, <2>3, <2>1 DEF Advance, Following
    <2> QED  BY <2>2, <2>3, <1>c
  <1>1. CASE GetNothing
    <2>1. char' \in (0..127) \X BOOLEAN
      BY <1>1, NoCharType DEF GetNothing
    <2> QED  BY <1>1, <2>1 DEF GetNothing, TypeOK, Slots
  <1>2. CASE GetStart
    BY <1>2 DEF GetStart, TypeOK, Slots
  <1>3. CASE LoadCount
    <2>1. delivered' \in Seq(0..127) /\ pc' \in {"slot", "tail", "count", "map"}
      BY <1>3, <1>a DEF LoadCount, TypeOK
    <2>2. TypeOK'  BY <1>3, <2>1 DEF LoadCount, TypeOK, Slots
    <2>3. TestStillHolds'
      BY <1>3, <1>c DEF LoadCount, Advance, Following
    <2> QED  BY <2>2, <2>3
  <1>4. CASE ReadSlot
    <2>1. scancode' \in 0..127
      BY <1>4 DEF ReadSlot, TypeOK
    <2>2. delivered' \in Seq(0..127) /\ pc' \in {"slot", "tail", "count", "map"}
      BY <1>4, <1>a, <2>1 DEF ReadSlot
    <2>3. TypeOK'  BY <1>4, <2>1, <2>2 DEF ReadSlot, TypeOK, Slots
    <2>4. TestStillHolds'
      BY <1>4, <1>c DEF ReadSlot, Advance, Following
    <2> QED  BY <2>3, <2>4
  <1>5. CASE StoreTail
    <2>1. delivered' \in Seq(0..127) /\ pc' \in {"slot", "tail", "count", "map"}
      BY <1>5, <1>a DEF StoreTail, TypeOK
    <2>2. buffer_tail' \in Slots
      BY <1>5, NextSlotInRing DEF StoreTail, TypeOK
    <2>3. TypeOK'  BY <1>5, <2>1, <2>2 DEF StoreTail, TypeOK, Slots
    <2>4. TestStillHolds'
      BY <1>5, <1>c DEF StoreTail, Advance, Following
    <2> QED  BY <2>3, <2>4
  <1>6. CASE StoreCount
    <2>1. delivered' \in Seq(0..127) /\ pc' \in {"slot", "tail", "count", "map"}
      BY <1>6, <1>a DEF StoreCount, TypeOK
    <2>2. buffer_count' \in 0..KEYBOARD_BUFFER_SIZE
      BY <1>6, <1>c, BufferSizeAssumption DEF StoreCount, CountAfterGet, TypeOK
    <2>3. TypeOK'  BY <1>6, <2>1, <2>2 DEF StoreCount, TypeOK, Slots
    <2>4. TestStillHolds'
      BY <1>6, <1>c DEF StoreCount, Advance, Following
    <2> QED  BY <2>3, <2>4
  <1>7. CASE MapChar
    <2>1. char' \in (0..127) \X BOOLEAN
      BY <1>7, TranslateType DEF MapChar, TypeOK
    <2> QED  BY <1>7, <2>1, SMTT(40) DEF MapChar, TypeOK, Slots
  <1> QED
    BY <1>1, <1>2, <1>3, <1>4, <1>5, <1>6, <1>7 DEF keyboard_get_char

LEMMA TypeStep == TypeInv /\ [Next]_kvars => TypeInv'
  <1> SUFFICES ASSUME TypeInv, [Next]_kvars PROVE TypeInv'  OBVIOUS
  <1>1. CASE KeyIrq
    BY <1>1, HandlerType, BytesAssumption DEF KeyIrq
  <1>2. CASE keyboard_get_char
    BY <1>2, ReaderType
  <1>3. CASE UNCHANGED kvars
    BY <1>3 DEF kvars, ring, locks, reader, TypeInv, TypeOK, TestStillHolds, Slots
  <1> QED  BY <1>1, <1>2, <1>3 DEF Next

(***************************************************************************)
(* Every field of keyboard_state stays in range, and every index stays     *)
(* inside the ring, for every ring size and both access orders.            *)
(***************************************************************************)
THEOREM TypeCorrect == Spec => []TypeOK
  <1>1. TypeInv => TypeOK  BY DEF TypeInv
  <1> QED  BY <1>1, TypeInit, TypeStep, PTL DEF Spec
-----------------------------------------------------------------------------
(***************************************************************************)
(* The count under either access order.  With the stale copy written back  *)
(* first, the count is one behind until the key is handed over; and the    *)
(* copy itself can only be too low, because the handler only adds keys.    *)
(***************************************************************************)
Unread == Len(accepted) - Len(delivered)

CountInv ==
  /\ buffer_count <= Unread
  /\ Codegen = "gcc" /\ pc = "count" => reg <= Unread
  /\ Codegen = "gcc" /\ pc \in {"slot", "tail"} => buffer_count < Unread

LEMMA IrqCount ==
  ASSUME TypeInv, CountInv, KeyIrq
  PROVE  CountInv'
  <1>1. PICK byte \in Bytes : keyboard_handler(byte) /\ UNCHANGED reader
    BY DEF KeyIrq
  <1>2. \/ UNCHANGED <<buffer_count, accepted>>
        \/ /\ buffer_count' = buffer_count + 1
           /\ accepted' = Append(accepted, KeyOf(byte))
    BY <1>1 DEF keyboard_handler, keyboard_buffer_put, ring
  <1>3. Len(accepted) \in Nat /\ Len(delivered) \in Nat
    BY LenProperties DEF TypeInv, TypeOK
  <1>4. Len(Append(accepted, KeyOf(byte))) = Len(accepted) + 1
    BY DEF TypeInv, TypeOK
  <1>5. /\ UNCHANGED <<pc, reg, delivered>>
        /\ \/ UNCHANGED <<buffer_count, Len(accepted)>>
           \/ buffer_count' = buffer_count + 1 /\ Len(accepted)' = Len(accepted) + 1
    BY <1>1, <1>2, <1>4 DEF reader
  <1> QED  BY <1>3, <1>5 DEF CountInv, Unread, TypeInv, TypeOK

LEMMA ReaderCount ==
  ASSUME TypeInv, CountInv, keyboard_get_char
  PROVE  CountInv'
  <1> USE DEF TypeInv, TypeOK, CountInv, Unread
  <1>c. Codegen = "source" \/ Codegen = "gcc"
    BY CodegenAssumption
  <1>l. /\ Len(accepted) \in Nat /\ Len(delivered) \in Nat
        /\ \A code : Len(Append(delivered, code)) = Len(delivered) + 1
    BY LenProperties
  <1>1. CASE GetNothing \/ GetStart \/ MapChar
    BY <1>1 DEF GetNothing, GetStart, MapChar, ring
  <1>2. CASE LoadCount
    BY <1>2, <1>c DEF LoadCount, Advance, Following, ring
  <1>3. CASE ReadSlot
    BY <1>3, <1>c DEF ReadSlot, Advance, Following, ring
  <1>4. CASE StoreTail
    BY <1>4, <1>c, <1>l DEF StoreTail, Advance, Following, ring
  <1>5. CASE StoreCount
    <2>1. CASE Codegen = "source"
      <3>1. /\ buffer_count' = buffer_count - 1 /\ pc' = "map"
            /\ UNCHANGED accepted /\ delivered' = Append(delivered, scancode)
        BY <1>5, <2>1 DEF StoreCount, CountAfterGet, Advance, Following
      <3> QED  BY <2>1, <3>1, <1>l
    <2>2. CASE Codegen = "gcc"
      <3>1. /\ buffer_count' = reg - 1 /\ pc = "count" /\ pc' = "slot"
            /\ UNCHANGED <<accepted, delivered>>
        BY <1>5, <2>2 DEF StoreCount, CountAfterGet, Advance, Following
      <3> QED  BY <2>2, <3>1, <1>l
    <2> QED  BY <2>1, <2>2, <1>c
  <1> QED
    BY <1>1, <1>2, <1>3, <1>4, <1>5 DEF keyboard_get_char

(***************************************************************************)
(* Under either access order the ring never counts more keys than were     *)
(* typed and not handed over: a key may be forgotten, none is invented.    *)
(***************************************************************************)
THEOREM NoKeyInvented == Spec => []CountNeverOverstates
  <1>1. Init => CountInv
    BY DEF Init, keyboard_init, CountInv, Unread
  <1>2. TypeInv /\ CountInv /\ [Next]_kvars => CountInv'
    <2> SUFFICES ASSUME TypeInv, CountInv, [Next]_kvars PROVE CountInv'  OBVIOUS
    <2>1. CASE UNCHANGED kvars
      BY <2>1 DEF kvars, ring, reader, CountInv, Unread
    <2> QED  BY <2>1, IrqCount, ReaderCount DEF Next
  <1>3. CountInv => CountNeverOverstates
    BY DEF CountInv, CountNeverOverstates, Unread
  <1> QED  BY <1>1, <1>2, <1>3, TypeInit, TypeStep, PTL DEF Spec
-----------------------------------------------------------------------------
(***************************************************************************)
(* The refinement.  RingInv ties the two indices to the count and says     *)
(* what the reader holds: the head is buffer_count slots on from the       *)
(* oldest key, and the code read but not yet removed is that key.          *)
(***************************************************************************)
RingInv ==
  /\ buffer_head = (Oldest + buffer_count) % N
  /\ pc \in {"tail", "count"} => scancode = buffer[Oldest]

FifoInv == TypeInv /\ RingInv

LEMMA OldestInRing == TypeOK => Oldest \in Slots
  <1> SUFFICES ASSUME TypeOK PROVE Oldest \in Slots  OBVIOUS
  <1>1. buffer_tail + N - 1 \in Nat
    BY BufferSizeAssumption DEF TypeOK, Slots, N
  <1>2. (buffer_tail + N - 1) % N \in 0..(N-1)
    BY <1>1, ModRange, BufferSizeAssumption DEF N
  <1> QED  BY <1>2 DEF Oldest, TypeOK, Slots, N

LEMMA FifoInit == Init => FifoInv /\ Fifo!Init
  <1> SUFFICES ASSUME Init PROVE FifoInv /\ Fifo!Init  OBVIOUS
  <1>1. TypeInv  BY TypeInit
  <1>2. /\ Oldest = 0 /\ buffer_count = 0 /\ buffer_head = 0 /\ pc = "idle"
        /\ delivered = <<>> /\ dropped = 0
    BY DEF Init, keyboard_init, Oldest
  <1>3. 0 % N = 0
    BY ModSmall, BufferSizeAssumption DEF N
  <1>4. Contents = <<>>
    BY <1>2 DEF Contents
  <1> QED  BY <1>1, <1>2, <1>3, <1>4 DEF FifoInv, RingInv, Fifo!Init

\* Storing a key appends it to the contents.
LEMMA PutAppends ==
  ASSUME Codegen = "source", FifoInv, NEW key \in RegularKey, UNCHANGED reader,
         buffer_count < KEYBOARD_BUFFER_SIZE,
         buffer' = [buffer EXCEPT ![buffer_head] = key],
         buffer_head' = NextSlot(buffer_head),
         buffer_count' = buffer_count + 1
  PROVE  /\ Contents' = Append(Contents, key)
         /\ RingInv'
  <1> DEFINE at(i) == (Oldest + (i - 1)) % N
  <1> USE DEF FifoInv, TypeInv, RingInv
  <1>n. N \in Nat \ {0} /\ Slots = 0..(N-1)
    BY BufferSizeAssumption DEF N, Slots
  <1>c. buffer_count \in 0..(N-1)
    BY <1>n DEF TypeOK, N
  <1>o. Oldest \in 0..(N-1) /\ Oldest' = Oldest
    BY OldestInRing, <1>n DEF Oldest, reader
  <1>h. buffer_head \in 0..(N-1) /\ buffer_head = at(buffer_count + 1)
    BY <1>c, <1>o, <1>n DEF TypeOK
  <1>1. ASSUME NEW i \in 1..buffer_count
        PROVE  at(i) \in Slots /\ at(i) # buffer_head
    <2>1. i - 1 \in 0..(N-1) /\ i - 1 # buffer_count /\ Oldest + (i - 1) \in Nat
      BY <1>c, <1>o, <1>n
    <2>2. (Oldest + (i - 1)) % N # (Oldest + buffer_count) % N
      BY <2>1, <1>n, <1>c, <1>o, ModDistinct
    <2>3. at(i) \in 0..(N-1)
      BY <2>1, <1>n, ModRange
    <2> QED  BY <2>2, <2>3, <1>n
  <1>2. ASSUME NEW i \in 1..buffer_count
        PROVE  buffer'[at(i)] = buffer[at(i)]
    BY <1>1 DEF TypeOK
  <1>3. buffer'[at(buffer_count + 1)] = key
    BY <1>h, <1>n DEF TypeOK
  <1>4. Contents' = [i \in 1..(buffer_count + 1) |-> buffer'[at(i)]]
    BY <1>o DEF Contents, N
  <1>5. Contents = [i \in 1..buffer_count |-> buffer[at(i)]]
    BY DEF Contents, N
  <1>6. Contents' = Append(Contents, key)
    <2> DEFINE new == [i \in 1..(buffer_count + 1) |-> buffer'[at(i)]]
               old == [i \in 1..buffer_count |-> buffer[at(i)]]
    <2>1. Len(old) = buffer_count /\ DOMAIN old = 1..buffer_count
      BY <1>c
    <2>2. Append(old, key) = [i \in 1..(buffer_count + 1) |->
                                IF i = buffer_count + 1 THEN key ELSE old[i]]
      BY <2>1, <1>c
    <2>3. ASSUME NEW i \in 1..(buffer_count + 1)
          PROVE  buffer'[at(i)] = IF i = buffer_count + 1 THEN key ELSE old[i]
      BY <1>2, <1>3, <1>c
    <2> HIDE DEF at
    <2>4. new = Append(old, key)
      BY <2>2, <2>3
    <2> QED  BY <2>4, <1>4, <1>5
  <1>7. buffer_head' = (Oldest + (buffer_count + 1)) % N
    <2>1. (((Oldest + buffer_count) % N) + 1) % N = (Oldest + buffer_count + 1) % N
      BY <1>n, <1>o, <1>c, ModAddOne
    <2> QED  BY <2>1, <1>o, <1>c DEF NextSlot, N
  <1>8. pc' \in {"tail", "count"} => scancode' = buffer'[Oldest']
    <2> SUFFICES ASSUME pc \in {"tail", "count"} PROVE scancode = buffer'[Oldest]
      BY <1>o DEF reader
    <2>1. buffer_count > 0
      BY DEF TestStillHolds
    <2>2. at(1) = Oldest
      BY <1>o, <1>n, ModSmall
    <2> QED  BY <2>1, <2>2, <1>2, <1>c
  <1> QED  BY <1>6, <1>7, <1>8, <1>o DEF RingInv

LEMMA HandlerRefines ==
  ASSUME Codegen = "source", FifoInv,
         NEW byte \in 0..255, keyboard_handler(byte), UNCHANGED reader
  PROVE  FifoInv' /\ [Fifo!Next]_(Fifo!vars)
  <1> USE DEF FifoInv
  <1>2. TypeInv'
    BY HandlerType
  <1> DEFINE key == KeyOf(byte)
             buffered == byte # EXTENDED /\ Buffered(key, IsRelease(byte))
  <1>3. CASE ~buffered
    <2>1. UNCHANGED <<ring, reader>>
      BY <1>3 DEF keyboard_handler
    <2>2. RingInv' /\ Contents' = Contents
      BY <2>1 DEF ring, reader, RingInv, Oldest, Contents
    <2> QED  BY <1>2, <2>1, <2>2 DEF Fifo!vars, ring, reader
  <1>4. CASE buffered /\ buffer_count < KEYBOARD_BUFFER_SIZE
    <2>1. key \in RegularKey
      BY <1>4, KeyOfByte DEF Buffered, RegularKey
    <2>2. /\ buffer' = [buffer EXCEPT ![buffer_head] = key]
          /\ buffer_head' = NextSlot(buffer_head)
          /\ buffer_count' = buffer_count + 1
          /\ UNCHANGED <<dropped, delivered>>
      BY <1>4 DEF keyboard_handler, keyboard_buffer_put, reader
    <2>3. Contents' = Append(Contents, key) /\ RingInv'
      BY <1>4, <2>1, <2>2, PutAppends
    <2>4. Len(Contents) < KEYBOARD_BUFFER_SIZE
      BY <1>4, BufferSizeAssumption DEF Contents, TypeInv, TypeOK
    <2>5. Fifo!Put(key)
      BY <2>2, <2>3, <2>4 DEF Fifo!Put
    <2> QED  BY <1>2, <2>1, <2>3, <2>5 DEF Fifo!Next
  <1>5. CASE buffered /\ ~(buffer_count < KEYBOARD_BUFFER_SIZE)
    <2>1. /\ dropped' = dropped + 1
          /\ UNCHANGED <<buffer, buffer_head, buffer_count, reader>>
      BY <1>5 DEF keyboard_handler, keyboard_buffer_put
    <2>2. RingInv' /\ Contents' = Contents
      BY <2>1 DEF reader, RingInv, Oldest, Contents
    <2>3. Len(Contents) = KEYBOARD_BUFFER_SIZE
      BY <1>5, BufferSizeAssumption DEF Contents, TypeInv, TypeOK
    <2>4. Fifo!Drop
      BY <2>1, <2>2, <2>3 DEF Fifo!Drop, reader
    <2> QED  BY <1>2, <2>2, <2>4 DEF Fifo!Next
  <1> QED  BY <1>3, <1>4, <1>5

LEMMA TailShifts ==
  ASSUME NEW S, NEW s \in Seq(S), s # <<>>
  PROVE  Tail(s) = [i \in 1..(Len(s) - 1) |-> s[i + 1]]
  <1>1. Tail(s) \in Seq(S) /\ Len(Tail(s)) = Len(s) - 1
    BY HeadTailProperties
  <1>2. \A i \in 1..Len(Tail(s)) : Tail(s)[i] = s[i + 1]
    BY HeadTailProperties
  <1>3. Tail(s) \in [1..Len(Tail(s)) -> S]
    BY <1>1, LenProperties
  <1>4. Tail(s) = [i \in 1..(Len(s) - 1) |-> Tail(s)[i]]
    BY <1>1, <1>3
  <1> QED  BY <1>1, <1>2, <1>4

\* The step that lowers the count hands over the oldest key.
LEMMA CountTakes ==
  ASSUME Codegen = "source", FifoInv, StoreCount
  PROVE  RingInv' /\ Fifo!Take
  <1> USE DEF FifoInv, TypeInv, RingInv
  <1>n. N \in Nat \ {0} /\ Slots = 0..(N-1)
    BY BufferSizeAssumption DEF N, Slots
  <1>1. /\ pc = "count" /\ pc' = "map" /\ buffer_count' = buffer_count - 1
        /\ delivered' = Append(delivered, scancode)
        /\ UNCHANGED <<buffer, buffer_head, buffer_tail, dropped>>
    BY DEF StoreCount, CountAfterGet, Advance, Following
  <1>2. buffer_count \in 1..N
    BY <1>1 DEF TestStillHolds, TypeOK, N
  <1>3. Oldest \in 0..(N-1) /\ buffer_tail \in 0..(N-1)
    BY OldestInRing, <1>n DEF TypeOK
  <1>4. Oldest' = buffer_tail /\ buffer_tail = (Oldest + 1) % N
    <2>1. Oldest = (buffer_tail + N - 1) % N
      BY <1>1 DEF Oldest, N
    <2> QED  BY <2>1, <1>1, <1>n, <1>3, ModPrevNext DEF Oldest
  <1>5. ASSUME NEW i \in 1..(buffer_count - 1)
        PROVE  (buffer_tail + (i - 1)) % N = (Oldest + ((i + 1) - 1)) % N
    <2>1. i - 1 \in 0..(N-1)  BY <1>2, <1>n
    <2>2. (((Oldest + 1) % N) + (i - 1)) % N = (Oldest + 1 + (i - 1)) % N
      BY <2>1, <1>3, <1>n, ModSucc
    <2>3. Oldest + 1 + (i - 1) = Oldest + ((i + 1) - 1)
      BY <1>3
    <2> QED  BY <2>2, <2>3, <1>4
  <1>6. RingInv'
    <2>1. buffer_count - 1 \in 0..(N-1)  BY <1>2, <1>n
    <2>2. (((Oldest + 1) % N) + (buffer_count - 1)) % N = (Oldest + 1 + (buffer_count - 1)) % N
      BY <2>1, <1>3, <1>n, ModSucc
    <2>3. Oldest + 1 + (buffer_count - 1) = Oldest + buffer_count
      BY <1>2, <1>3
    <2> QED  BY <2>2, <2>3, <1>1, <1>4 DEF RingInv
  <1>7. /\ Contents \in Seq(0..127) /\ Len(Contents) = buffer_count
        /\ \A i \in 1..buffer_count : Contents[i] = buffer[(Oldest + (i - 1)) % N]
    <2>1. ASSUME NEW i \in 1..buffer_count
          PROVE  buffer[(Oldest + (i - 1)) % N] \in 0..127
      <3>1. Oldest + (i - 1) \in Nat  BY <1>2, <1>3
      <3>2. (Oldest + (i - 1)) % N \in Slots  BY <3>1, <1>n, ModRange
      <3> QED  BY <3>2 DEF TypeOK
    <2> QED  BY <2>1, <1>2, <1>n DEF Contents, N
  <1>8. Contents # <<>> /\ Head(Contents) = scancode
    <2>1. Contents[1] = buffer[(Oldest + (1 - 1)) % N]
      BY <1>2, <1>7
    <2>2. (Oldest + (1 - 1)) % N = Oldest
      BY <1>3, <1>n, ModSmall
    <2>3. scancode = buffer[Oldest]
      BY <1>1
    <2> QED  BY <2>1, <2>2, <2>3, <1>2, <1>7
  <1>9. Contents' = Tail(Contents)
    <2>1. Contents' = [i \in 1..(buffer_count - 1) |-> buffer[(buffer_tail + (i - 1)) % N]]
      BY <1>1, <1>4 DEF Contents, N
    <2>2. Tail(Contents) = [i \in 1..(buffer_count - 1) |-> Contents[i + 1]]
      BY <1>7, <1>8, TailShifts
    <2>3. ASSUME NEW i \in 1..(buffer_count - 1)
          PROVE  buffer[(buffer_tail + (i - 1)) % N] = Contents[i + 1]
      <3>1. i + 1 \in 1..buffer_count  BY <1>2
      <3>2. Contents[i + 1] = buffer[(Oldest + ((i + 1) - 1)) % N]  BY <3>1, <1>7
      <3> QED  BY <3>2, <1>5
    <2> QED  BY <2>1, <2>2, <2>3
  <1> QED  BY <1>1, <1>6, <1>8, <1>9 DEF Fifo!Take

LEMMA ReaderRefines ==
  ASSUME Codegen = "source", FifoInv, keyboard_get_char
  PROVE  FifoInv' /\ [Fifo!Next]_(Fifo!vars)
  <1> USE DEF FifoInv
  <1>t. TypeInv'
    BY ReaderType
  <1>1. CASE GetNothing \/ GetStart \/ LoadCount \/ MapChar
    <2>1. /\ UNCHANGED <<buffer, buffer_head, buffer_tail, buffer_count, dropped, delivered>>
          /\ pc # "count" /\ pc' \notin {"tail", "count"}
      BY <1>1 DEF GetNothing, GetStart, LoadCount, MapChar, Advance, Following, ring
    <2>2. RingInv' /\ Contents' = Contents
      BY <2>1 DEF RingInv, Oldest, Contents
    <2> QED  BY <1>t, <2>1, <2>2 DEF Fifo!vars
  <1>2. CASE ReadSlot
    <2>1. /\ UNCHANGED <<buffer, buffer_head, buffer_tail, buffer_count, dropped, delivered>>
          /\ pc = "slot" /\ pc' = "tail" /\ scancode' = buffer[buffer_tail]
      BY <1>2 DEF ReadSlot, Advance, Following, ring
    <2>2. RingInv' /\ Contents' = Contents
      BY <2>1 DEF RingInv, Oldest, Contents
    <2> QED  BY <1>t, <2>1, <2>2 DEF Fifo!vars
  <1>3. CASE StoreTail
    <2>1. /\ UNCHANGED <<buffer, buffer_head, buffer_count, dropped, delivered, scancode>>
          /\ pc = "tail" /\ pc' = "count" /\ buffer_tail' = (buffer_tail + 1) % N
      BY <1>3 DEF StoreTail, Advance, Following, ring, NextSlot, N
    <2>2. Oldest' = Oldest
      <3>1. (((buffer_tail + 1) % N) + N - 1) % N = buffer_tail
        BY ModNextPrev, BufferSizeAssumption DEF TypeInv, TypeOK, Slots, N
      <3> QED  BY <3>1, <2>1 DEF Oldest, N
    <2>3. RingInv' /\ Contents' = Contents
      BY <2>1, <2>2 DEF RingInv, Contents
    <2> QED  BY <1>t, <2>1, <2>3 DEF Fifo!vars
  <1>4. CASE StoreCount
    BY <1>4, <1>t, CountTakes DEF Fifo!Next
  <1> QED  BY <1>1, <1>2, <1>3, <1>4 DEF keyboard_get_char

LEMMA FifoStep ==
  ASSUME Codegen = "source"
  PROVE  FifoInv /\ [Next]_kvars => FifoInv' /\ [Fifo!Next]_(Fifo!vars)
  <1> SUFFICES ASSUME FifoInv, [Next]_kvars
               PROVE  FifoInv' /\ [Fifo!Next]_(Fifo!vars)
    OBVIOUS
  <1>1. CASE KeyIrq
    BY <1>1, HandlerRefines, BytesAssumption DEF KeyIrq
  <1>2. CASE keyboard_get_char
    BY <1>2, ReaderRefines
  <1>3. CASE UNCHANGED kvars
    <2>1. TypeInv'  BY <1>3, TypeStep DEF FifoInv
    <2>2. RingInv' /\ Contents' = Contents
      BY <1>3 DEF FifoInv, kvars, ring, reader, RingInv, Oldest, Contents
    <2> QED  BY <1>3, <2>1, <2>2 DEF FifoInv, Fifo!vars, kvars, ring, reader
  <1> QED  BY <1>1, <1>2, <1>3 DEF Next

(***************************************************************************)
(* Compiled in source order, the ring implements the bounded FIFO: for     *)
(* every ring size, every key and every point at which the interrupt       *)
(* strikes keyboard_get_char, no key is lost, repeated or reordered, and   *)
(* one is dropped only when the ring is full.                              *)
(***************************************************************************)
THEOREM RingIsFifo ==
  ASSUME Codegen = "source"
  PROVE  Spec => FifoSpec
  <1> QED  BY FifoInit, FifoStep, PTL DEF Spec, FifoSpec, Fifo!Spec
-----------------------------------------------------------------------------
(***************************************************************************)
(* The ring under either access order.  The head has made Len(accepted)    *)
(* steps and the tail one per key handed over, so each is known modulo the *)
(* size of the ring, however far the head has run ahead; a slot holds the  *)
(* key that was last typed into it; and the code the reader has picked up  *)
(* is the key whose turn it is or one that overtook it.                    *)
(***************************************************************************)
LEMMA ModNext ==
  ASSUME NEW n \in Nat \ {0}, NEW x \in Nat
  PROVE  ((x % n) + 1) % n = (x + 1) % n
  <1>1. PICK q \in Nat, m \in 0..n-1 : x = n * q + m /\ x % n = m
    BY Quotient
  <1>2. CASE m + 1 < n
    <2>1. x + 1 = n * q + (m + 1) /\ m + 1 \in 0..n-1 /\ x + 1 \in Nat
      BY <1>1, <1>2, ProductOfNats
    <2>2. (x + 1) % n = m + 1
      BY ONLY <2>1, QuotientUnique, n \in Nat \ {0}, q \in Nat
    <2>3. (m + 1) % n = m + 1
      BY <2>1, ModSmall
    <2> QED  BY <1>1, <2>2, <2>3
  <1>3. CASE m + 1 = n
    <2>1. x + 1 = n * (q + 1) + 0 /\ 0 \in 0..n-1 /\ x + 1 \in Nat /\ q + 1 \in Nat
      BY <1>1, <1>3, ProductOfNats
    <2>2. (x + 1) % n = 0
      BY ONLY <2>1, QuotientUnique, n \in Nat \ {0}
    <2>3. (m + 1) % n = 0
      BY <1>3, ModOnce
    <2> QED  BY <1>1, <2>2, <2>3
  <1> QED  BY <1>2, <1>3

\* Two numbers less than a turn apart name different slots.
LEMMA ModApart ==
  ASSUME NEW n \in Nat \ {0}, NEW x \in Nat, NEW y \in Nat, x < y, y - x < n
  PROVE  x % n # y % n
  <1>1. PICK q \in Nat, m \in 0..n-1 : x = n * q + m /\ x % n = m
    BY Quotient
  <1>2. PICK k \in 1..n-1 : y = x + k
    <2>1. y - x \in 1..n-1 /\ y = x + (y - x)
      OBVIOUS
    <2> QED  BY <2>1
  <1>3. CASE m + k < n
    <2>1. y = n * q + (m + k) /\ m + k \in 0..n-1
      BY <1>1, <1>2, <1>3, ProductOfNats
    <2>2. y % n = m + k
      BY ONLY <2>1, QuotientUnique, n \in Nat \ {0}, q \in Nat, y \in Nat
    <2> QED  BY <1>1, <2>2
  <1>4. CASE ~(m + k < n)
    <2>1. y = n * (q + 1) + (m + k - n) /\ m + k - n \in 0..n-1 /\ q + 1 \in Nat
      BY <1>1, <1>2, <1>4, ProductOfNats
    <2>2. y % n = m + k - n
      BY ONLY <2>1, QuotientUnique, n \in Nat \ {0}, y \in Nat
    <2> QED  BY <1>1, <2>2
  <1> QED  BY <1>3, <1>4

\* Of the a keys typed, the last one that went into the slot of key d + 1.
LEMMA LastIntoSlot ==
  ASSUME NEW n \in Nat \ {0}, NEW a \in Nat, NEW d \in Nat, d < a
  PROVE  \E j \in (d+1)..a : j + n > a /\ (j - (d + 1)) % n = 0 /\ (j - 1) % n = d % n
  <1>1. a - 1 - d \in Nat
    OBVIOUS
  <1>2. PICK q \in Nat, r \in 0..n-1 : a - 1 - d = n * q + r
    BY <1>1, Quotient
  <1>3. PICK p \in Nat, m \in 0..n-1 : d = n * p + m /\ d % n = m
    BY Quotient
  <1>4. PICK turns \in Nat : turns = n * q
    BY ProductOfNats
  <1> DEFINE j == d + 1 + turns
  <1>5. j \in (d+1)..a /\ j + n > a
    BY <1>2, <1>4
  <1>6. turns % n = 0
    <2>1. turns = n * q + 0 /\ 0 \in 0..n-1
      BY <1>4
    <2> QED  BY ONLY <2>1, QuotientUnique, n \in Nat \ {0}, q \in Nat, turns \in Nat
  <1>7. (d + turns) % n = m
    <2>1. n * (p + q) = n * p + n * q
      BY SMT
    <2>2. d + turns = n * (p + q) + m /\ d + turns \in Nat /\ p + q \in Nat
      BY <1>3, <1>4, <2>1, ProductOfNats
    <2> QED  BY ONLY <2>2, QuotientUnique, n \in Nat \ {0}, m \in 0..n-1
  <1>8. j - (d + 1) = turns /\ j - 1 = d + turns
    BY <1>4
  <1> QED  BY <1>3, <1>5, <1>6, <1>7, <1>8

\* In source order the tail moves before the key is handed over.
TailMoved == Codegen = "source" /\ pc = "count"

\* The reader has picked a code up and not handed it over.
CodeRead == \/ Codegen = "source" /\ pc \in {"tail", "count"}
            \/ Codegen = "gcc" /\ pc = "tail"

\* code was typed i-th or a whole number of turns of the ring later.
TypedFor(code, i) ==
  \E j \in i..Len(accepted) : code = accepted[j] /\ (j - i) % KEYBOARD_BUFFER_SIZE = 0

SlotsHoldLast ==
  \A j \in 1..Len(accepted) :
    j + KEYBOARD_BUFFER_SIZE > Len(accepted) =>
      buffer[(j - 1) % KEYBOARD_BUFFER_SIZE] = accepted[j]

HeadInv == /\ buffer_head = Len(accepted) % KEYBOARD_BUFFER_SIZE
           /\ SlotsHoldLast
TailInv == buffer_tail = (IF TailMoved THEN Len(delivered) + 1 ELSE Len(delivered))
                           % KEYBOARD_BUFFER_SIZE
ReadInv == /\ CodeRead => TypedFor(scancode, Len(delivered) + 1)
           /\ \A i \in 1..Len(delivered) : TypedFor(delivered[i], i)

TurnInv == TypeInv /\ CountInv /\ HeadInv /\ TailInv /\ ReadInv

LEMMA TurnInit == Init => TurnInv
  <1> SUFFICES ASSUME Init PROVE TurnInv  OBVIOUS
  <1>1. TypeInv  BY TypeInit
  <1>2. Len(accepted) = 0 /\ Len(delivered) = 0 /\ pc = "idle" /\ buffer_head = 0 /\ buffer_tail = 0
    BY DEF Init, keyboard_init
  <1>3. CountInv
    BY <1>2 DEF Init, keyboard_init, CountInv, Unread
  <1>4. 0 % KEYBOARD_BUFFER_SIZE = 0
    BY ModSmall, BufferSizeAssumption
  <1>5. HeadInv /\ TailInv /\ ReadInv
    BY <1>2, <1>4 DEF HeadInv, SlotsHoldLast, TailInv, TailMoved, ReadInv, CodeRead
  <1> QED  BY <1>1, <1>3, <1>5 DEF TurnInv

\* What was typed for a turn stays typed for it.
LEMMA StaysTyped ==
  ASSUME TypeInv,
         \/ accepted' = accepted
         \/ \E key : accepted' = Append(accepted, key),
         NEW code, NEW i \in Nat \ {0}, TypedFor(code, i)
  PROVE  TypedFor(code, i)'
  <1>1. Len(accepted) \in Nat
    BY LenProperties DEF TypeInv, TypeOK
  <1>2. \A j \in 1..Len(accepted) : j \in 1..Len(accepted') /\ accepted'[j] = accepted[j]
    <2>1. CASE accepted' = accepted
      BY <2>1
    <2>2. CASE \E key : accepted' = Append(accepted, key)
      <3>1. PICK key : accepted' = Append(accepted, key)
        BY <2>2
      <3>2. /\ Len(Append(accepted, key)) = Len(accepted) + 1
            /\ \A j \in 1..Len(accepted) : Append(accepted, key)[j] = accepted[j]
        BY DEF TypeInv, TypeOK
      <3> QED  BY <1>1, <3>1, <3>2
    <2> QED  BY <2>1, <2>2
  <1>3. PICK j \in i..Len(accepted) : code = accepted[j] /\ (j - i) % KEYBOARD_BUFFER_SIZE = 0
    BY DEF TypedFor
  <1>4. j \in i..Len(accepted') /\ accepted'[j] = accepted[j]
    BY <1>1, <1>2, <1>3
  <1> QED  BY <1>3, <1>4 DEF TypedFor

\* The interrupt: the new key takes the slot of the oldest turn.
LEMMA IrqTurn ==
  ASSUME TurnInv, KeyIrq
  PROVE  TurnInv'
  <1> USE DEF TurnInv
  <1>1. PICK byte \in Bytes : keyboard_handler(byte) /\ UNCHANGED reader
    BY DEF KeyIrq
  <1> DEFINE key == KeyOf(byte)
  <1>t. TypeInv' /\ CountInv'
    BY <1>1, HandlerType, BytesAssumption, IrqCount
  <1>l. /\ Len(accepted) \in Nat /\ Len(delivered) \in Nat
        /\ accepted \in Seq(RegularKey)
        /\ KEYBOARD_BUFFER_SIZE \in Nat \ {0}
    BY LenProperties, BufferSizeAssumption DEF TypeInv, TypeOK
  <1>2. \/ UNCHANGED <<buffer, buffer_head, accepted>>
        \/ /\ buffer' = [buffer EXCEPT ![buffer_head] = key]
           /\ buffer_head' = NextSlot(buffer_head)
           /\ accepted' = Append(accepted, key)
    BY <1>1 DEF keyboard_handler, keyboard_buffer_put, ring
  <1>3. HeadInv'
    <2>1. CASE UNCHANGED <<buffer, buffer_head, accepted>>
      BY <2>1 DEF HeadInv, SlotsHoldLast
    <2>2. CASE /\ buffer' = [buffer EXCEPT ![buffer_head] = key]
               /\ buffer_head' = NextSlot(buffer_head)
               /\ accepted' = Append(accepted, key)
      <3> DEFINE a == Len(accepted)
      <3>1. /\ Len(accepted') = a + 1 /\ accepted'[a + 1] = key
            /\ \A j \in 1..a : accepted'[j] = accepted[j]
        BY <2>2, <1>l
      <3>2. buffer_head = a % KEYBOARD_BUFFER_SIZE
        BY DEF HeadInv
      <3>3. buffer_head' = (a + 1) % KEYBOARD_BUFFER_SIZE
        BY <2>2, <3>2, <1>l, ModNext DEF NextSlot
      <3>4. ASSUME NEW j \in 1..(a + 1), j + KEYBOARD_BUFFER_SIZE > a + 1
            PROVE  buffer'[(j - 1) % KEYBOARD_BUFFER_SIZE] = accepted'[j]
        <4>1. (j - 1) % KEYBOARD_BUFFER_SIZE \in Slots
          <5>1. j - 1 \in Nat  BY <1>l
          <5> QED  BY <5>1, <1>l, ModRange DEF Slots
        <4>2. CASE j = a + 1
          <5>1. (j - 1) % KEYBOARD_BUFFER_SIZE = buffer_head
            BY <4>2, <3>2, <1>l
          <5> QED  BY <4>1, <5>1, <4>2, <2>2, <3>1 DEF TypeInv, TypeOK
        <4>3. CASE j \in 1..a
          <5>1. j - 1 \in Nat /\ j - 1 < a /\ a - (j - 1) < KEYBOARD_BUFFER_SIZE
            BY <3>4, <4>3, <1>l
          <5>2. (j - 1) % KEYBOARD_BUFFER_SIZE # buffer_head
            BY <5>1, <3>2, <1>l, ModApart
          <5>3. buffer[(j - 1) % KEYBOARD_BUFFER_SIZE] = accepted[j]
            BY <3>4, <4>3, <1>l DEF HeadInv, SlotsHoldLast
          <5> QED  BY <4>1, <4>3, <5>2, <5>3, <2>2, <3>1 DEF TypeInv, TypeOK
        <4> QED  BY <4>2, <4>3, <1>l
      <3> QED  BY <3>1, <3>3, <3>4 DEF HeadInv, SlotsHoldLast
    <2> QED  BY <1>2, <2>1, <2>2
  <1>4. TailInv'
    BY <1>1 DEF TailInv, TailMoved, reader
  <1>5. ReadInv'
    <2>1. UNCHANGED <<pc, scancode, delivered>>
      BY <1>1 DEF reader
    <2>2. \/ accepted' = accepted
          \/ \E k : accepted' = Append(accepted, k)
      BY <1>2
    <2>3. CodeRead => TypedFor(scancode, Len(delivered) + 1)'
      <3>1. Len(delivered) + 1 \in Nat \ {0}  BY <1>l
      <3>2. ASSUME CodeRead PROVE TypedFor(scancode, Len(delivered) + 1)
        BY <3>2 DEF ReadInv
      <3>3. PICK n \in Nat \ {0} : n = Len(delivered) + 1
        BY <3>1
      <3>4. PICK code : code = scancode
        OBVIOUS
      <3>5. CodeRead => TypedFor(code, n)'
        BY <3>2, <3>3, <3>4, <2>2, StaysTyped
      <3> QED  BY <3>5, <3>3, <3>4, <2>1 DEF TypedFor
    <2>4. ASSUME NEW i \in 1..Len(delivered) PROVE TypedFor(delivered[i], i)'
      <3>1. i \in Nat \ {0} /\ TypedFor(delivered[i], i)
        BY <1>l DEF ReadInv
      <3>2. PICK code : code = delivered[i]
        OBVIOUS
      <3>3. TypedFor(code, i)'
        BY <3>1, <3>2, <2>2, StaysTyped
      <3> QED  BY <3>2, <3>3, <2>1 DEF TypedFor
    <2> QED  BY <2>1, <2>3, <2>4 DEF ReadInv, CodeRead, TypedFor
  <1> QED  BY <1>t, <1>3, <1>4, <1>5

\* The slot at the tail holds a key typed for the next turn, or one of its
\* overtakers.
LEMMA SlotOfTurn ==
  ASSUME TurnInv, Len(delivered) < Len(accepted),
         buffer_tail = Len(delivered) % KEYBOARD_BUFFER_SIZE
  PROVE  TypedFor(buffer[buffer_tail], Len(delivered) + 1)
  <1> USE DEF TurnInv
  <1> DEFINE a == Len(accepted)
             d == Len(delivered)
  <1>1. a \in Nat /\ d \in Nat /\ KEYBOARD_BUFFER_SIZE \in Nat \ {0}
    BY LenProperties, BufferSizeAssumption DEF TypeInv, TypeOK
  <1>2. PICK j \in (d + 1)..a :
          /\ j + KEYBOARD_BUFFER_SIZE > a
          /\ (j - (d + 1)) % KEYBOARD_BUFFER_SIZE = 0
          /\ (j - 1) % KEYBOARD_BUFFER_SIZE = d % KEYBOARD_BUFFER_SIZE
    BY <1>1, LastIntoSlot
  <1>3. buffer[buffer_tail] = accepted[j]
    BY <1>1, <1>2 DEF HeadInv, SlotsHoldLast
  <1> QED  BY <1>2, <1>3 DEF TypedFor

\* Handing over the code that was picked up keeps every earlier claim.
LEMMA HandsOver ==
  ASSUME TurnInv, CodeRead, UNCHANGED accepted, delivered' = Append(delivered, scancode)
  PROVE  \A i \in 1..Len(delivered') : TypedFor(delivered[i], i)'
  <1> USE DEF TurnInv
  <1>1. /\ Len(delivered) \in Nat
        /\ Len(delivered') = Len(delivered) + 1
        /\ delivered'[Len(delivered) + 1] = scancode
        /\ \A i \in 1..Len(delivered) : delivered'[i] = delivered[i]
    BY DEF TypeInv, TypeOK
  <1>2. TypedFor(scancode, Len(delivered) + 1)
    BY DEF ReadInv
  <1>3. \A i \in 1..Len(delivered) : TypedFor(delivered[i], i)
    BY DEF ReadInv
  <1>4. ASSUME NEW i \in 1..(Len(delivered) + 1) PROVE TypedFor(delivered'[i], i)
    <2>1. CASE i = Len(delivered) + 1
      BY <2>1, <1>1, <1>2
    <2>2. CASE i \in 1..Len(delivered)
      BY <2>2, <1>1, <1>3
    <2> QED  BY <2>1, <2>2, <1>1
  <1> QED  BY <1>1, <1>4 DEF TypedFor

LEMMA ReaderTurn ==
  ASSUME TurnInv, keyboard_get_char
  PROVE  TurnInv'
  <1> USE DEF TurnInv
  <1>t. TypeInv' /\ CountInv'
    BY ReaderType, ReaderCount
  <1>c. Codegen = "source" \/ Codegen = "gcc"
    BY CodegenAssumption
  <1>l. /\ Len(accepted) \in Nat /\ Len(delivered) \in Nat
        /\ KEYBOARD_BUFFER_SIZE \in Nat \ {0}
        /\ Len(Append(delivered, scancode)) = Len(delivered) + 1
    BY LenProperties, BufferSizeAssumption DEF TypeInv, TypeOK
  <1>h. HeadInv'
    <2>1. UNCHANGED <<buffer, buffer_head, accepted>>
      BY DEF keyboard_get_char, GetNothing, GetStart, LoadCount, ReadSlot, StoreTail,
             StoreCount, MapChar, ring
    <2> QED  BY <2>1 DEF HeadInv, SlotsHoldLast
  <1>1. CASE GetNothing \/ GetStart \/ LoadCount \/ MapChar
    <2>1. /\ UNCHANGED <<accepted, delivered, scancode, buffer_tail>>
          /\ ~TailMoved /\ ~TailMoved' /\ ~CodeRead'
      BY <1>1, <1>c DEF GetNothing, GetStart, LoadCount, MapChar, ring, Advance, Following,
                        TailMoved, CodeRead
    <2>2. TailInv'
      BY <2>1 DEF TailInv
    <2>3. ReadInv'
      BY <2>1 DEF ReadInv, TypedFor
    <2> QED  BY <1>t, <1>h, <2>2, <2>3
  <1>2. CASE ReadSlot
    <2>1. /\ pc = "slot" /\ pc' = "tail"
          /\ UNCHANGED <<accepted, delivered, buffer_tail>>
          /\ scancode' = buffer[buffer_tail]
          /\ ~TailMoved /\ ~TailMoved'
      BY <1>2, <1>c DEF ReadSlot, ring, Advance, Following, TailMoved
    <2>2. TailInv'
      BY <2>1 DEF TailInv
    <2>3. Len(delivered) < Len(accepted)
      BY <2>1, <1>c, <1>l DEF CountInv, Unread, TypeInv, TypeOK, TestStillHolds
    <2>4. TypedFor(buffer[buffer_tail], Len(delivered) + 1)
      BY <2>1, <2>3, SlotOfTurn DEF TailInv
    <2>5. ReadInv'
      BY <2>1, <2>4 DEF ReadInv, TypedFor
    <2> QED  BY <1>t, <1>h, <2>2, <2>5
  <1>3. CASE StoreTail
    <2>1. /\ pc = "tail" /\ UNCHANGED <<accepted, scancode>> /\ CodeRead /\ ~TailMoved
          /\ buffer_tail' = (Len(delivered) + 1) % KEYBOARD_BUFFER_SIZE
      <3>1. /\ pc = "tail" /\ UNCHANGED <<accepted, scancode>> /\ CodeRead /\ ~TailMoved
            /\ buffer_tail' = (buffer_tail + 1) % KEYBOARD_BUFFER_SIZE
        BY <1>3, <1>c DEF StoreTail, ring, CodeRead, TailMoved, NextSlot
      <3>2. buffer_tail = Len(delivered) % KEYBOARD_BUFFER_SIZE
        BY <3>1 DEF TailInv
      <3> QED  BY <3>1, <3>2, <1>l, ModNext
    <2>2. CASE Codegen = "source"
      <3>1. pc' = "count" /\ delivered' = delivered /\ TailMoved' /\ CodeRead'
        BY <1>3, <2>2, <2>1 DEF StoreTail, Advance, Following, TailMoved, CodeRead
      <3>2. TailInv'
        BY <2>1, <3>1 DEF TailInv
      <3>3. ReadInv'
        BY <2>1, <3>1 DEF ReadInv, TypedFor
      <3> QED  BY <1>t, <1>h, <3>2, <3>3
    <2>3. CASE Codegen = "gcc"
      <3>1. pc' = "map" /\ delivered' = Append(delivered, scancode) /\ ~TailMoved' /\ ~CodeRead'
        BY <1>3, <2>3, <2>1 DEF StoreTail, Advance, Following, TailMoved, CodeRead
      <3>2. TailInv'
        BY <2>1, <3>1, <1>l DEF TailInv
      <3>3. ReadInv'
        BY <2>1, <3>1, HandsOver DEF ReadInv
      <3> QED  BY <1>t, <1>h, <3>2, <3>3
    <2> QED  BY <2>2, <2>3, <1>c
  <1>4. CASE StoreCount
    <2>0. pc = "count" /\ UNCHANGED <<accepted, scancode, buffer_tail>>
      BY <1>4 DEF StoreCount
    <2>1. CASE Codegen = "source"
      <3>1. /\ pc' = "map" /\ delivered' = Append(delivered, scancode)
            /\ TailMoved /\ CodeRead /\ ~TailMoved' /\ ~CodeRead'
        BY <1>4, <2>0, <2>1 DEF StoreCount, Advance, Following, TailMoved, CodeRead
      <3>2. TailInv'
        BY <2>0, <3>1, <1>l DEF TailInv
      <3>3. ReadInv'
        BY <2>0, <3>1, HandsOver DEF ReadInv
      <3> QED  BY <1>t, <1>h, <3>2, <3>3
    <2>2. CASE Codegen = "gcc"
      <3>1. pc' = "slot" /\ delivered' = delivered /\ ~TailMoved /\ ~TailMoved' /\ ~CodeRead'
        BY <1>4, <2>0, <2>2 DEF StoreCount, Advance, Following, TailMoved, CodeRead
      <3>2. TailInv'
        BY <2>0, <3>1 DEF TailInv
      <3>3. ReadInv'
        BY <2>0, <3>1 DEF ReadInv, TypedFor
      <3> QED  BY <1>t, <1>h, <3>2, <3>3
    <2> QED  BY <2>1, <2>2, <1>c
  <1> QED  BY <1>1, <1>2, <1>3, <1>4 DEF keyboard_get_char

LEMMA TurnStep == TurnInv /\ [Next]_kvars => TurnInv'
  <1> SUFFICES ASSUME TurnInv, [Next]_kvars PROVE TurnInv'  OBVIOUS
  <1>1. CASE KeyIrq
    BY <1>1, IrqTurn
  <1>2. CASE keyboard_get_char
    BY <1>2, ReaderTurn
  <1>3. CASE UNCHANGED kvars
    <2>1. TypeInv'
      BY <1>3, TypeStep DEF TurnInv
    <2>2. UNCHANGED <<buffer, buffer_head, buffer_tail, buffer_count, accepted, delivered,
                      scancode, pc, reg>>
      BY <1>3 DEF kvars, ring, reader
    <2>3. CountInv'
      BY <2>2 DEF TurnInv, CountInv, Unread
    <2>4. HeadInv' /\ TailInv' /\ ReadInv'
      BY <2>2 DEF TurnInv, HeadInv, SlotsHoldLast, TailInv, TailMoved, ReadInv, CodeRead,
                  TypedFor
    <2> QED  BY <2>1, <2>3, <2>4 DEF TurnInv
  <1> QED  BY <1>1, <1>2, <1>3 DEF Next

(***************************************************************************)
(* Under either access order, and however many keys the stale count lets   *)
(* the handler type over waiting ones, the i-th key handed over is the     *)
(* i-th key typed or one typed a whole number of turns later.              *)
(***************************************************************************)
THEOREM KeysOnlyOvertaken == Spec => []OnlyOvertaken
  <1>1. TurnInv => OnlyOvertaken
    BY DEF TurnInv, ReadInv, TypedFor, OnlyOvertaken
  <1> QED  BY <1>1, TurnInit, TurnStep, PTL DEF Spec
=============================================================================
