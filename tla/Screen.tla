------------------------------- MODULE Screen -------------------------------
(***************************************************************************)
(* The text screen of kernel/kernel.c: VGA memory, read row by row as one  *)
(* array of cells, and the cursor.  print_message and putchar write what   *)
(* they are given, go on to the next row at the right margin and scroll    *)
(* at the bottom.  Attributes are left out: all are 0x07.                  *)
(*                                                                         *)
(* A screen is a record, so that a function that prints several characters *)
(* is one step.                                                            *)
(***************************************************************************)
EXTENDS Naturals, SequencesExt

CONSTANTS VGA_WIDTH, VGA_HEIGHT

ASSUME VgaAssumption == VGA_WIDTH \in Nat \ {0} /\ VGA_HEIGHT \in Nat \ {0}

\* ' ', '\n', '\b', '\t' and '\r', named as in module Keyboard by the key
\* they come from; the last comes from none.
SPACE   == <<57, FALSE>>
NEWLINE == <<28, FALSE>>
ERASE   == <<14, FALSE>>
TAB     == <<15, FALSE>>
RETURN  == <<28, TRUE>>

Cells == 0 .. VGA_WIDTH * VGA_HEIGHT - 1
Cursor(s) == s.y * VGA_WIDTH + s.x

\* clear_screen
Cleared == [video_memory |-> [i \in Cells |-> SPACE], x |-> 0, y |-> 0]

Wrapped(s) == IF s.x >= VGA_WIDTH THEN [s EXCEPT !.x = 0, !.y = @ + 1] ELSE s

Scrolled(s) ==
  IF s.y < VGA_HEIGHT THEN s
  ELSE [s EXCEPT !.y = VGA_HEIGHT - 1, !.video_memory = [i \in Cells |->
          IF i + VGA_WIDTH \in Cells THEN @[i + VGA_WIDTH] ELSE SPACE]]

Written(s, c) == [s EXCEPT !.video_memory[Cursor(s)] = c, !.x = @ + 1]
Erased(s) == [s EXCEPT !.video_memory[Cursor(s) - 1] = SPACE, !.x = @ - 1]

putchar(s, c) ==
  Scrolled(Wrapped(
    CASE c = NEWLINE -> [s EXCEPT !.x = 0, !.y = @ + 1]
      [] c = RETURN  -> [s EXCEPT !.x = 0]
      [] c = TAB     -> [s EXCEPT !.x = ((@ + 8) \div 8) * 8]
      [] c = ERASE   -> IF s.x = 0 THEN s ELSE Erased(s)
      [] OTHER       -> Written(s, c)))

\* print_message knows no tab and no backspace.
print_message(s, message) ==
  FoldLeft(LAMBDA t, c : Scrolled(Wrapped(
             CASE c = NEWLINE -> [t EXCEPT !.x = 0, !.y = @ + 1]
               [] c = RETURN  -> [t EXCEPT !.x = 0]
               [] OTHER       -> Written(t, c))), s, message)

\* terminal_putchar, once for each of a sequence of characters.
terminal_puts(s, str) == FoldLeft(putchar, s, str)
=============================================================================
