------------------------------- MODULE Printf -------------------------------
(***************************************************************************)
(* printf of kernel/printf.c.  A format is a sequence of characters in     *)
(* which text that holds no conversion is one character; the arguments are *)
(* uint32_t numbers and strings, taken in order.  The loop over the format *)
(* is a fold that remembers a percent sign.                                *)
(***************************************************************************)
EXTENDS Integers, Sequences, SequencesExt

CONSTANT LONG   \* 2^32

Digit == <<"0", "1", "2", "3", "4", "5", "6", "7", "8", "9", "A", "B", "C", "D", "E", "F">>

\* Mutant: the digits are put out in the order they are found.
Followed(digit, higher) == <<digit>> \o higher
\* buffer is emptied from its end.
Preceded(digit, higher) == Append(higher, digit)

print_number(num, base) ==
  LET digits[n \in Nat] ==
        IF n = 0 THEN <<>> ELSE Preceded(Digit[(n % base) + 1], digits[n \div base])
  IN  IF num = 0 THEN <<"0">> ELSE digits[num]

\* %d: the argument is a long.
Signed(num) ==
  IF num >= LONG \div 2 THEN <<"-">> \o print_number(LONG - num, 10) ELSE print_number(num, 10)

\* putchar of text, with or without an argument taken.
Put(s, text) == [s EXCEPT !.out = @ \o text, !.percent = FALSE]
Convert(s, text) == [Put(s, text) EXCEPT !.args = Tail(@)]

\* The character after a percent sign; an unknown conversion is shown as it is
\* written and takes no argument.
Conversion(s, c) ==
  CASE c \in {"d", "i"} -> Convert(s, Signed(Head(s.args)))
    [] c = "u" -> Convert(s, print_number(Head(s.args), 10))
    [] c \in {"x", "X"} -> Convert(s, print_number(Head(s.args), 16))
    [] c = "p" -> Convert(s, <<"0", "x">> \o print_number(Head(s.args), 16))
    [] c = "c" -> Convert(s, <<Head(s.args)>>)
    [] c = "s" -> Convert(s, Head(s.args))
    [] c = "%" -> Put(s, <<"%">>)
    [] OTHER -> Put(s, <<"%", c>>)

\* What the loop does with one character of the format.
Formatted(s, c) ==
  IF s.percent THEN Conversion(s, c)
  ELSE IF c = "%" THEN [s EXCEPT !.percent = TRUE] ELSE Put(s, <<c>>)

\* What a call shows; no caller uses the count it returns.
printf(format, args) ==
  FoldLeft(Formatted, [out |-> <<>>, percent |-> FALSE, args |-> args], format).out
=============================================================================
