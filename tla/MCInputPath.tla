---------------------------- MODULE MCInputPath ----------------------------
(***************************************************************************)
(* Keyboards for module InputPath.                                         *)
(***************************************************************************)
EXTENDS InputPath

K(code, extended) == [code |-> code, extended |-> extended]

\* The letter q, BACKSPACE and CAPS LOCK, whose LED the driver sets.
LockKeyboard == {K(16, FALSE), K(14, FALSE), K(58, FALSE)}

\* The letter q, BACKSPACE, ENTER, F1, which no table translates, and right
\* CTRL, whose codes have a prefix.
EditKeyboard == {K(16, FALSE), K(14, FALSE), K(28, FALSE), K(59, FALSE), K(29, TRUE)}

\* One glyph that no key stands for.
GlyphPrompt == <<<<0, TRUE>>>>
=============================================================================
