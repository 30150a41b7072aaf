---------------------------- MODULE MCKernelData ----------------------------
(***************************************************************************)
(* Strings for module KernelData: for fields of three characters, some     *)
(* that are short, that just fit, that do not, and the empty one.          *)
(***************************************************************************)
EXTENDS KernelData

Short == <<"a">>
Fits == <<"a", "b">>
Long == <<"a", "b", "c">>

SomeUsers == {Short, Fits, Long}
SomePasswords == {<<>>, Fits, Long}
SomeFiles == {<<>>, Short, Fits, Long}
SomeContents == {<<>>, Short, Long}
=============================================================================
