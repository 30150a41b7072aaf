------------------------------ MODULE Strings ------------------------------
(***************************************************************************)
(* C strings as kernel/utils/string.c handles them.  A memory is a         *)
(* function from 0..n-1 to characters, and a string in it starts at a      *)
(* place p and ends before the first NUL from there on, wherever that is.  *)
(* The string s a function copies or compares is a sequence without NUL.   *)
(***************************************************************************)
EXTENDS Naturals, Sequences, FiniteSetsExt

NUL == "NUL"

strlen(m, p) == Min({k \in 0 .. Cardinality(DOMAIN m) : p + k \in DOMAIN m => m[p+k] = NUL})

\* The string at p.
Text(m, p) == SubSeq([k \in 1 .. Cardinality(DOMAIN m) - p |-> m[p+k-1]], 1, strlen(m, p))

\* The first n characters of s, padded with NUL.
Padded(s, n) == [k \in 1..n |-> IF k =< Len(s) THEN s[k] ELSE NUL]

\* The memory with the characters of t at p.
Stored(m, p, t) == [i \in DOMAIN m |-> IF i \in p .. p + Len(t) - 1 THEN t[i-p+1] ELSE m[i]]

strcpy(m, p, s) == Stored(m, p, Append(s, NUL))

\* The loop that copies leaves n as it was when it copies the NUL: a string
\* shorter than n is padded to n + 1 characters.
strncpy(m, p, s, n) == Stored(m, p, Padded(s, IF Len(s) < n THEN n + 1 ELSE n))

\* Whether strcmp returns 0.
strcmp(m, p, s) == Text(m, p) = s
=============================================================================
