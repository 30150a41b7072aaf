------------------------------ MODULE KeyFifo ------------------------------
(***************************************************************************)
(* What the keyboard driver promises its callers: a bounded first-in       *)
(* first-out queue of key codes.  A key that arrives while the queue is    *)
(* full is dropped, and only then; any other key is handed over exactly    *)
(* once, in order.  The ring buffer of module Keyboard is shown to         *)
(* implement this specification.                                           *)
(***************************************************************************)
EXTENDS Naturals, Sequences

CONSTANTS
  Capacity,  \* how many keys the queue holds
  Key        \* the key codes

VARIABLES
  queue,     \* keys accepted and not yet taken
  taken,     \* every key handed over so far, oldest first
  dropped    \* how many keys found the queue full

vars == <<queue, taken, dropped>>

Init == queue = <<>> /\ taken = <<>> /\ dropped = 0

\* A key arrives and there is room for it.
Put(k) ==
  /\ Len(queue) < Capacity
  /\ queue' = Append(queue, k)
  /\ UNCHANGED <<taken, dropped>>

\* A key arrives and there is none.
Drop ==
  /\ Len(queue) = Capacity
  /\ dropped' = dropped + 1
  /\ UNCHANGED <<queue, taken>>

\* The oldest key is handed over.
Take ==
  /\ queue # <<>>
  /\ queue' = Tail(queue)
  /\ taken' = Append(taken, Head(queue))
  /\ UNCHANGED dropped

Next == Take \/ Drop \/ \E k \in Key : Put(k)

Spec == Init /\ [][Next]_vars
=============================================================================
