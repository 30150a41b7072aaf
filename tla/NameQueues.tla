----------------------------- MODULE NameQueues -----------------------------
(***************************************************************************)
(* What the file table promises.  A name may be given to several files;    *)
(* every operation on a name concerns the oldest of them, and files of     *)
(* other names never notice.                                               *)
(***************************************************************************)
EXTENDS Naturals, Sequences

CONSTANTS Name, Content, EMPTY

VARIABLE files   \* [Name -> Seq([is_directory, content])], oldest first

File == [is_directory : BOOLEAN, content : Content \cup {EMPTY}]

Init == files = [n \in Name |-> <<>>]

Create(n) ==
  \E dir \in BOOLEAN :
    files' = [files EXCEPT ![n] = Append(@, [is_directory |-> dir, content |-> EMPTY])]

Delete(n) ==
  /\ files[n] # <<>>
  /\ files' = [files EXCEPT ![n] = Tail(@)]

Write(n) ==
  /\ files[n] # <<>> /\ ~files[n][1].is_directory
  /\ \E c \in Content : files' = [files EXCEPT ![n][1].content = c]

Next == \E n \in Name : Create(n) \/ Delete(n) \/ Write(n)

Spec == Init /\ [][Next]_files
=============================================================================
