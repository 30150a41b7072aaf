----------------------------- MODULE Scheduler -----------------------------
(***************************************************************************)
(* The list of processes and the scheduler of kernel/process.c: the singly *)
(* linked process_list, the states of its members and the round-robin      *)
(* search of schedule.  Module Process adds what a process owns.           *)
(*                                                                         *)
(* No interrupt handler touches any of this (the call in timer_handler is  *)
(* commented out), so every function is one step.                          *)
(***************************************************************************)
EXTENDS Naturals

CONSTANTS
  Proc,       \* the process structures kmalloc can provide
  Kernel,     \* the one process_init gets
  NULL

ASSUME ProcAssumption == Kernel \in Proc /\ NULL \notin Proc

VARIABLES
  process_list, next, state, parent, current_process,
  exited,     \* history: processes that called exit
  ranSince    \* history: [p -> processes dispatched since p last was]

list  == <<process_list, next, parent>>
svars == <<list, state, current_process, exited, ranSince>>

Ref == Proc \cup {NULL}
\* NONE: not allocated yet; FREED: destroyed, the memory is not used again.
States == {"RUNNING", "READY", "BLOCKED", "TERMINATED", "NONE", "FREED"}
Alive == {p \in Proc : state[p] \notin {"NONE", "FREED"}}

\* The members of process_list.
Closed(S) == process_list \in S /\ \A p \in S \ {NULL} : next[p] \in S
Listed == {p \in Proc : \A S \in SUBSET Ref : Closed(S) => p \in S}
-----------------------------------------------------------------------------
\* The new process becomes the head of process_list.
Link(p) ==
  /\ next' = [next EXCEPT ![p] = process_list]
  /\ process_list' = p

\* The part of create_process that concerns the list; par is the parent that
\* fork records.
AddProcess(p, par) ==
  /\ state[p] = "NONE"
  /\ state' = [state EXCEPT ![p] = "READY"]
  /\ parent' = [parent EXCEPT ![p] = par]
  /\ Link(p)
  /\ ranSince' = [ranSince EXCEPT ![p] = {}]
  /\ UNCHANGED <<current_process, exited>>

\* Mutant: the head is replaced whichever process is destroyed.
UnlinkAsHead(p) == process_list' = next[p] /\ UNCHANGED next
\* Mutant: only the head of the list is unlinked, any other stays.
UnlinkHead(p) ==
  IF process_list = p THEN process_list' = next[p] /\ UNCHANGED next
  ELSE UNCHANGED <<process_list, next>>
Unlink(p) ==
  IF process_list = p
  THEN process_list' = next[p] /\ UNCHANGED next
  ELSE /\ next' = [q \in Proc |-> IF q \in Listed /\ next[q] = p THEN next[p] ELSE next[q]]
       /\ UNCHANGED process_list

\* destroy_process.  kfree gives nothing back.  That the current process is
\* not its own victim is assumed of the callers: schedule would go on from
\* the freed structure.
destroy_process(p) ==
  /\ p \in Alive /\ p # current_process
  /\ Unlink(p)
  /\ state' = [state EXCEPT ![p] = "FREED"]
  /\ UNCHANGED <<parent, current_process, exited, ranSince>>
-----------------------------------------------------------------------------
(***************************************************************************)
(* schedule: the search starts behind the current process, wraps from the  *)
(* end of the list to its head, and stops at the first process it does not *)
(* pass over.  st stands for the states at the call, which exit has just   *)
(* changed.                                                                *)
(***************************************************************************)
\* Mutant: the search starts over at the head every time.
FollowingFromHead(p) ==
  IF p = NULL THEN NULL
  ELSE IF next[p] = NULL \/ (p = current_process /\ p # process_list)
       THEN process_list ELSE next[p]
Following(p) ==
  IF p = NULL THEN NULL ELSE IF next[p] = NULL THEN process_list ELSE next[p]

\* Mutant: the search does not stop at the process it started from.
PassedPastCurrent(p, st) == p # NULL /\ st[p] # "READY"
Passed(p, st) == p # NULL /\ p # current_process /\ st[p] # "READY"

\* What the search meets: the process behind the current one and the one
\* behind each that it passes over.  It stops at most at one of them.
Searched(S, st) ==
  /\ Following(current_process) \in S
  /\ \A p \in S : Passed(p, st) => Following(p) \in S
Met(st) == {p \in Ref : \A S \in SUBSET Ref : Searched(S, st) => p \in S}
Stops(st) == {p \in Met(st) : ~Passed(p, st)}

\* Mutant: the process that gives up the CPU keeps its state.
LeavingStateKept(st) == st[current_process]
\* schedule marks the process it leaves READY, whatever it was.
LeavingState(st) == "READY"

\* The part of switch_task that concerns the list.
Dispatch(new, st) ==
  /\ state' = [st EXCEPT ![current_process] = LeavingState(st), ![new] = "RUNNING"]
  /\ current_process' = new
  /\ ranSince' = [p \in Proc |-> IF p = new THEN {} ELSE ranSince[p] \cup {new}]

Schedule(st) ==
  /\ \E new \in Stops(st) :
       IF new # NULL /\ new # current_process /\ st[new] = "READY"
       THEN Dispatch(new, st)
       ELSE state' = st /\ UNCHANGED <<current_process, ranSince>>
  /\ UNCHANGED list

schedule == Schedule(state) /\ UNCHANGED exited

\* exit: the process is marked, a waiting parent is woken, another is chosen.
exit ==
  LET p == current_process
      marked == [state EXCEPT ![p] = "TERMINATED"]
      waiting == parent[p] # NULL /\ marked[parent[p]] = "BLOCKED"
  IN  /\ Schedule(IF waiting THEN [marked EXCEPT ![parent[p]] = "READY"] ELSE marked)
      /\ exited' = exited \cup {p}
-----------------------------------------------------------------------------
\* The state process_init leaves.
Init ==
  /\ process_list = Kernel /\ current_process = Kernel
  /\ next = [p \in Proc |-> NULL] /\ parent = [p \in Proc |-> NULL]
  /\ state = [p \in Proc |-> IF p = Kernel THEN "RUNNING" ELSE "NONE"]
  /\ exited = {} /\ ranSince = [p \in Proc |-> {}]

Next ==
  \/ \E p \in Proc :
       AddProcess(p, NULL) \/ AddProcess(p, current_process) \/ destroy_process(p)
  \/ schedule \/ exit

Spec == Init /\ [][Next]_svars
-----------------------------------------------------------------------------
TypeOK ==
  /\ process_list \in Proc /\ current_process \in Proc
  /\ next \in [Proc -> Ref] /\ parent \in [Proc -> Ref]
  /\ state \in [Proc -> States]
  /\ exited \subseteq Proc
  /\ ranSince \in [Proc -> SUBSET Proc]

(***************************************************************************)
(* process_list holds exactly the processes that were created and not      *)
(* destroyed, and it ends: creating at the head and unlinking anywhere     *)
(* neither lose a process nor close a cycle.                               *)
(***************************************************************************)
ListExact ==
  /\ Listed = Alive
  /\ \E p \in Listed : next[p] = NULL
  /\ current_process \in Listed

(***************************************************************************)
(* Every listed process but the current one is READY, so the search of     *)
(* schedule never passes over one: no process is stuck in another state.   *)
(***************************************************************************)
OthersReady ==
  /\ \A p \in Listed \ {current_process} : state[p] = "READY"
  /\ state[current_process] \in {"RUNNING", "TERMINATED"}

(***************************************************************************)
(* "Simple round-robin scheduler" (process.c:96): while a process waits    *)
(* for its turn, no other process gets two, whatever is created, forked    *)
(* and destroyed meanwhile.                                                *)
(***************************************************************************)
RoundRobin ==
  [][ current_process' # current_process =>
        \A p \in Alive \ {current_process'} : current_process' \notin ranSince[p] ]_svars

(***************************************************************************)
(* The search of schedule comes to a stop, wherever it starts and          *)
(* whatever was created, destroyed and exited before: it does not go round *)
(* and round a list without a READY process.                               *)
(***************************************************************************)
SearchEnds ==
  Stops(state) # {} /\ Stops([state EXCEPT ![current_process] = "TERMINATED"]) # {}

(***************************************************************************)
(* A process that has called exit, so that its state became                *)
(* PROCESS_TERMINATED, is not dispatched again: schedule is to "find next  *)
(* ready process" (process.c:100).                                         *)
(***************************************************************************)
TerminatedNeverRuns ==
  [][ current_process' # current_process => current_process' \notin exited ]_svars
=============================================================================
