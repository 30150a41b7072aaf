--------------------------- MODULE ProcessProofs ----------------------------
(***************************************************************************)
(* Proofs about modules Scheduler and Process: for every set of process    *)
(* structures, process_list is exact, the search of schedule ends, and a   *)
(* process goes on in its frame, if that is still there.                   *)
(***************************************************************************)
EXTENDS Process, Integers, TLAPS
-----------------------------------------------------------------------------
(***************************************************************************)
(* The list.  ListExact speaks of what can be reached from process_list;   *)
(* what makes it inductive is the shape of the links: those of the live    *)
(* processes lead to live ones, no two lead to the same one, none leads    *)
(* back to the head, one ends the list, and whatever is closed under them  *)
(* contains every live process.                                            *)
(***************************************************************************)
Links == Alive \cup {NULL}

ListInv ==
  /\ process_list \in Alive
  /\ next \in [Proc -> Ref]
  /\ \A p \in Alive : next[p] \in Links
  /\ \A p, q \in Alive : next[p] = next[q] /\ next[p] # NULL => p = q
  /\ \A p \in Alive : next[p] # process_list
  /\ \E p \in Alive : next[p] = NULL
  /\ \A S \in SUBSET Ref : Closed(S) => Alive \subseteq S

StateInv ==
  /\ current_process \in Proc
  /\ state \in [Proc -> States]
  /\ state[current_process] \in {"RUNNING", "TERMINATED"}
  /\ \A p \in Proc \ {current_process} : state[p] \in {"READY", "NONE", "FREED"}

HistoryInv ==
  /\ parent \in [Proc -> Ref]
  /\ exited \subseteq Proc
  /\ ranSince \in [Proc -> SUBSET Proc]

SchedulerInv == ListInv /\ StateInv /\ HistoryInv

\* Exactly the live processes can be reached.
LEMMA ListedIsAlive == ListInv => Listed = Alive
  <1> SUFFICES ASSUME ListInv PROVE Listed = Alive
    OBVIOUS
  <1>1. Links \in SUBSET Ref /\ Closed(Links)
    BY DEF Links, ListInv, Closed, Alive, Ref
  <1>2. Listed \subseteq Links
    BY <1>1 DEF Listed
  <1>3. NULL \notin Listed
    BY ProcAssumption DEF Listed
  <1>4. Alive \subseteq Listed
    BY DEF ListInv, Listed, Alive
  <1> QED  BY <1>2, <1>3, <1>4 DEF Links

\* Only the processes themselves matter for what is closed under the links.
LEMMA ClosedRestricts ==
  ASSUME ListInv, NEW S, process_list \in S, \A p \in S \cap Alive : next[p] \in S
  PROVE  Alive \subseteq S
  <1> DEFINE T == S \cap Links
  <1>1. T \in SUBSET Ref
    BY DEF Links, Alive, Ref
  <1>2. process_list \in T
    BY DEF ListInv, Links
  <1>3. ASSUME NEW p \in T \ {NULL}  PROVE next[p] \in T
    <2>1. p \in S \cap Alive
      BY <1>3 DEF Links
    <2> QED  BY <2>1 DEF ListInv
  <1>4. Closed(T)
    BY <1>2, <1>3 DEF Closed
  <1>5. Alive \subseteq T
    BY <1>1, <1>4 DEF ListInv
  <1> QED  BY <1>5
-----------------------------------------------------------------------------
LEMMA SchedulerInit == Init => SchedulerInv
  <1> SUFFICES ASSUME Init PROVE SchedulerInv
    OBVIOUS
  <1>1. Alive = {Kernel}
    BY ProcAssumption DEF Init, Alive
  <1>2. ListInv
    <2>1. \A S \in SUBSET Ref : Closed(S) => Alive \subseteq S
      BY <1>1 DEF Closed, Init
    <2> QED  BY <1>1, <2>1, ProcAssumption DEF Init, ListInv, Links, Ref
  <1>3. StateInv
    BY ProcAssumption DEF Init, StateInv, States
  <1>4. HistoryInv
    BY DEF Init, HistoryInv, Ref
  <1> QED  BY <1>2, <1>3, <1>4 DEF SchedulerInv
-----------------------------------------------------------------------------
(***************************************************************************)
(* A new head.                                                             *)
(***************************************************************************)
LEMMA AddKeepsList ==
  ASSUME SchedulerInv, NEW p \in Proc, NEW par \in Ref, AddProcess(p, par)
  PROVE  ListInv'
  <1> USE DEF SchedulerInv
  <1>1. p \notin Alive /\ Alive' = Alive \cup {p}
    BY DEF AddProcess, Alive, StateInv
  <1>2. /\ next' = [next EXCEPT ![p] = process_list]
        /\ process_list' = p
    BY DEF AddProcess, Link
  <1>3. /\ next'[p] = process_list
        /\ \A q \in Alive : next'[q] = next[q] /\ q # p
    BY <1>1, <1>2 DEF ListInv, Alive
  <1>4. /\ process_list' \in Alive'
        /\ next' \in [Proc -> Ref]
        /\ \A q \in Alive' : next'[q] \in Links'
    BY <1>1, <1>2, <1>3 DEF ListInv, Links, Alive, Ref
  <1>5. ASSUME NEW q \in Alive', NEW r \in Alive', next'[q] = next'[r], next'[q] # NULL
        PROVE  q = r
    <2>1. CASE q \in Alive /\ r \in Alive
      BY <2>1, <1>5, <1>3 DEF ListInv
    <2>2. CASE q = p \/ r = p
      BY <2>2, <1>1, <1>3, <1>5 DEF ListInv
    <2> QED  BY <2>1, <2>2, <1>1
  <1>6. \A q \in Alive' : next'[q] # process_list'
    BY <1>1, <1>2, <1>3, ProcAssumption DEF ListInv, Links, Alive
  <1>7. \E q \in Alive' : next'[q] = NULL
    BY <1>1, <1>3 DEF ListInv
  <1>8. ASSUME NEW S \in SUBSET Ref, Closed(S)'
        PROVE  Alive' \subseteq S
    <2>1. p \in S /\ \A q \in S \ {NULL} : next'[q] \in S
      BY <1>8, <1>2 DEF Closed
    <2>2. process_list \in S
      BY <2>1, <1>3, ProcAssumption
    <2>3. \A q \in S \cap Alive : next[q] \in S
      BY <2>1, <1>3, ProcAssumption DEF Alive
    <2>4. Alive \subseteq S
      BY <2>2, <2>3, ClosedRestricts
    <2> QED  BY <2>1, <2>4, <1>1
  <1> QED  BY <1>4, <1>5, <1>6, <1>7, <1>8 DEF ListInv

LEMMA AddKeeps ==
  ASSUME SchedulerInv, NEW p \in Proc, NEW par \in Ref, AddProcess(p, par)
  PROVE  SchedulerInv'
  <1>1. ListInv'
    BY AddKeepsList
  <1>2. StateInv'
    BY DEF SchedulerInv, StateInv, AddProcess, States
  <1>3. HistoryInv'
    BY DEF SchedulerInv, HistoryInv, AddProcess
  <1> QED  BY <1>1, <1>2, <1>3 DEF SchedulerInv
-----------------------------------------------------------------------------
(***************************************************************************)
(* Unlinking.  A process that is not the head has a predecessor, since     *)
(* otherwise the other live processes were closed under the links without  *)
(* it.                                                                     *)
(***************************************************************************)
LEMMA Predecessor ==
  ASSUME ListInv, NEW p \in Alive, p # process_list
  PROVE  \E r \in Alive \ {p} : next[r] = p
  <1> SUFFICES ASSUME \A r \in Alive \ {p} : next[r] # p PROVE FALSE
    OBVIOUS
  <1> DEFINE S == Links \ {p}
  <1>1. process_list \in S
    BY DEF ListInv, Links
  <1>2. \A r \in S \cap Alive : next[r] \in S
    BY DEF ListInv, Links
  <1>3. Alive \subseteq S
    BY <1>1, <1>2, ClosedRestricts
  <1> QED  BY <1>3

\* A process other than the only one is not both head and end of the list.
LEMMA HeadHasNext ==
  ASSUME ListInv, NEW q \in Alive, q # process_list
  PROVE  next[process_list] \in Alive \ {process_list}
  <1>1. next[process_list] \in Links /\ next[process_list] # process_list
    BY DEF ListInv
  <1>2. next[process_list] # NULL
    <2> SUFFICES ASSUME next[process_list] = NULL PROVE FALSE
      OBVIOUS
    <2>1. Closed({process_list, NULL})
      BY DEF Closed
    <2>2. {process_list, NULL} \in SUBSET Ref
      BY DEF ListInv, Alive, Ref
    <2>3. Alive \subseteq {process_list, NULL}
      BY <2>1, <2>2 DEF ListInv
    <2> QED  BY <2>3, ProcAssumption DEF Alive
  <1> QED  BY <1>1, <1>2 DEF Links

LEMMA UnlinkHeadKeepsList ==
  ASSUME SchedulerInv, NEW p \in Proc, destroy_process(p), process_list = p
  PROVE  ListInv'
  <1> USE DEF SchedulerInv
  <1>1. p \in Alive /\ p # current_process /\ current_process \in Alive
    BY DEF destroy_process, StateInv, Alive
  <1>2. Alive' = Alive \ {p}
    BY <1>1 DEF destroy_process, Alive, StateInv
  <1>3. process_list' = next[p] /\ next' = next
    BY DEF destroy_process, Unlink
  <1>4. next[p] \in Alive \ {p}
    BY <1>1, HeadHasNext
  <1>5. \A q \in Alive' : next'[q] \in Links' /\ next'[q] # process_list'
    BY <1>1, <1>2, <1>3, <1>4, ProcAssumption DEF ListInv, Links, Alive
  <1>6. \E q \in Alive' : next'[q] = NULL
    BY <1>2, <1>3, <1>4, ProcAssumption DEF ListInv, Alive
  <1>7. ASSUME NEW S \in SUBSET Ref, Closed(S)'
        PROVE  Alive' \subseteq S
    <2>1. next[p] \in S /\ \A q \in S \ {NULL} : next[q] \in S
      BY <1>7, <1>3 DEF Closed
    <2>2. \A q \in (S \cup {p}) \cap Alive : next[q] \in S \cup {p}
      BY <2>1, ProcAssumption DEF Alive
    <2>3. Alive \subseteq S \cup {p}
      BY <2>2, ClosedRestricts
    <2> QED  BY <2>3, <1>2
  <1> QED  BY <1>2, <1>3, <1>4, <1>5, <1>6, <1>7 DEF ListInv

LEMMA UnlinkInsideKeepsList ==
  ASSUME SchedulerInv, NEW p \in Proc, destroy_process(p), process_list # p
  PROVE  ListInv'
  <1> USE DEF SchedulerInv
  <1>1. p \in Alive
    BY DEF destroy_process
  <1>2. Alive' = Alive \ {p}
    BY <1>1 DEF destroy_process, Alive, StateInv
  <1>3. PICK r \in Alive \ {p} : next[r] = p
    BY <1>1, Predecessor
  <1>4. process_list' = process_list
    BY DEF destroy_process, Unlink
  <1>5. next' = [q \in Proc |-> IF q \in Listed /\ next[q] = p THEN next[p] ELSE next[q]]
    BY DEF destroy_process, Unlink
  <1>6. p # NULL /\ NULL \notin Alive
    BY <1>1, ProcAssumption DEF Alive
  <1>7. /\ next'[r] = next[p]
        /\ \A q \in Alive : q # r => next'[q] = next[q] /\ next[q] # p
    BY <1>1, <1>3, <1>5, <1>6, ListedIsAlive DEF ListInv, Alive
  <1>8. next' \in [Proc -> Ref]
    BY <1>1, <1>5 DEF ListInv, Alive
  <1>9. next[p] # p
    BY <1>1, <1>3, <1>7
  <1>10. \A q \in Alive' : next'[q] \in Links' /\ next'[q] # process_list'
    BY <1>1, <1>2, <1>4, <1>7, <1>9 DEF ListInv, Links
  <1>11. ASSUME NEW q \in Alive', NEW s \in Alive', next'[q] = next'[s], next'[q] # NULL
         PROVE  q = s
    <2>1. CASE q # r /\ s # r
      BY <2>1, <1>2, <1>7, <1>11 DEF ListInv
    <2>2. CASE q = r /\ s # r
      BY <2>2, <1>1, <1>2, <1>7, <1>11 DEF ListInv
    <2>3. CASE q # r /\ s = r
      BY <2>3, <1>1, <1>2, <1>7, <1>11 DEF ListInv
    <2> QED  BY <2>1, <2>2, <2>3
  <1>12. \E q \in Alive' : next'[q] = NULL
    <2>1. PICK t \in Alive : next[t] = NULL
      BY DEF ListInv
    <2>2. CASE t = p
      BY <2>1, <2>2, <1>2, <1>3, <1>7
    <2>3. CASE t # p
      BY <2>1, <2>3, <1>2, <1>3, <1>6, <1>7
    <2> QED  BY <2>2, <2>3
  <1>13. ASSUME NEW S \in SUBSET Ref, Closed(S)'
         PROVE  Alive' \subseteq S
    <2>1. process_list \in S /\ \A q \in S \ {NULL} : next'[q] \in S
      BY <1>13, <1>4 DEF Closed
    <2>2. CASE r \in S
      <3>1. \A q \in (S \cup {p}) \cap Alive : next[q] \in S \cup {p}
        BY <2>1, <2>2, <1>3, <1>6, <1>7
      <3>2. Alive \subseteq S \cup {p}
        BY <2>1, <3>1, ClosedRestricts
      <3> QED  BY <3>2, <1>2
    <2>3. CASE r \notin S
      <3>1. \A q \in S \cap Alive : next[q] \in S
        BY <2>1, <2>3, <1>6, <1>7
      <3>2. Alive \subseteq S
        BY <2>1, <3>1, ClosedRestricts
      <3> QED  BY <3>2, <1>2
    <2> QED  BY <2>2, <2>3
  <1>14. process_list' \in Alive'
    BY <1>2, <1>4 DEF ListInv
  <1> QED  BY <1>8, <1>10, <1>11, <1>12, <1>13, <1>14 DEF ListInv

LEMMA DestroyKeeps ==
  ASSUME SchedulerInv, NEW p \in Proc, destroy_process(p)
  PROVE  SchedulerInv'
  <1>1. ListInv'
    BY UnlinkHeadKeepsList, UnlinkInsideKeepsList
  <1>2. StateInv'
    BY DEF SchedulerInv, StateInv, destroy_process, States
  <1>3. HistoryInv'
    BY DEF SchedulerInv, HistoryInv, destroy_process
  <1> QED  BY <1>1, <1>2, <1>3 DEF SchedulerInv
-----------------------------------------------------------------------------
(***************************************************************************)
(* The search.  The process behind the current one is the current one      *)
(* itself or READY, and either ends the search.                            *)
(***************************************************************************)
LEMMA BehindIsAlive ==
  ASSUME ListInv, NEW p \in Alive
  PROVE  Following(p) \in Alive
  BY ProcAssumption DEF Following, ListInv, Links, Alive

LEMMA SearchStops ==
  ASSUME SchedulerInv, NEW st,
         \A p \in Alive \ {current_process} : st[p] = "READY"
  PROVE  Following(current_process) \in Stops(st)
  <1> DEFINE f == Following(current_process)
  <1>1. current_process \in Alive
    BY DEF SchedulerInv, StateInv, Alive
  <1>2. f \in Alive
    BY <1>1, BehindIsAlive DEF SchedulerInv
  <1>3. f \in Met(st)
    BY <1>2 DEF Met, Searched, Alive, Ref
  <1>4. ~Passed(f, st)
    BY <1>2 DEF Passed
  <1> QED  BY <1>3, <1>4 DEF Stops

LEMMA ScheduleKeeps ==
  ASSUME SchedulerInv, NEW st, Schedule(st),
         st \in [Proc -> States],
         \A p \in Proc \ {current_process} : st[p] = state[p],
         st[current_process] \in {"RUNNING", "TERMINATED"},
         exited' \subseteq Proc
  PROVE  SchedulerInv'
  <1>1. PICK new \in Stops(st) :
          IF new # NULL /\ new # current_process /\ st[new] = "READY"
          THEN Dispatch(new, st)
          ELSE state' = st /\ UNCHANGED <<current_process, ranSince>>
    BY DEF Schedule
  <1>2. UNCHANGED <<process_list, next, parent>>
    BY DEF Schedule, list
  <1>3. new \in Ref
    BY DEF Stops, Met
  <1>4. CASE new # NULL /\ new # current_process /\ st[new] = "READY"
    <2>1. new \in Proc /\ Dispatch(new, st)
      BY <1>1, <1>3, <1>4 DEF Ref
    <2>2. /\ state' = [st EXCEPT ![current_process] = "READY", ![new] = "RUNNING"]
          /\ current_process' = new
      BY <2>1 DEF Dispatch, LeavingState
    <2>3. StateInv'
      BY <2>1, <2>2, <1>4 DEF SchedulerInv, StateInv, States
    <2>4. Alive' = Alive
      BY <2>1, <2>2, <1>4 DEF SchedulerInv, StateInv, States, Alive
    <2>5. HistoryInv'
      BY <2>1, <1>2 DEF SchedulerInv, HistoryInv, Dispatch
    <2> QED  BY <2>3, <2>4, <2>5, <1>2 DEF SchedulerInv, ListInv, Links, Closed
  <1>5. CASE ~(new # NULL /\ new # current_process /\ st[new] = "READY")
    <2>1. state' = st /\ UNCHANGED <<current_process, ranSince>>
      BY <1>1, <1>5
    <2>2. StateInv'
      BY <2>1 DEF SchedulerInv, StateInv, States
    <2>3. Alive' = Alive
      BY <2>1 DEF SchedulerInv, StateInv, States, Alive
    <2>4. HistoryInv'
      BY <2>1, <1>2 DEF SchedulerInv, HistoryInv
    <2> QED  BY <2>2, <2>3, <2>4, <1>2 DEF SchedulerInv, ListInv, Links, Closed
  <1> QED  BY <1>4, <1>5

\* No process is ever BLOCKED, so exit wakes none.
LEMMA ExitKeeps ==
  ASSUME SchedulerInv, exit
  PROVE  SchedulerInv'
  <1> DEFINE marked == [state EXCEPT ![current_process] = "TERMINATED"]
             waiting == /\ parent[current_process] # NULL
                        /\ marked[parent[current_process]] = "BLOCKED"
  <1>1. ~waiting
    BY DEF SchedulerInv, StateInv, HistoryInv, Ref
  <1>2. Schedule(marked) /\ exited' = exited \cup {current_process}
    BY <1>1 DEF exit
  <1>3. /\ marked \in [Proc -> States]
        /\ \A p \in Proc \ {current_process} : marked[p] = state[p]
        /\ marked[current_process] \in {"RUNNING", "TERMINATED"}
        /\ exited' \subseteq Proc
    BY <1>2 DEF SchedulerInv, StateInv, HistoryInv, States
  <1> QED  BY <1>2, <1>3, ScheduleKeeps

LEMMA SchedulerStep == SchedulerInv /\ [Next]_svars => SchedulerInv'
  <1> SUFFICES ASSUME SchedulerInv, [Next]_svars PROVE SchedulerInv'
    OBVIOUS
  <1>1. ASSUME NEW p \in Proc, AddProcess(p, NULL)  PROVE SchedulerInv'
    BY <1>1, AddKeeps DEF Ref
  <1>2. ASSUME NEW p \in Proc, AddProcess(p, current_process)  PROVE SchedulerInv'
    BY <1>2, AddKeeps DEF Ref, SchedulerInv, StateInv
  <1>3. ASSUME NEW p \in Proc, destroy_process(p)  PROVE SchedulerInv'
    BY <1>3, DestroyKeeps
  <1>4. CASE schedule
    <2>1. Schedule(state) /\ exited' = exited
      BY <1>4 DEF schedule
    <2>2. /\ state \in [Proc -> States] /\ exited' \subseteq Proc
          /\ state[current_process] \in {"RUNNING", "TERMINATED"}
      BY <2>1 DEF SchedulerInv, StateInv, HistoryInv
    <2> QED  BY <2>1, <2>2, ScheduleKeeps
  <1>5. CASE exit
    BY <1>5, ExitKeeps
  <1>6. CASE UNCHANGED svars
    BY <1>6 DEF svars, list, SchedulerInv, ListInv, StateInv, HistoryInv, Links, Closed, Alive
  <1> QED  BY <1>1, <1>2, <1>3, <1>4, <1>5, <1>6 DEF Next

LEMMA SchedulerInvariant == Spec => []SchedulerInv
  BY SchedulerInit, SchedulerStep, PTL DEF Spec
-----------------------------------------------------------------------------
(***************************************************************************)
(* What a process owns does not act on the list: every step of Process is  *)
(* one of Scheduler, so whatever holds of it holds of the whole.           *)
(***************************************************************************)
LEMMA StepOfScheduler == [ProcessNext]_pvars => [Next]_svars
  <1> SUFFICES ASSUME [ProcessNext]_pvars PROVE [Next]_svars
    OBVIOUS
  <1>1. ASSUME NEW p \in Proc, NEW kernel_mode \in BOOLEAN, Create(p, kernel_mode)
        PROVE  Next
    BY <1>1 DEF Create, create_process, Next
  <1>2. ASSUME NEW p \in Proc, fork(p)  PROVE Next
    BY <1>2 DEF fork, create_process, Next
  <1>3. ASSUME NEW p \in Proc, destroy_process(p)  PROVE Next
    BY <1>3 DEF Next
  <1>4. CASE schedule \/ exit
    BY <1>4 DEF Next
  <1>5. CASE UNCHANGED pvars
    BY <1>5 DEF pvars
  <1> QED  BY <1>1, <1>2, <1>3, <1>4, <1>5 DEF ProcessNext

(***************************************************************************)
(* Module Process, with stacks, directories, registers and a heap that can *)
(* run out, is an instance of Scheduler: create_process, fork and          *)
(* context_switch do to the list and the states what Scheduler lets them.  *)
(***************************************************************************)
THEOREM ProcessIsScheduler == ProcessSpec => Spec
  <1>1. ProcessInit => Init
    BY DEF ProcessInit
  <1> QED  BY <1>1, StepOfScheduler, PTL DEF ProcessSpec, Spec

LEMMA ProcessListInvariant == ProcessSpec => []SchedulerInv
  BY ProcessIsScheduler, SchedulerInvariant, PTL

(***************************************************************************)
(* process_list holds exactly the processes created and not destroyed, and *)
(* ends, whatever create_process, fork, exit, schedule and destroy_process *)
(* do in whatever order.                                                   *)
(***************************************************************************)
THEOREM ListStaysExact == ProcessSpec => []ListExact
  <1>1. SchedulerInv => ListExact
    <2> SUFFICES ASSUME SchedulerInv PROVE ListExact
      OBVIOUS
    <2>1. Listed = Alive
      BY ListedIsAlive DEF SchedulerInv
    <2>2. current_process \in Alive
      BY DEF SchedulerInv, StateInv, Alive
    <2> QED  BY <2>1, <2>2 DEF ListExact, SchedulerInv, ListInv
  <1> QED  BY <1>1, ProcessListInvariant, PTL

(***************************************************************************)
(* Every listed process but the current one is READY.                      *)
(***************************************************************************)
THEOREM WaitingAreReady == ProcessSpec => []OthersReady
  <1>1. SchedulerInv => OthersReady
    <2> SUFFICES ASSUME SchedulerInv PROVE OthersReady
      OBVIOUS
    <2>1. Listed = Alive
      BY ListedIsAlive DEF SchedulerInv
    <2> QED  BY <2>1 DEF OthersReady, SchedulerInv, StateInv, Alive
  <1> QED  BY <1>1, ProcessListInvariant, PTL

(***************************************************************************)
(* The loop of schedule comes to a stop, called by itself or by exit, in   *)
(* every state that can be reached.                                        *)
(***************************************************************************)
THEOREM SearchAlwaysEnds == ProcessSpec => []SearchEnds
  <1>1. SchedulerInv => SearchEnds
    <2> SUFFICES ASSUME SchedulerInv PROVE SearchEnds
      OBVIOUS
    <2> DEFINE marked == [state EXCEPT ![current_process] = "TERMINATED"]
    <2>1. \A p \in Alive \ {current_process} : state[p] = "READY"
      BY DEF SchedulerInv, StateInv, Alive
    <2>2. \A p \in Alive \ {current_process} : marked[p] = "READY"
      BY <2>1 DEF SchedulerInv, StateInv, Alive
    <2>3. Stops(state) # {}
      BY <2>1, SearchStops
    <2>4. Stops(marked) # {}
      BY <2>2, SearchStops
    <2> QED  BY <2>3, <2>4 DEF SearchEnds
  <1> QED  BY <1>1, ProcessListInvariant, PTL
-----------------------------------------------------------------------------
(***************************************************************************)
(* Registers.  A frame on a stack is where context_switch looks for it     *)
(* when its process is next, and the current process is on the stack that  *)
(* still holds the frame it came from.  A process that was not created yet *)
(* has left no frame, so that create_process and fork fill in no slot      *)
(* that leads to one.                                                      *)
(***************************************************************************)
SavedInv ==
  /\ slot \in [Proc -> [esp : Pointers, cr3 : Ref, esi : Pointers, edi : {NULL}]]
  /\ stack \in [Ref -> Ref]
  /\ \A r \in Ref : stack[r] \in Proc => state[stack[r]] # "NONE"
  /\ \A r \in Ref : stack[r] \in Proc \ {current_process} => slot[stack[r]].esi = Frame(r)
  /\ \A r \in Ref : stack[r] = current_process => esp[1] = r

MemoryInv ==
  /\ kernel_stack \in [Proc -> Ref] /\ page_directory \in [Proc -> Ref]
  /\ current_directory \in Ref /\ user_page \in [Ref -> Ref]
  /\ esp \in Pointers /\ cr3 \in Ref
  /\ heap \in 0..DIRECTORY

ProcessInv == SchedulerInv /\ SavedInv /\ MemoryInv

LEMMA PointerFacts ==
  /\ Zero \in Pointers
  /\ \A r \in Ref : Top(r) \in Pointers /\ Frame(r) \in Pointers /\ Frame(r)[1] = r
  /\ \A x \in Pointers : x[1] \in Ref
  BY DEF Pointers, Zero, Top, Frame, Ref

LEMMA ProcessInvInit == ProcessInit => ProcessInv
  <1> SUFFICES ASSUME ProcessInit PROVE ProcessInv
    OBVIOUS
  <1>1. SchedulerInv
    BY SchedulerInit DEF ProcessInit
  <1>2. Kernel \in Ref /\ NULL \in Ref
    BY ProcAssumption DEF Ref
  <1>3. SavedInv
    BY <1>2, PointerFacts, ProcAssumption DEF ProcessInit, Init, SavedInv, Ref
  <1>4. MemoryInv
    BY <1>2, PointerFacts DEF ProcessInit, MemoryInv, DIRECTORY, Ref
  <1> QED  BY <1>1, <1>3, <1>4 DEF ProcessInv

LEMMA CreateTypes ==
  ASSUME ProcessInv, NEW p \in Proc, NEW kernel_mode \in BOOLEAN, NEW par,
         create_process(p, kernel_mode, par)
  PROVE  MemoryInv'
  <1> USE DEF ProcessInv, MemoryInv
  <1>0. PICK room1 \in 0..heap : \E room2 \in 0..room1 :
          /\ kernel_stack' = [kernel_stack EXCEPT ![p] = Stack(p, room1)]
          /\ page_directory' = [page_directory EXCEPT ![p] = Directory(p, kernel_mode, room2)]
          /\ heap' \in 0..room2
    BY DEF create_process
  <1>1. PICK room2 \in 0..room1 :
          /\ kernel_stack' = [kernel_stack EXCEPT ![p] = Stack(p, room1)]
          /\ page_directory' = [page_directory EXCEPT ![p] = Directory(p, kernel_mode, room2)]
          /\ heap' \in 0..room2
    BY <1>0
  <1>2. Stack(p, room1) \in Ref /\ Directory(p, kernel_mode, room2) \in Ref
    BY ProcAssumption DEF Stack, Directory, Ref
  <1>3. heap' \in 0..DIRECTORY
    BY <1>1 DEF DIRECTORY
  <1>4. kernel_stack' \in [Proc -> Ref] /\ page_directory' \in [Proc -> Ref]
    BY <1>1, <1>2
  <1>5. user_page' \in [Ref -> Ref]
    BY DEF create_process, Ref
  <1> QED  BY <1>3, <1>4, <1>5 DEF create_process

\* A slot that is filled in belongs to a process that has left no frame.
LEMMA FilledSlotKeeps ==
  ASSUME SavedInv, SchedulerInv, NEW p \in Proc, NEW par, AddProcess(p, par),
         NEW regs \in [esp : Pointers, cr3 : Ref, esi : Pointers, edi : {NULL}],
         slot' = [slot EXCEPT ![p] = regs], UNCHANGED <<stack, esp>>
  PROVE  SavedInv'
  <1>1. /\ state[p] = "NONE" /\ state' = [state EXCEPT ![p] = "READY"]
        /\ current_process' = current_process
    BY DEF AddProcess
  <1>2. \A r \in Ref : stack[r] # p
    BY <1>1 DEF SavedInv
  <1> QED  BY <1>1, <1>2 DEF SavedInv, SchedulerInv, StateInv

LEMMA CreateKeeps ==
  ASSUME ProcessInv, NEW p \in Proc, NEW kernel_mode \in BOOLEAN, Create(p, kernel_mode)
  PROVE  SavedInv' /\ MemoryInv'
  <1>1. MemoryInv'
    BY CreateTypes DEF Create
  <1>2. Fresh(p, kernel_mode) \in [esp : Pointers, cr3 : Ref, esi : Pointers, edi : {NULL}]
    <2>1. kernel_stack'[p] \in Ref /\ page_directory'[p] \in Ref /\ p \in Ref /\ NULL \in Ref
      BY <1>1 DEF MemoryInv, Ref
    <2>2. PhysicalAddr(page_directory'[p]) \in Ref
      BY <2>1 DEF PhysicalAddr
    <2>3. Top(IF kernel_mode THEN kernel_stack'[p] ELSE p) \in Pointers
      BY <2>1, PointerFacts
    <2> QED  BY <2>2, <2>3, PointerFacts DEF Fresh
  <1>3. AddProcess(p, NULL) /\ UNCHANGED <<stack, esp>>
    BY DEF Create, create_process
  <1>4. SavedInv'
    BY <1>2, <1>3, FilledSlotKeeps DEF Create, ProcessInv
  <1> QED  BY <1>1, <1>4

LEMMA ForkKeeps ==
  ASSUME ProcessInv, NEW p \in Proc, fork(p)
  PROVE  SavedInv' /\ MemoryInv'
  <1>1. MemoryInv'
    BY CreateTypes DEF fork
  <1>2. slot[current_process] \in [esp : Pointers, cr3 : Ref, esi : Pointers, edi : {NULL}]
    BY DEF ProcessInv, SavedInv, SchedulerInv, StateInv
  <1>3. AddProcess(p, current_process) /\ UNCHANGED <<stack, esp>>
    BY DEF fork, create_process
  <1>4. SavedInv'
    BY <1>2, <1>3, FilledSlotKeeps DEF fork, ProcessInv
  <1> QED  BY <1>1, <1>4

\* schedule and exit leave every state but those of live processes alone.
LEMMA ScheduleStates ==
  ASSUME SchedulerInv, SchedulerInv', NEW st \in [Proc -> States], Schedule(st),
         \A p \in Proc \ {current_process} : st[p] = state[p]
  PROVE  /\ current_process' \in Proc
         /\ \A p \in Proc : state'[p] = "NONE" => state[p] = "NONE"
  <1>1. current_process' \in Proc /\ state[current_process] # "NONE"
    BY DEF SchedulerInv, StateInv
  <1>2. PICK new \in Stops(st) :
          IF new # NULL /\ new # current_process /\ st[new] = "READY"
          THEN Dispatch(new, st)
          ELSE state' = st /\ UNCHANGED <<current_process, ranSince>>
    BY DEF Schedule
  <1>3. ASSUME NEW p \in Proc, state'[p] = "NONE"  PROVE state[p] = "NONE"
    <2>1. CASE p = current_process
      <3>1. state'[p] \in {"READY", "RUNNING", "TERMINATED"}
        BY <2>1, <1>2 DEF Dispatch, LeavingState, SchedulerInv, StateInv
      <3> QED  BY <3>1, <1>3
    <2>2. CASE p # current_process
      BY <2>2, <1>2, <1>3 DEF Dispatch, LeavingState
    <2> QED  BY <2>1, <2>2
  <1> QED  BY <1>1, <1>3

LEMMA SwitchKeeps ==
  ASSUME ProcessInv, SchedulerInv', schedule \/ exit, switch_task, UNCHANGED memory
  PROVE  SavedInv' /\ MemoryInv'
  <1> DEFINE marked == [state EXCEPT ![current_process] = "TERMINATED"]
             waiting == /\ parent[current_process] # NULL
                        /\ marked[parent[current_process]] = "BLOCKED"
  <1> USE DEF ProcessInv
  <1>1. /\ current_process' \in Proc
        /\ \A p \in Proc : state'[p] = "NONE" => state[p] = "NONE"
    <2>1. CASE schedule
      <3>1. Schedule(state) /\ state \in [Proc -> States]
        BY <2>1 DEF schedule, SchedulerInv, StateInv
      <3> QED  BY <3>1, ScheduleStates
    <2>2. CASE exit
      <3>1. ~waiting
        BY DEF SchedulerInv, StateInv, HistoryInv, Ref
      <3>2. Schedule(marked)
        BY <2>2, <3>1 DEF exit
      <3>3. /\ marked \in [Proc -> States]
            /\ \A p \in Proc \ {current_process} : marked[p] = state[p]
        BY DEF SchedulerInv, StateInv, States
      <3> QED  BY <3>2, <3>3, ScheduleStates
    <2> QED  BY <2>1, <2>2
  <1>2. current_process \in Proc /\ state[current_process] # "NONE"
    BY DEF SchedulerInv, StateInv
  <1>3. CASE current_process' = current_process
    <2>1. UNCHANGED <<current_directory, slot, esp, cr3, stack>>
      BY <1>3 DEF switch_task, cpu
    <2> QED  BY <2>1, <1>1, <1>3 DEF SavedInv, MemoryInv, memory
  <1>4. CASE current_process' # current_process
    <2>0. PICK old, new : old = current_process /\ new = current_process'
      OBVIOUS
    <2>1. PICK here : here = esp[1]
      OBVIOUS
    <2>2. here \in Ref /\ Frame(here) \in Pointers
      BY <2>1, PointerFacts DEF MemoryInv
    <2>3. /\ slot' = [slot EXCEPT ![old].esi = Frame(here)]
          /\ stack' = [stack EXCEPT ![here] = old]
          /\ current_directory' = page_directory[new]
          /\ esp' = slot'[new].esi /\ cr3' = slot'[new].edi
      BY <1>4, <2>0, <2>1 DEF switch_task, Save
    <2>4. slot' \in [Proc -> [esp : Pointers, cr3 : Ref, esi : Pointers, edi : {NULL}]]
      BY <2>0, <2>2, <2>3, <1>2 DEF SavedInv
    <2>5. /\ stack' \in [Ref -> Ref] /\ stack'[here] = old
          /\ \A r \in Ref \ {here} : stack'[r] = stack[r] /\ stack[r] # old
      BY <2>0, <2>1, <2>2, <2>3, <1>2 DEF SavedInv, Ref
    <2>6. slot'[old].esi = Frame(here) /\ \A p \in Proc \ {old} : slot'[p] = slot[p]
      BY <2>0, <2>3, <1>2 DEF SavedInv
    <2>7. \A r \in Ref : stack'[r] \in Proc => state'[stack'[r]] # "NONE"
      BY <2>0, <2>5, <1>1, <1>2 DEF SavedInv
    <2>8. \A r \in Ref : stack'[r] \in Proc => slot'[stack'[r]].esi = Frame(r)
      BY <2>0, <2>5, <2>6 DEF SavedInv
    <2>9. \A r \in Ref : stack'[r] = new => esp'[1] = r
      BY <2>0, <2>3, <2>8, <1>1, PointerFacts
    <2>10. esp' \in Pointers /\ cr3' \in Ref /\ current_directory' \in Ref
      BY <2>0, <2>3, <2>4, <1>1 DEF MemoryInv, Ref
    <2> QED  BY <2>0, <2>4, <2>5, <2>7, <2>8, <2>9, <2>10 DEF SavedInv, MemoryInv, memory
  <1> QED  BY <1>3, <1>4

LEMMA ProcessStep == ProcessInv /\ [ProcessNext]_pvars => ProcessInv'
  <1> SUFFICES ASSUME ProcessInv, [ProcessNext]_pvars PROVE ProcessInv'
    OBVIOUS
  <1>1. SchedulerInv'
    BY StepOfScheduler, SchedulerStep DEF ProcessInv
  <1>2. ASSUME NEW p \in Proc, NEW kernel_mode \in BOOLEAN, Create(p, kernel_mode)
        PROVE  SavedInv' /\ MemoryInv'
    BY <1>2, CreateKeeps
  <1>3. ASSUME NEW p \in Proc, fork(p)  PROVE SavedInv' /\ MemoryInv'
    BY <1>3, ForkKeeps
  <1>4. ASSUME NEW p \in Proc, destroy_process(p), UNCHANGED <<memory, cpu>>
        PROVE  SavedInv' /\ MemoryInv'
    BY <1>4 DEF destroy_process, memory, cpu, ProcessInv, SavedInv, MemoryInv, SchedulerInv, StateInv
  <1>5. ASSUME (schedule \/ exit) /\ switch_task /\ UNCHANGED memory
        PROVE  SavedInv' /\ MemoryInv'
    BY <1>1, <1>5, SwitchKeeps
  <1>6. ASSUME UNCHANGED pvars  PROVE SavedInv' /\ MemoryInv'
    BY <1>6 DEF pvars, svars, memory, cpu, ProcessInv, SavedInv, MemoryInv
  <1>7. SavedInv' /\ MemoryInv'
    BY <1>2, <1>3, <1>4, <1>5, <1>6 DEF ProcessNext
  <1> QED  BY <1>1, <1>7 DEF ProcessInv

LEMMA ProcessInvariant == ProcessSpec => []ProcessInv
  BY ProcessInvInit, ProcessStep, PTL DEF ProcessSpec

(***************************************************************************)
(* The structures of processes and the registers keep their types.         *)
(***************************************************************************)
THEOREM ProcessTypeCorrect == ProcessSpec => []ProcessTypeOK
  <1>1. ProcessInv => ProcessTypeOK
    BY DEF ProcessInv, SchedulerInv, ListInv, StateInv, HistoryInv, SavedInv, MemoryInv,
           ProcessTypeOK, TypeOK, Alive
  <1> QED  BY <1>1, ProcessInvariant, PTL

(***************************************************************************)
(* A process that gets the CPU back goes on in the frame it left, if no    *)
(* other process has pushed its own there.                                 *)
(***************************************************************************)
THEOREM AlwaysResumes == ProcessSpec => GoesOnInItsFrame
  <1>1. ASSUME ProcessInv, ProcessInv', [ProcessNext]_pvars, current_process' # current_process,
               NEW r \in Ref, stack'[r] = current_process'
        PROVE  esp' = Frame(r)
    <2>1. switch_task
      BY <1>1 DEF ProcessNext, Create, fork, create_process, AddProcess, destroy_process,
                  pvars, svars
    <2>2. /\ esp' = slot'[current_process'].esi /\ slot' = Save(current_process)
          /\ stack' = [stack EXCEPT ![esp[1]] = current_process]
      BY <2>1, <1>1 DEF switch_task
    <2>3. current_process' \in Proc /\ current_process \in Proc
      BY <1>1 DEF ProcessInv, SchedulerInv, StateInv
    <2>4. slot'[current_process'] = slot[current_process']
      BY <2>2, <2>3, <1>1 DEF Save, ProcessInv, SavedInv
    <2>5. stack[r] = current_process'
      BY <2>2, <1>1 DEF ProcessInv, SavedInv
    <2> QED  BY <2>2, <2>3, <2>4, <2>5, <1>1 DEF ProcessInv, SavedInv
  <1>2. ProcessInv /\ ProcessInv' /\ [ProcessNext]_pvars
          => [current_process' # current_process
                => \A r \in Ref : stack'[r] = current_process' => esp' = Frame(r)]_pvars
    BY <1>1
  <1> QED  BY <1>2, ProcessInvariant, PTL DEF ProcessSpec, GoesOnInItsFrame

(***************************************************************************)
(* Stacks.  A process that was not forked saves and finds its stack        *)
(* pointer at home: the kernel process on the stack the boot gave it, any  *)
(* other in low memory, since create_process fills in no other.            *)
(***************************************************************************)
Home(p) == IF p = Kernel THEN {NULL, Kernel} ELSE {NULL}

HomeInv ==
  /\ \A p \in Proc : parent[p] = NULL => slot[p].esi[1] \in Home(p)
  /\ parent[current_process] = NULL => esp[1] \in Home(current_process)
  /\ \A r \in Ref : stack[r] \in Proc /\ parent[stack[r]] = NULL => r \in Home(stack[r])

LEMMA HomeInit == ProcessInit => HomeInv
  BY ProcAssumption DEF ProcessInit, Init, HomeInv, Home, Frame, Zero

\* A new process has left no frame and is not the current one.
LEMMA NewcomerKeepsHome ==
  ASSUME ProcessInv, HomeInv, NEW p \in Proc, NEW par, AddProcess(p, par),
         UNCHANGED <<stack, esp>>, slot' \in [Proc -> [esp : Pointers, cr3 : Ref, esi : Pointers, edi : {NULL}]],
         \A q \in Proc \ {p} : slot'[q] = slot[q],
         par = NULL => slot'[p].esi[1] \in Home(p)
  PROVE  HomeInv'
  <1>1. /\ state[p] = "NONE" /\ current_process' = current_process
        /\ parent' = [parent EXCEPT ![p] = par]
    BY DEF AddProcess
  <1>2. /\ p # current_process /\ current_process \in Proc
        /\ \A r \in Ref : stack[r] # p
    BY <1>1 DEF ProcessInv, SchedulerInv, StateInv, SavedInv
  <1>3. parent'[p] = par /\ \A q \in Proc \ {p} : parent'[q] = parent[q]
    BY <1>1 DEF ProcessInv, SchedulerInv, HistoryInv
  <1> QED  BY <1>1, <1>2, <1>3 DEF HomeInv, Home

LEMMA CreateKeepsHome ==
  ASSUME ProcessInv, ProcessInv', HomeInv, NEW p \in Proc, NEW kernel_mode \in BOOLEAN,
         Create(p, kernel_mode)
  PROVE  HomeInv'
  <1>1. AddProcess(p, NULL) /\ UNCHANGED <<stack, esp>>
    BY DEF Create, create_process
  <1>2. /\ slot' \in [Proc -> [esp : Pointers, cr3 : Ref, esi : Pointers, edi : {NULL}]]
        /\ \A q \in Proc \ {p} : slot'[q] = slot[q]
        /\ slot'[p].esi[1] = NULL
    BY DEF Create, Fresh, Zero, ProcessInv, SavedInv
  <1>3. slot'[p].esi[1] \in Home(p)
    BY <1>2 DEF Home
  <1> QED  BY <1>1, <1>2, <1>3, NewcomerKeepsHome

LEMMA ForkKeepsHome ==
  ASSUME ProcessInv, ProcessInv', HomeInv, NEW p \in Proc, fork(p)
  PROVE  HomeInv'
  <1>1. AddProcess(p, current_process) /\ UNCHANGED <<stack, esp>>
    BY DEF fork, create_process
  <1>2. /\ slot' \in [Proc -> [esp : Pointers, cr3 : Ref, esi : Pointers, edi : {NULL}]]
        /\ \A q \in Proc \ {p} : slot'[q] = slot[q]
    BY DEF fork, ProcessInv, SavedInv
  <1>3. current_process # NULL
    BY ProcAssumption DEF ProcessInv, SchedulerInv, StateInv
  <1> QED  BY <1>1, <1>2, <1>3, NewcomerKeepsHome

LEMMA SwitchKeepsHome ==
  ASSUME ProcessInv, ProcessInv', HomeInv, schedule \/ exit, switch_task
  PROVE  HomeInv'
  <1>1. parent' = parent
    BY DEF schedule, exit, Schedule, list
  <1>2. CASE current_process' = current_process
    <2>1. UNCHANGED <<slot, esp, stack>>
      BY <1>2 DEF switch_task, cpu
    <2> QED  BY <2>1, <1>1, <1>2 DEF HomeInv
  <1>3. CASE current_process' # current_process
    <2>0. PICK old, new : old = current_process /\ new = current_process'
      OBVIOUS
    <2>1. PICK here : here = esp[1]
      OBVIOUS
    <2>2. here \in Ref /\ old \in Proc /\ new \in Proc /\ Frame(here)[1] = here
      BY <2>0, <2>1, PointerFacts DEF ProcessInv, MemoryInv, SchedulerInv, StateInv
    <2>3. /\ slot' = [slot EXCEPT ![old].esi = Frame(here)]
          /\ stack' = [stack EXCEPT ![here] = old]
          /\ esp' = slot'[new].esi
      BY <1>3, <2>0, <2>1 DEF switch_task, Save
    <2>4. slot'[old].esi = Frame(here) /\ \A p \in Proc \ {old} : slot'[p] = slot[p]
      BY <2>2, <2>3 DEF ProcessInv, SavedInv
    <2>5. stack'[here] = old /\ \A r \in Ref \ {here} : stack'[r] = stack[r]
      BY <2>2, <2>3 DEF ProcessInv, SavedInv
    <2>6. parent[old] = NULL => here \in Home(old)
      BY <2>0, <2>1 DEF HomeInv
    <2>7. \A p \in Proc : parent[p] = NULL => slot'[p].esi[1] \in Home(p)
      BY <2>2, <2>4, <2>6 DEF HomeInv
    <2>8. \A r \in Ref : stack'[r] \in Proc /\ parent[stack'[r]] = NULL => r \in Home(stack'[r])
      BY <2>5, <2>6 DEF HomeInv
    <2> QED  BY <2>0, <2>2, <2>3, <2>7, <2>8, <1>1 DEF HomeInv, Home
  <1> QED  BY <1>2, <1>3

LEMMA HomeStep == ProcessInv /\ ProcessInv' /\ HomeInv /\ [ProcessNext]_pvars => HomeInv'
  <1> SUFFICES ASSUME ProcessInv, ProcessInv', HomeInv, [ProcessNext]_pvars PROVE HomeInv'
    OBVIOUS
  <1>1. ASSUME NEW p \in Proc, NEW kernel_mode \in BOOLEAN, Create(p, kernel_mode)
        PROVE  HomeInv'
    BY <1>1, CreateKeepsHome
  <1>2. ASSUME NEW p \in Proc, fork(p)  PROVE HomeInv'
    BY <1>2, ForkKeepsHome
  <1>3. ASSUME NEW p \in Proc, destroy_process(p), UNCHANGED <<memory, cpu>>  PROVE HomeInv'
    BY <1>3 DEF destroy_process, cpu, HomeInv, Home
  <1>4. ASSUME (schedule \/ exit) /\ switch_task  PROVE HomeInv'
    BY <1>4, SwitchKeepsHome
  <1>5. ASSUME UNCHANGED pvars  PROVE HomeInv'
    BY <1>5 DEF pvars, svars, list, cpu, HomeInv, Home
  <1> QED  BY <1>1, <1>2, <1>3, <1>4, <1>5 DEF ProcessNext

(***************************************************************************)
(* Nobody overwrites the frame in which another process waits on an        *)
(* allocated stack, unless one of the two was forked.                      *)
(***************************************************************************)
THEOREM OnlyForkSharesStacks == ProcessSpec => FramesKept
  <1>1. ASSUME ProcessInv, HomeInv, [ProcessNext]_pvars, NEW p \in Proc,
               stack[p] \notin {NULL, current_process}, stack'[p] # stack[p]
        PROVE  parent[current_process] # NULL \/ parent[stack[p]] # NULL
    <2>1. switch_task /\ current_process' # current_process
      BY <1>1 DEF ProcessNext, Create, fork, create_process, switch_task, pvars, cpu
    <2>2. stack' = [stack EXCEPT ![esp[1]] = current_process]
      BY <2>1 DEF switch_task
    <2>3. p \in Ref /\ p # NULL
      BY ProcAssumption DEF Ref
    <2>4. p = esp[1]
      BY <2>2, <2>3, <1>1 DEF ProcessInv, SavedInv
    <2>5. stack[p] \in Proc
      BY <2>3, <1>1 DEF ProcessInv, SavedInv, Ref
    <2>6. parent[current_process] = NULL => current_process = Kernel /\ p = Kernel
      BY <2>3, <2>4, <1>1 DEF HomeInv, Home
    <2>7. parent[stack[p]] = NULL => stack[p] = Kernel /\ p = Kernel
      BY <2>3, <2>5, <1>1 DEF HomeInv, Home
    <2> QED  BY <2>6, <2>7, <1>1
  <1>2. ProcessInv /\ HomeInv /\ [ProcessNext]_pvars
          => [\A p \in Proc :
                stack[p] \notin {NULL, current_process} /\ stack'[p] # stack[p]
                  => parent[current_process] # NULL \/ parent[stack[p]] # NULL]_pvars
    BY <1>1
  <1> QED  BY <1>2, HomeInit, HomeStep, ProcessInvariant, PTL DEF ProcessSpec, FramesKept
-----------------------------------------------------------------------------
(***************************************************************************)
(* The order of turns.  RoundRobin is about the distance between processes *)
(* on the list, which next only gives link by link; a rank that grows      *)
(* along the links makes it a comparison.  Behind p come those of a higher *)
(* rank and then, past the end of the list, those of a lower one: of the   *)
(* live processes only the ones from behind p up to the current one have   *)
(* been dispatched since p was.  A new head gets a rank below all others.  *)
(***************************************************************************)
Ranked(rank) ==
  /\ rank \in [Proc -> Int]
  /\ \A p, q \in Alive : rank[p] = rank[q] => p = q
  /\ \A p \in Alive : rank[process_list] <= rank[p]
  /\ \A p, q \in Alive : next[p] # NULL => rank[q] <= rank[p] \/ rank[next[p]] <= rank[q]
  /\ \A p \in Alive : next[p] # NULL => rank[p] < rank[next[p]]
  /\ \A p, q \in Alive : next[p] = NULL => rank[q] <= rank[p]

\* q is one of the processes from behind p up to cur.
UpTo(rank, p, q, cur) ==
  IF rank[p] < rank[cur] THEN rank[p] < rank[q] /\ rank[q] <= rank[cur]
                         ELSE rank[p] < rank[q] \/ rank[q] <= rank[cur]

TurnsInOrder(rank) ==
  \A p \in Alive \ {current_process} : \A q \in ranSince[p] \cap Alive :
    UpTo(rank, p, q, current_process)

RanOnce ==
  /\ ranSince[current_process] = {}
  /\ \A p \in Proc : \A q \in ranSince[p] : state[q] # "NONE"

OrderInv == /\ SchedulerInv
            /\ \E rank : Ranked(rank) /\ TurnsInOrder(rank)
            /\ RanOnce

LEMMA OrderInit == Init => OrderInv
  <1> SUFFICES ASSUME Init PROVE OrderInv
    OBVIOUS
  <1>1. Alive = {Kernel}
    BY ProcAssumption DEF Init, Alive
  <1> DEFINE rank == [p \in Proc |-> 0]
  <1>2. Ranked(rank) /\ TurnsInOrder(rank)
    BY <1>1, ProcAssumption DEF Ranked, TurnsInOrder, Init
  <1>3. RanOnce
    BY ProcAssumption DEF RanOnce, Init
  <1> QED  BY <1>2, <1>3, SchedulerInit DEF OrderInv

LEMMA AddKeepsOrder ==
  ASSUME OrderInv, NEW p \in Proc, NEW par \in Ref, AddProcess(p, par)
  PROVE  OrderInv'
  <1> USE DEF OrderInv, SchedulerInv
  <1>1. PICK rank : Ranked(rank) /\ TurnsInOrder(rank)
    OBVIOUS
  <1>2. /\ p \notin Alive /\ Alive' = Alive \cup {p} /\ current_process \in Alive
        /\ process_list \in Alive /\ process_list # NULL
    BY ProcAssumption DEF AddProcess, Alive, StateInv, ListInv
  <1>3. /\ process_list' = p /\ next'[p] = process_list
        /\ \A q \in Alive : next'[q] = next[q] /\ next[q] \in Links
    BY <1>2 DEF AddProcess, Link, ListInv, Alive
  <1>4. /\ current_process' = current_process /\ state[p] = "NONE"
        /\ ranSince'[p] = {} /\ \A q \in Alive : ranSince'[q] = ranSince[q]
    BY <1>2 DEF AddProcess, HistoryInv, Alive
  <1>n. PICK new : new = [rank EXCEPT ![p] = rank[process_list] - 1]
    OBVIOUS
  <1>5. /\ new \in [Proc -> Int] /\ new[p] = rank[process_list] - 1
        /\ \A q \in Alive : new[q] = rank[q] /\ rank[q] \in Int
    BY <1>1, <1>2, <1>n DEF Ranked, Alive
  <1>6. \A q \in Alive : new[p] < new[q]
    BY <1>1, <1>2, <1>5 DEF Ranked
  <1>7. Ranked(new)'
    <2>1. \A q, r \in Alive' : new[q] = new[r] => q = r
      BY <1>1, <1>2, <1>5, <1>6 DEF Ranked
    <2>2. \A q \in Alive' : new[process_list'] <= new[q]
      BY <1>2, <1>3, <1>5, <1>6
    <2>3. ASSUME NEW q \in Alive', next'[q] # NULL
          PROVE  /\ new[q] < new[next'[q]]
                 /\ \A r \in Alive' : new[r] <= new[q] \/ new[next'[q]] <= new[r]
      <3>1. CASE q = p
        BY <3>1, <1>1, <1>2, <1>3, <1>5, <1>6 DEF Ranked
      <3>2. CASE q \in Alive
        <4>1. next'[q] = next[q] /\ next[q] \in Alive
          BY <3>2, <2>3, <1>3 DEF Links
        <4>2. /\ rank[q] < rank[next[q]]
              /\ \A r \in Alive : rank[r] <= rank[q] \/ rank[next[q]] <= rank[r]
          BY <3>2, <4>1, <2>3, <1>1 DEF Ranked
        <4> QED  BY <3>2, <4>1, <4>2, <1>2, <1>5, <1>6
      <3> QED  BY <3>1, <3>2, <1>2
    <2>4. ASSUME NEW q \in Alive', next'[q] = NULL
          PROVE  \A r \in Alive' : new[r] <= new[q]
      <3>1. q \in Alive /\ next[q] = NULL
        BY <2>4, <1>2, <1>3
      <3> QED  BY <3>1, <1>1, <1>2, <1>5, <1>6 DEF Ranked
    <2> QED  BY <2>1, <2>2, <2>3, <2>4, <1>5 DEF Ranked
  <1>8. TurnsInOrder(new)'
    <2>1. ASSUME NEW q \in Alive' \ {current_process'}, NEW r \in ranSince'[q] \cap Alive'
          PROVE  UpTo(new, q, r, current_process')
      <3>1. q \in Alive \ {current_process} /\ r \in ranSince[q] \cap Alive'
        BY <2>1, <1>2, <1>4
      <3>2. r \in Alive
        BY <3>1, <1>2, <1>4 DEF RanOnce, Alive
      <3>3. UpTo(rank, q, r, current_process)
        BY <3>1, <3>2, <1>1 DEF TurnsInOrder
      <3> QED  BY <3>1, <3>2, <3>3, <1>2, <1>4, <1>5 DEF UpTo
    <2> QED  BY <2>1 DEF TurnsInOrder
  <1>9. RanOnce'
    <2>1. \A q \in Proc : ranSince'[q] \subseteq ranSince[q]
      BY DEF AddProcess, HistoryInv
    <2>2. \A q \in Proc : state[q] # "NONE" => state'[q] # "NONE"
      BY DEF AddProcess, StateInv
    <2>3. \A q \in Proc : ranSince[q] \subseteq Proc
      BY DEF HistoryInv
    <2> QED  BY <2>1, <2>2, <2>3, <1>2, <1>4 DEF RanOnce, StateInv
  <1>10. SchedulerInv'
    BY AddKeeps
  <1> QED  BY <1>7, <1>8, <1>9, <1>10

LEMMA DestroyKeepsOrder ==
  ASSUME OrderInv, NEW p \in Proc, destroy_process(p)
  PROVE  OrderInv'
  <1> USE DEF OrderInv, SchedulerInv
  <1>1. PICK rank : Ranked(rank) /\ TurnsInOrder(rank)
    OBVIOUS
  <1>2. /\ p \in Alive /\ p # current_process /\ current_process \in Alive
        /\ UNCHANGED <<current_process, ranSince>>
    BY DEF destroy_process, StateInv, Alive
  <1>3. Alive' = Alive \ {p} /\ NULL \notin Alive
    BY <1>2, ProcAssumption DEF destroy_process, Alive, StateInv
  <1>i. \A q \in Alive : rank[q] \in Int
    BY <1>1 DEF Ranked, Alive
  <1>4. Ranked(rank)'
    <2>1. CASE process_list = p
      <3>1. process_list' = next[p] /\ next' = next
        BY <2>1 DEF destroy_process, Unlink
      <3>2. next[p] \in Alive \ {p}
        BY <2>1, <1>2, HeadHasNext
      <3>3. \A q \in Alive' : rank[next[p]] <= rank[q]
        BY <2>1, <3>2, <1>1, <1>2, <1>3, <1>i DEF Ranked
      <3> QED  BY <3>1, <3>3, <1>1, <1>3 DEF Ranked
    <2>2. CASE process_list # p
      <3>1. PICK r \in Alive \ {p} : next[r] = p
        BY <2>2, <1>2, Predecessor
      <3>2. process_list' = process_list
        BY <2>2 DEF destroy_process, Unlink
      <3>3. next' = [q \in Proc |-> IF q \in Listed /\ next[q] = p THEN next[p] ELSE next[q]]
        BY <2>2 DEF destroy_process, Unlink
      <3>4. /\ next'[r] = next[p]
            /\ \A q \in Alive : q # r => next'[q] = next[q] /\ next[q] # p
        BY <1>2, <1>3, <3>1, <3>3, ListedIsAlive DEF ListInv, Alive
      <3>5. rank[r] < rank[p] /\ \A q \in Alive : rank[q] <= rank[r] \/ rank[p] <= rank[q]
        BY <1>1, <1>2, <1>3, <3>1 DEF Ranked
      <3>6. \A q \in Alive' : rank[q] # rank[p]
        BY <1>1, <1>2, <1>3 DEF Ranked
      <3>7. next[p] # NULL => /\ next[p] \in Alive /\ rank[p] < rank[next[p]]
                              /\ \A q \in Alive : rank[q] <= rank[p] \/ rank[next[p]] <= rank[q]
        BY <1>1, <1>2 DEF Ranked, ListInv, Links
      <3>8. next[p] = NULL => \A q \in Alive : rank[q] <= rank[p]
        BY <1>1, <1>2 DEF Ranked
      <3>9. ASSUME NEW q \in Alive', next'[q] # NULL
            PROVE  /\ rank[q] < rank[next'[q]]
                   /\ \A s \in Alive' : rank[s] <= rank[q] \/ rank[next'[q]] <= rank[s]
        <4>1. CASE q = r
          BY <4>1, <3>1, <3>9, <3>4, <3>5, <3>6, <3>7, <1>2, <1>3, <1>i
        <4>2. CASE q # r
          BY <4>2, <3>9, <3>4, <1>1, <1>3 DEF Ranked
        <4> QED  BY <4>1, <4>2
      <3>10. ASSUME NEW q \in Alive', next'[q] = NULL
             PROVE  \A s \in Alive' : rank[s] <= rank[q]
        <4>1. CASE q = r
          BY <4>1, <3>1, <3>10, <3>4, <3>5, <3>6, <3>8, <1>2, <1>3, <1>i
        <4>2. CASE q # r
          BY <4>2, <3>10, <3>4, <1>1, <1>3 DEF Ranked
        <4> QED  BY <4>1, <4>2
      <3>11. /\ rank \in [Proc -> Int]
             /\ \A q, s \in Alive' : rank[q] = rank[s] => q = s
             /\ \A q \in Alive' : rank[process_list'] <= rank[q]
        BY <3>2, <1>1, <1>3 DEF Ranked
      <3> QED  BY <3>9, <3>10, <3>11 DEF Ranked
    <2> QED  BY <2>1, <2>2
  <1>5. TurnsInOrder(rank)'
    BY <1>1, <1>2, <1>3 DEF TurnsInOrder
  <1>6. RanOnce'
    <2>1. \A q \in Proc : state[q] # "NONE" => state'[q] # "NONE"
      BY DEF destroy_process, StateInv
    <2> QED  BY <2>1, <1>2 DEF RanOnce, HistoryInv
  <1>7. SchedulerInv'
    BY DestroyKeeps
  <1> QED  BY <1>4, <1>5, <1>6, <1>7

\* The search stops nowhere but at the process behind the current one.
LEMMA SearchTakesNext ==
  ASSUME SchedulerInv, NEW st, NEW new \in Stops(st),
         \A p \in Alive \ {current_process} : st[p] = "READY"
  PROVE  new = Following(current_process)
  <1> DEFINE f == Following(current_process)
  <1>1. f \in Alive
    BY BehindIsAlive DEF SchedulerInv, StateInv, Alive
  <1>2. {f} \in SUBSET Ref /\ Searched({f}, st)
    BY <1>1 DEF Searched, Passed, Alive, Ref
  <1>3. new \in {f}
    BY <1>2 DEF Stops, Met
  <1> QED  BY <1>3

\* Whoever is dispatched has not been since any other live process was.
LEMMA NextWaitedLongest ==
  ASSUME OrderInv, NEW p \in Alive \ {Following(current_process)}
  PROVE  Following(current_process) \notin ranSince[p]
  <1> USE DEF OrderInv, SchedulerInv
  <1>1. PICK rank : Ranked(rank) /\ TurnsInOrder(rank)
    OBVIOUS
  <1>2. PICK cur, new : cur = current_process /\ new = Following(cur)
    OBVIOUS
  <1>3. cur \in Alive /\ new \in Alive
    BY <1>2, BehindIsAlive DEF StateInv, Alive
  <1>i. \A q \in Alive : rank[q] \in Int
    BY <1>1 DEF Ranked, Alive
  <1>4. CASE p = cur
    BY <1>4, <1>2 DEF RanOnce
  <1>5. CASE p # cur
    <2>1. rank[p] # rank[new] /\ rank[p] # rank[cur]
      BY <1>1, <1>2, <1>3, <1>5 DEF Ranked
    <2>2. new \in ranSince[p] => UpTo(rank, p, new, cur)
      BY <1>1, <1>2, <1>3, <1>5 DEF TurnsInOrder
    <2>3. CASE next[cur] # NULL
      <3>1. new = next[cur]
        BY <2>3, <1>2, <1>3, ProcAssumption DEF Following, Alive
      <3>2. rank[cur] < rank[new] /\ (rank[p] <= rank[cur] \/ rank[new] <= rank[p])
        BY <2>3, <3>1, <1>1, <1>3 DEF Ranked
      <3>3. new \notin ranSince[p]
        BY <2>1, <2>2, <3>2, <1>3, <1>i DEF UpTo
      <3> QED  BY <3>3, <1>2
    <2>4. CASE next[cur] = NULL
      <3>1. new = process_list
        BY <2>4, <1>2, <1>3, ProcAssumption DEF Following, Alive
      <3>2. rank[p] <= rank[cur] /\ rank[new] <= rank[p]
        BY <2>4, <3>1, <1>1, <1>3 DEF Ranked
      <3>3. new \notin ranSince[p]
        BY <2>1, <2>2, <3>2, <1>3, <1>i DEF UpTo
      <3> QED  BY <3>3, <1>2
    <2> QED  BY <2>3, <2>4
  <1> QED  BY <1>4, <1>5

LEMMA DispatchKeepsOrder ==
  ASSUME OrderInv, NEW st \in [Proc -> States],
         NEW new, new = Following(current_process), new # current_process,
         Dispatch(new, st), UNCHANGED list, Alive' = Alive, SchedulerInv',
         \A p \in Proc \ {current_process} : st[p] = state[p]
  PROVE  OrderInv'
  <1> USE DEF OrderInv, SchedulerInv
  <1>1. PICK rank : Ranked(rank) /\ TurnsInOrder(rank)
    OBVIOUS
  <1>2. PICK cur : cur = current_process
    OBVIOUS
  <1>3. cur \in Alive /\ new \in Alive /\ cur # new
    BY <1>2, BehindIsAlive DEF StateInv, Alive
  <1>i. \A q \in Alive : rank[q] \in Int
    BY <1>1 DEF Ranked, Alive
  <1>4. /\ current_process' = new
        /\ ranSince'[new] = {}
        /\ \A q \in Alive \ {new} : ranSince'[q] = ranSince[q] \cup {new}
        /\ \A q \in Proc : ranSince'[q] \subseteq ranSince[q] \cup {new}
    BY <1>3 DEF Dispatch, Alive
  <1>5. Ranked(rank)'
    BY <1>1 DEF Ranked, list
  <1>6. TurnsInOrder(rank)'
    <2>1. ASSUME NEW p \in Alive \ {new}, NEW q \in ranSince'[p] \cap Alive
          PROVE  UpTo(rank, p, q, new)
      <3>1. q \in ranSince[p] \/ q = new
        BY <2>1, <1>4
      <3>2. rank[p] # rank[new]
        BY <2>1, <1>1, <1>3 DEF Ranked
      <3>3. p # cur => rank[p] # rank[cur] /\ (q \in ranSince[p] => UpTo(rank, p, q, cur))
        BY <2>1, <1>1, <1>2, <1>3 DEF Ranked, TurnsInOrder
      <3>4. p = cur => q = new
        BY <3>1, <1>2 DEF RanOnce
      <3>5. CASE next[cur] # NULL
        <4>1. new = next[cur]
          BY <3>5, <1>2, <1>3, ProcAssumption DEF Following, Alive
        <4>2. rank[cur] < rank[new] /\ (rank[p] <= rank[cur] \/ rank[new] <= rank[p])
          BY <2>1, <3>5, <4>1, <1>1, <1>3 DEF Ranked
        <4> QED  BY <2>1, <3>1, <3>2, <3>3, <3>4, <4>2, <1>3, <1>i DEF UpTo
      <3>6. CASE next[cur] = NULL
        <4>1. new = process_list
          BY <3>6, <1>2, <1>3, ProcAssumption DEF Following, Alive
        <4>2. rank[p] <= rank[cur] /\ rank[new] <= rank[p]
          BY <2>1, <3>6, <4>1, <1>1, <1>3 DEF Ranked
        <4> QED  BY <2>1, <3>1, <3>2, <3>3, <3>4, <4>2, <1>3, <1>i DEF UpTo
      <3> QED  BY <3>5, <3>6
    <2> QED  BY <2>1, <1>4 DEF TurnsInOrder
  <1>7. RanOnce'
    <2>1. \A q \in Proc : state[q] # "NONE" => state'[q] # "NONE"
      <3>1. state' = [st EXCEPT ![cur] = "READY", ![new] = "RUNNING"]
        BY <1>2 DEF Dispatch, LeavingState
      <3> QED  BY <3>1, <1>2
    <2>2. state'[new] # "NONE"
      BY <1>3 DEF Alive
    <2>3. \A q \in Proc : ranSince[q] \subseteq Proc
      BY DEF HistoryInv
    <2> QED  BY <2>1, <2>2, <2>3, <1>4 DEF RanOnce
  <1> QED  BY <1>5, <1>6, <1>7

\* schedule, called by itself or by exit.
LEMMA ScheduleKeepsOrder ==
  ASSUME OrderInv, NEW st, Schedule(st), SchedulerInv',
         st \in [Proc -> States],
         \A p \in Proc \ {current_process} : st[p] = state[p],
         st[current_process] \in {"RUNNING", "TERMINATED"}
  PROVE  /\ OrderInv'
         /\ current_process' # current_process => current_process' = Following(current_process)
  <1> USE DEF OrderInv
  <1>1. PICK new \in Stops(st) :
          IF new # NULL /\ new # current_process /\ st[new] = "READY"
          THEN Dispatch(new, st)
          ELSE state' = st /\ UNCHANGED <<current_process, ranSince>>
    BY DEF Schedule
  <1>2. UNCHANGED list
    BY DEF Schedule
  <1>3. \A p \in Alive \ {current_process} : st[p] = "READY"
    BY DEF SchedulerInv, StateInv, Alive
  <1>4. new = Following(current_process)
    BY <1>3, SearchTakesNext
  <1>5. new \in Proc
    BY <1>4, BehindIsAlive DEF SchedulerInv, StateInv, Alive
  <1>6. CASE new # NULL /\ new # current_process /\ st[new] = "READY"
    <2>1. Dispatch(new, st)
      BY <1>1, <1>6
    <2>2. Alive' = Alive
      BY <2>1, <1>5, <1>6 DEF Dispatch, LeavingState, SchedulerInv, StateInv, States, Alive
    <2>3. OrderInv'
      BY <2>1, <2>2, <1>2, <1>4, <1>6, DispatchKeepsOrder
    <2> QED  BY <2>1, <2>3, <1>4 DEF Dispatch
  <1>7. CASE ~(new # NULL /\ new # current_process /\ st[new] = "READY")
    <2>1. state' = st /\ UNCHANGED <<current_process, ranSince>>
      BY <1>1, <1>7
    <2>2. Alive' = Alive
      BY <2>1 DEF SchedulerInv, StateInv, States, Alive
    <2>3. PICK rank : Ranked(rank) /\ TurnsInOrder(rank)
      OBVIOUS
    <2>4. Ranked(rank)' /\ TurnsInOrder(rank)'
      BY <2>1, <2>2, <2>3, <1>2 DEF Ranked, TurnsInOrder, list
    <2>5. RanOnce'
      BY <2>1 DEF RanOnce, SchedulerInv, StateInv, HistoryInv
    <2> QED  BY <2>1, <2>4, <2>5
  <1> QED  BY <1>6, <1>7

LEMMA OrderStep ==
  OrderInv /\ [Next]_svars =>
    /\ OrderInv'
    /\ current_process' # current_process => current_process' = Following(current_process)
  <1> SUFFICES ASSUME OrderInv, [Next]_svars
               PROVE  /\ OrderInv'
                      /\ current_process' # current_process =>
                           current_process' = Following(current_process)
    OBVIOUS
  <1> USE DEF OrderInv
  <1>s. SchedulerInv'
    BY SchedulerStep
  <1>1. ASSUME NEW p \in Proc, AddProcess(p, NULL) \/ AddProcess(p, current_process)
        PROVE  OrderInv' /\ current_process' = current_process
    <2>1. NULL \in Ref /\ current_process \in Ref
      BY DEF SchedulerInv, StateInv, Ref
    <2>2. current_process' = current_process
      BY <1>1 DEF AddProcess
    <2> QED  BY <1>1, <2>1, <2>2, AddKeepsOrder
  <1>2. ASSUME NEW p \in Proc, destroy_process(p)
        PROVE  OrderInv' /\ current_process' = current_process
    <2>1. current_process' = current_process
      BY <1>2 DEF destroy_process
    <2> QED  BY <1>2, <2>1, DestroyKeepsOrder
  <1>3. CASE schedule
    <2>1. Schedule(state)
      BY <1>3 DEF schedule
    <2>2. state \in [Proc -> States] /\ state[current_process] \in {"RUNNING", "TERMINATED"}
      BY DEF SchedulerInv, StateInv
    <2> QED  BY <2>1, <2>2, <1>s, ScheduleKeepsOrder
  <1>4. CASE exit
    <2> DEFINE marked == [state EXCEPT ![current_process] = "TERMINATED"]
               waiting == /\ parent[current_process] # NULL
                          /\ marked[parent[current_process]] = "BLOCKED"
    <2>1. ~waiting
      BY DEF SchedulerInv, StateInv, HistoryInv, Ref
    <2>2. Schedule(marked)
      BY <1>4, <2>1 DEF exit
    <2>3. /\ marked \in [Proc -> States]
          /\ \A p \in Proc \ {current_process} : marked[p] = state[p]
          /\ marked[current_process] \in {"RUNNING", "TERMINATED"}
      BY DEF SchedulerInv, StateInv, States
    <2> QED  BY <2>2, <2>3, <1>s, ScheduleKeepsOrder
  <1>5. CASE UNCHANGED svars
    <2>1. UNCHANGED <<process_list, next, state, current_process, ranSince>>
      BY <1>5 DEF svars, list
    <2>2. PICK rank : Ranked(rank) /\ TurnsInOrder(rank)
      OBVIOUS
    <2>3. Ranked(rank)' /\ TurnsInOrder(rank)' /\ RanOnce'
      BY <2>1, <2>2 DEF Ranked, TurnsInOrder, RanOnce, Alive
    <2> QED  BY <2>1, <2>3, <1>s
  <1> QED  BY <1>1, <1>2, <1>3, <1>4, <1>5 DEF Next

(***************************************************************************)
(* schedule is round-robin whatever is created at the head of the list,    *)
(* forked, unlinked anywhere in it and exited meanwhile: while a process   *)
(* waits for its turn, no other gets two.                                  *)
(***************************************************************************)
THEOREM NobodyGetsTwoTurns == ProcessSpec => RoundRobin
  <1>1. OrderInv /\ [Next]_svars =>
          OrderInv' /\ [ current_process' # current_process =>
            \A p \in Alive \ {current_process'} : current_process' \notin ranSince[p] ]_svars
    BY OrderStep, NextWaitedLongest
  <1> QED  BY <1>1, OrderInit, ProcessIsScheduler, PTL DEF Spec, RoundRobin
=============================================================================
