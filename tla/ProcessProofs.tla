--------------------------- MODULE ProcessProofs ---------------------------
(***************************************************************************)
(* The process table, hierarchy and address spaces stay consistent for any *)
(* number of processes, any limit, and whatever allocation fails.          *)
(***************************************************************************)
EXTENDS Process, ListProofs, FiniteSetTheorems

\* The conjunction that is inductive. TableOK, HierarchyOK and AddressSpacesOK
\* are not inductive alone: what a step of kprocess_kill_process does is right
\* because of what ControlOK says about the process it kills.
IInv == TypeOK /\ TableOK /\ HierarchyOK /\ AddressSpacesOK /\ ControlOK

-----------------------------------------------------------------------------
(* Lists and counting *)

\* A list without items is empty.
LEMMA NoItems ==
  ASSUME NEW S, NEW s \in Seq(S), Items(s) = {}
  PROVE  s = <<>>
<1>1. Len(s) \in Nat  OBVIOUS
<1>2. Len(s) = 0
  <2> SUFFICES ASSUME Len(s) # 0 PROVE FALSE  OBVIOUS
  <2>1. 1 \in 1..Len(s)  BY <1>1
  <2>. QED  BY <2>1 DEF Items
<1>. QED  BY <1>2

\* The empty list has no items.
LEMMA EmptyItems ==
  Items(<<>>) = {} /\ NoRepeats(<<>>)
BY DEF Items, NoRepeats

\* One process more, or one less, changes the count by one.
LEMMA Counting ==
  ASSUME NEW A \in SUBSET Procs, NEW p \in Procs
  PROVE  /\ Cardinality(A) \in Nat
         /\ p \notin A => Cardinality(A \cup {p}) = Cardinality(A) + 1
         /\ p \in A => Cardinality(A \ {p}) = Cardinality(A) - 1
<1>1. IsFiniteSet(A)  BY FS_Subset, ProcsAssumption
<1>. QED  BY <1>1, FS_CardinalityType, FS_AddElement, FS_RemoveElement

\* kprocess_pushEvent leaves the events queues well formed.
LEMMA PushedType ==
  ASSUME NEW ev \in [Procs -> Seq(Event)], NEW q \in Procs, NEW p \in Procs,
         NEW id \in {YIELD_REQ, CHILD_KILLED}, NEW data \in Codes
  PROVE  Pushed(ev, q, id, data, p) \in [Procs -> Seq(Event)]
<1>1. [event |-> id, data |-> data, for |-> p] \in Event  BY DEF Event
<1> DEFINE e == [event |-> id, data |-> data, for |-> p]
<1> HIDE DEF e
<1>2. Append(ev[q], e) \in Seq(Event)  BY <1>1 DEF e
<1>. QED  BY <1>2 DEF Pushed, e

\* What the search by process ID finds has that ID and is in the queue.
LEMMA FoundItem ==
  ASSUME NEW q \in Seq(Procs), NEW n, s_getProcessInfoFromID(q, n) # NULL
  PROVE  /\ s_getProcessInfoFromID(q, n) \in Items(q)
         /\ pid[s_getProcessInfoFromID(q, n)] = n
<1> DEFINE First(i) == /\ pid[q[i]] = n
                       /\ \A j \in 1..(i - 1) : pid[q[j]] # n
<1>1. \E i \in 1..Len(q) : pid[q[i]] = n  BY DEF s_getProcessInfoFromID
<1>2. \E i \in 1..Len(q) : First(i)
  <2> DEFINE S == {i \in 1..Len(q) : pid[q[i]] = n}
  <2>1. S # {} /\ S \subseteq Nat  BY <1>1
  <2>2. PICK m \in S : \A i \in S : m <= i  BY <2>1, LeastNumber
  <2>. QED  BY <2>2
<1> DEFINE k == CHOOSE i \in 1..Len(q) : First(i)
<1>3. k \in 1..Len(q) /\ First(k)  BY <1>2
<1>4. s_getProcessInfoFromID(q, n) = q[k]  BY <1>1 DEF s_getProcessInfoFromID
<1> HIDE DEF k
<1>. QED  BY <1>3, <1>4 DEF Items

\* So it finds a process.
LEMMA FoundType ==
  ASSUME NEW q \in Seq(Procs), NEW n, s_getProcessInfoFromID(q, n) # NULL
  PROVE  s_getProcessInfoFromID(q, n) \in Procs
BY FoundItem DEF Items

-----------------------------------------------------------------------------
(* Facts that the invariant gives to several actions *)

\* An address that kmalloc may return is in no list and is nobody's parent.
LEMMA Fresh ==
  ASSUME IInv, NEW p \in Procs, pid[p] = 0
  PROVE  /\ p \notin live
         /\ children[p] = <<>>
         /\ p \notin Items(schedulerQueue)
         /\ \A q \in live : parent[q] # p
         /\ \A q \in Procs : p \notin Items(children[q])
<1>1. p \notin live  BY DEF live
<1>2. \A q \in live : parent[q] # p
  BY <1>1, ProcsAssumption DEF IInv, HierarchyOK, ParentLinks
<1>3. children[p] \in Seq(Procs)  BY DEF IInv, TypeOK
<1>4. Items(children[p]) = {}
  BY <1>2 DEF IInv, HierarchyOK, ChildLinks
<1>5. children[p] = <<>>  BY <1>3, <1>4, NoItems
<1>6. /\ p \notin Items(schedulerQueue)
      /\ \A q \in Procs : p \notin Items(children[q])
  BY <1>1 DEF IInv, TableOK, HierarchyOK, ChildLinks
<1>. QED  BY <1>1, <1>2, <1>5, <1>6

\* A panic stops the machine and changes nothing else.
LEMMA PanicKeeps ==
  ASSUME IInv, NEW why \in Panics, Panic(why)
  PROVE  IInv'
<1> USE DEF Panic, infoVars, tableVars, spaceVars, killVars, ghostVars, Panics, Routines
<1>1. live' = live  BY DEF live
<1>2. TypeOK'  BY DEF IInv, TypeOK
<1>3. TableOK'  BY <1>1 DEF IInv, TableOK
<1>4. \A p \in live : Undoing(p) => Undoing(p)'  BY DEF Undoing
<1>5. HierarchyOK'
  BY <1>1, <1>4 DEF IInv, HierarchyOK, OneRoot, ParentLinks, ChildLinks
<1>6. AddressSpacesOK'  BY <1>1, <1>4 DEF IInv, AddressSpacesOK
<1>7. ControlOK'  BY <1>1 DEF IInv, ControlOK, Killing
<1>. QED  BY <1>2, <1>3, <1>5, <1>6, <1>7 DEF IInv

\* Initially there is no process.
LEMMA InitIInv == Init => IInv
<1> SUFFICES ASSUME Init PROVE IInv  OBVIOUS
<1> USE DEF Init
<1>1. live = {}  BY DEF live
<1>2. TypeOK
  <2>1. <<>> \in Seq(Procs) /\ <<>> \in Seq(Event)  OBVIOUS
  <2>2. /\ children \in [Procs -> Seq(Procs)]
        /\ events \in [Procs -> Seq(Event)]
    BY <2>1
  <2>3. 0 \in 0..MAX_PROCESS_COUNT  BY MaxAssumption
  <2>. QED  BY <2>1, <2>2, <2>3 DEF TypeOK, Routines, Panics, Codes
<1>3. TableOK
  <2>1. Cardinality({}) = 0  BY FS_EmptySet
  <2>. QED  BY <1>1, <2>1, EmptyItems DEF TableOK
<1>4. HierarchyOK
  BY <1>1, EmptyItems DEF HierarchyOK, OneRoot, ParentLinks, ChildLinks
<1>5. AddressSpacesOK  BY <1>1 DEF AddressSpacesOK
<1>6. ControlOK  BY <1>1 DEF ControlOK, Killing
<1>. QED  BY <1>2, <1>3, <1>4, <1>5, <1>6 DEF IInv

\* Steps that leave every process where it is: they may reorder or shorten the
\* scheduler queue, switch, and call other routines.
LEMMA SameProcesses ==
  ASSUME IInv, pc \in {"user", "yield"},
         UNCHANGED <<pid, thread, parent, children, context, processCount, spaces, leaked>>,
         Items(schedulerQueue') \subseteq Items(schedulerQueue), NoRepeats(schedulerQueue'),
         \/ rootProcess' = rootProcess
         \/ rootProcess' \in live /\ parent[rootProcess'] = NULL,
         cr3' \in spaces,
         pc' = "user" => currentProcess' \in live /\ cr3' = context[currentProcess']
  PROVE  TableOK' /\ HierarchyOK' /\ AddressSpacesOK'
<1>1. live' = live  BY DEF live
<1>2. \A p \in live : ~Undoing(p)  BY DEF Undoing, Panics
<1>3. TableOK'  BY <1>1 DEF IInv, TableOK
<1>4. HierarchyOK'
  BY <1>1, <1>2 DEF IInv, HierarchyOK, OneRoot, ParentLinks, ChildLinks
<1>5. AddressSpacesOK'  BY <1>1, <1>2 DEF IInv, AddressSpacesOK
<1>. QED  BY <1>3, <1>4, <1>5

\* exit and abort pick a process that is alive and not the root.
LEMMA KprocessExit ==
  ASSUME IInv, NEW code \in ExitCodes, NEW destroyContext \in BOOLEAN,
         kprocess_exit(code, destroyContext)
  PROVE  IInv'
<1> USE DEF kprocess_exit, infoVars, tableVars, spaceVars, ghostVars
<1>1. live' = live  BY DEF live
<1>2. currentProcess \in live /\ currentProcess \in Procs /\ currentProcess # NULL
  BY ProcsAssumption DEF IInv, AddressSpacesOK, live
<1>3. ~Undoing(currentProcess)  BY DEF Undoing, Panics
<1>4. victim' \in live /\ parent[victim'] # NULL
  BY <1>2, <1>3 DEF IInv, HierarchyOK, ParentLinks
<1>5. TypeOK'
  BY <1>4, CodesAssumption DEF IInv, TypeOK, live, Routines, Codes
<1>6. TableOK' /\ HierarchyOK' /\ AddressSpacesOK'
  <2>1. /\ NoRepeats(schedulerQueue') /\ Items(schedulerQueue') = Items(schedulerQueue)
        /\ cr3' \in spaces
    BY DEF IInv, TableOK, AddressSpacesOK
  <2>. QED  BY <2>1, SameProcesses
<1>7. ControlOK'  BY <1>1, <1>2, <1>4 DEF IInv, ControlOK, Killing
<1>. QED  BY <1>5, <1>6, <1>7 DEF IInv

\* The yield system call enters kprocess_yield.
LEMMA YieldCall ==
  ASSUME IInv, ksys_yieldProcess
  PROVE  IInv'
<1> USE DEF ksys_yieldProcess, infoVars, tableVars, spaceVars, killVars, ghostVars
<1>1. live' = live  BY DEF live
<1>2. currentProcess \in live /\ currentProcess # NULL
  BY ProcsAssumption DEF IInv, AddressSpacesOK, live
<1>3. TypeOK'  BY DEF IInv, TypeOK, Routines
<1>4. TableOK' /\ HierarchyOK' /\ AddressSpacesOK'
  <2>1. /\ NoRepeats(schedulerQueue') /\ Items(schedulerQueue') = Items(schedulerQueue)
        /\ cr3' \in spaces
    BY DEF IInv, TableOK, AddressSpacesOK
  <2>. QED  BY <2>1, SameProcesses
<1>5. ControlOK'  BY <1>1, <1>2 DEF IInv, ControlOK, Killing
<1>. QED  BY <1>3, <1>4, <1>5 DEF IInv

\* Dequeue and enqueue: the first process becomes the last.
LEMMA Rotated ==
  ASSUME IInv, schedulerQueue # <<>>
  PROVE  LET q == Append(Tail(schedulerQueue), Head(schedulerQueue))
         IN  /\ q \in Seq(Procs) /\ NoRepeats(q)
             /\ Items(q) = Items(schedulerQueue)
             /\ Head(schedulerQueue) \in live
<1> DEFINE h == Head(schedulerQueue)
           t == Tail(schedulerQueue)
<1>1. schedulerQueue \in Seq(Procs) /\ NoRepeats(schedulerQueue)
  BY DEF IInv, TypeOK, TableOK
<1>2. /\ t \in Seq(Procs) /\ h \in Procs
      /\ h \in Items(schedulerQueue)
      /\ Items(t) = Items(schedulerQueue) \ {h}
      /\ NoRepeats(t)
  BY <1>1, TailItems
<1> HIDE DEF h, t
<1>3. /\ Append(t, h) \in Seq(Procs) /\ NoRepeats(Append(t, h))
      /\ Items(Append(t, h)) = Items(schedulerQueue)
  BY <1>2, AppendItems
<1>4. h \in live  BY <1>2 DEF IInv, TableOK
<1>. QED  BY <1>3, <1>4 DEF h, t

\* Every way through kprocess_yield and s_switchProcess keeps the invariant.
LEMMA YieldKeeps ==
  ASSUME IInv, Yield
  PROVE  IInv'
<1> USE DEF infoVars, spaceVars, killVars, ghostVars
<1>1. CASE YieldAgain
  <2> USE <1>1 DEF YieldAgain
  <2>1. live' = live  BY DEF live
  <2>2. schedulerQueue' \in Seq(Procs) /\ NoRepeats(schedulerQueue')
        /\ Items(schedulerQueue') = Items(schedulerQueue)
    BY Rotated
  <2>3. TypeOK'  BY <2>2 DEF IInv, TypeOK
  <2>4. TableOK' /\ HierarchyOK' /\ AddressSpacesOK'
    <3>1. cr3' \in spaces  BY DEF IInv, AddressSpacesOK
    <3>. QED  BY <2>2, <3>1, SameProcesses
  <2>5. ControlOK'  BY <2>1 DEF IInv, ControlOK, Killing
  <2>. QED  BY <2>3, <2>4, <2>5 DEF IInv
<1>2. CASE YieldToSelf
  <2> USE <1>2 DEF YieldToSelf
  <2>1. live' = live  BY DEF live
  <2>2. schedulerQueue' \in Seq(Procs) /\ NoRepeats(schedulerQueue')
        /\ Items(schedulerQueue') = Items(schedulerQueue)
    BY Rotated
  <2>3. TypeOK'  BY <2>2 DEF IInv, TypeOK, Routines
  <2>4. currentProcess # NULL  BY DEF IsCurrentPid
  <2>5. currentProcess \in live /\ cr3 = context[currentProcess]
    BY <2>4 DEF IInv, ControlOK
  <2>6. TableOK' /\ HierarchyOK' /\ AddressSpacesOK'
    <3>1. cr3' \in spaces  BY DEF IInv, AddressSpacesOK
    <3>. QED  BY <2>2, <2>5, <3>1, SameProcesses
  <2>7. ControlOK'  BY <2>1, <2>4 DEF IInv, ControlOK, Killing
  <2>. QED  BY <2>3, <2>6, <2>7 DEF IInv
<1>3. CASE YieldSwitch
  <2> USE <1>3 DEF YieldSwitch
  <2> DEFINE next == Head(schedulerQueue)
  <2>1. live' = live  BY DEF live
  <2>2. schedulerQueue' \in Seq(Procs) /\ NoRepeats(schedulerQueue')
        /\ Items(schedulerQueue') = Items(schedulerQueue)
        /\ next \in live
    BY Rotated
  <2>3. next \in Procs /\ next # NULL  BY <2>2, ProcsAssumption DEF live
  <2>4. context[next] \in spaces \ {KERNEL}  BY <2>2 DEF IInv, AddressSpacesOK
  <2> HIDE DEF next
  <2>5. /\ currentProcess' = next /\ cr3' = context[next] /\ pc' = "user"
        /\ rootProcess' = IF parent[next] = NULL THEN next ELSE rootProcess
        /\ state' = [p \in Procs |-> IF p = next THEN "RUNNING"
                                     ELSE IF p = currentProcess THEN "IDLE"
                                     ELSE state[p]]
    BY DEF next
  <2>6. TypeOK'
    <3>1. state' \in [Procs -> {"INVALID", "IDLE", "RUNNING"}]
      BY <2>5 DEF IInv, TypeOK
    <3>. QED  BY <2>2, <2>3, <2>5, <3>1 DEF IInv, TypeOK, Routines
  <2>7. TableOK' /\ HierarchyOK' /\ AddressSpacesOK'
    BY <2>2, <2>4, <2>5, SameProcesses
  <2>8. rootProcess' # NULL  BY <2>2, <2>3, <2>5 DEF IInv, ControlOK
  <2>9. ControlOK'  BY <2>1, <2>2, <2>3, <2>5, <2>8 DEF IInv, ControlOK, Killing
  <2>. QED  BY <2>6, <2>7, <2>9 DEF IInv
<1>4. CASE YieldQueueFull
  <2> USE <1>4 DEF YieldQueueFull
  <2>1. live' = live  BY DEF live
  <2>2. schedulerQueue \in Seq(Procs) /\ NoRepeats(schedulerQueue)
    BY DEF IInv, TypeOK, TableOK
  <2>3. schedulerQueue' \in Seq(Procs) /\ NoRepeats(schedulerQueue')
        /\ Items(schedulerQueue') \subseteq Items(schedulerQueue)
    BY <2>2, TailItems
  <2>4. TypeOK'  BY <2>3 DEF IInv, TypeOK, Routines, Panics
  <2>5. TableOK' /\ HierarchyOK' /\ AddressSpacesOK'
    <3>1. cr3' \in spaces  BY DEF IInv, AddressSpacesOK
    <3>2. currentProcess # NULL => currentProcess \in live /\ cr3 = context[currentProcess]
      BY DEF IInv, ControlOK
    <3>. QED  BY <2>3, <3>1, <3>2, SameProcesses
  <2>6. ControlOK'  BY <2>1 DEF IInv, ControlOK, Killing
  <2>. QED  BY <2>4, <2>5, <2>6 DEF IInv
<1>5. CASE YieldQueueEmpty
  BY <1>5, PanicKeeps DEF YieldQueueEmpty, Panics
<1>. QED  BY <1>1, <1>2, <1>3, <1>4, <1>5 DEF Yield

\* Events come and go in the queue of a process of the scheduler queue.
LEMMA EventsKeep ==
  ASSUME IInv, keventmanager_invoke \/ ksys_processPopEvent
  PROVE  IInv'
<1> USE DEF keventmanager_invoke, ksys_processPopEvent, tableVars, spaceVars, killVars, ghostVars
<1>1. live' = live  BY DEF live
<1>2. currentProcess \in Procs  BY DEF IInv, AddressSpacesOK, live
<1>3. events' \in [Procs -> Seq(Event)]
  <2>1. schedulerQueue \in Seq(Procs) /\ events \in [Procs -> Seq(Event)]
    BY DEF IInv, TypeOK
  <2>2. CurrentEntry \in Procs  BY <2>1, FoundType DEF CurrentEntry
  <2>3. CASE keventmanager_invoke
    BY <1>2, <2>1, <2>2, <2>3, PushedType DEF Codes
  <2>4. CASE ksys_processPopEvent
    <3>1. events[CurrentEntry] \in Seq(Event) /\ events[CurrentEntry] # <<>>
      BY <2>1, <2>2, <2>4
    <3>2. Tail(events[CurrentEntry]) \in Seq(Event)  BY <3>1
    <3>. QED  BY <2>1, <2>2, <2>4, <3>2
  <2>. QED  BY <2>3, <2>4
<1>4. TypeOK'  BY <1>3 DEF IInv, TypeOK
<1>5. TableOK' /\ HierarchyOK' /\ AddressSpacesOK'
  <2>1. /\ NoRepeats(schedulerQueue') /\ Items(schedulerQueue') = Items(schedulerQueue)
        /\ cr3' \in spaces
        /\ currentProcess' \in live /\ cr3' = context[currentProcess']
    BY DEF IInv, TableOK, AddressSpacesOK
  <2>. QED  BY <2>1, SameProcesses
<1>6. ControlOK'  BY <1>1 DEF IInv, ControlOK, Killing
<1>. QED  BY <1>4, <1>5, <1>6 DEF IInv

-----------------------------------------------------------------------------
(* kprocess_create *)

\* Who calls kprocess_create: the kernel before any process exists, or a process
\* that is alive and runs in the address space of the parent-to-be.
LEMMA Caller ==
  ASSUME IInv, NEW p \in Procs, NEW isThread \in BOOLEAN, CreateCall(p, isThread)
  PROVE  /\ p \notin live /\ p \notin leaked
         /\ processCount < MAX_PROCESS_COUNT
         /\ pc \in {"boot", "user"}
         /\ \A q \in live : ~Undoing(q)
         /\ pc = "boot" => live = {} /\ currentProcess = NULL /\ ~isThread
         /\ pc = "user" => /\ currentProcess \in live /\ currentProcess # NULL
                           /\ NewParent = Owner(currentProcess)
                           /\ NewParent \in live /\ NewParent # NULL /\ ~thread[NewParent]
                           /\ kprocess_getCurrentContext = NewParent
<1> USE DEF CreateCall, CreateAllowed
<1>1. p \notin live /\ p \notin leaked  BY DEF live
<1>2. processCount < MAX_PROCESS_COUNT
  BY MaxAssumption DEF IInv, TypeOK
<1>3. \A q \in live : ~Undoing(q)  BY DEF Undoing, Panics
<1>4. ASSUME pc = "boot" PROVE live = {} /\ currentProcess = NULL /\ ~isThread
  <2>1. processCount = 0 /\ currentProcess = NULL  BY <1>4 DEF IInv, ControlOK
  <2>2. live \cup leaked \in SUBSET Procs  BY DEF IInv, TypeOK, live
  <2>3. Cardinality(live \cup leaked) = 0  BY <2>1 DEF IInv, TableOK
  <2>4. IsFiniteSet(live \cup leaked)  BY <2>2, FS_Subset, ProcsAssumption
  <2>5. live \cup leaked = {}  BY <2>3, <2>4, FS_EmptySet
  <2>. QED  BY <2>1, <2>5
<1>5. ASSUME pc = "user"
      PROVE  /\ currentProcess \in live /\ currentProcess # NULL
             /\ NewParent = Owner(currentProcess)
             /\ NewParent \in live /\ NewParent # NULL /\ ~thread[NewParent]
             /\ kprocess_getCurrentContext = NewParent
  <2>1. currentProcess \in live /\ currentProcess # NULL
    BY <1>5, ProcsAssumption DEF IInv, AddressSpacesOK, live
  <2>2. CASE thread[currentProcess]
    BY <1>3, <2>1, <2>2 DEF IInv, HierarchyOK, ParentLinks, AddressSpacesOK, NewParent,
                            Owner, kprocess_getCurrentContext
  <2>3. CASE ~thread[currentProcess]
    BY <2>1, <2>3 DEF IInv, AddressSpacesOK, NewParent, Owner, kprocess_getCurrentContext
  <2>. QED  BY <2>1, <2>2, <2>3 DEF NewParent
<1>. QED  BY <1>1, <1>2, <1>3, <1>4, <1>5

\* The new KProcessInfo is counted.
LEMMA NewCounted ==
  ASSUME IInv, NEW p \in Procs, NEW isThread \in BOOLEAN, NEW st, NEW par,
         CreateCall(p, isThread), NewInfo(p, isThread, st, par), UNCHANGED leaked
  PROVE  /\ live' = live \cup {p}
         /\ processCount' = Cardinality((live \cup leaked)')
         /\ live' \cap leaked' = {}
         /\ processCount' \in 1..MAX_PROCESS_COUNT
<1>1. /\ p \notin live /\ p \notin leaked /\ processCount < MAX_PROCESS_COUNT
      /\ processCount \in Nat
  BY Caller DEF IInv, TypeOK
<1>2. live' = live \cup {p}
  BY <1>1 DEF NewInfo, live, IInv, TypeOK
<1>3. live \cup leaked \in SUBSET Procs  BY DEF IInv, TypeOK, live
<1>4. Cardinality((live \cup leaked) \cup {p}) = Cardinality(live \cup leaked) + 1
  BY <1>1, <1>3, Counting
<1>5. (live \cup leaked)' = (live \cup leaked) \cup {p}  BY <1>2
<1>6. processCount' = Cardinality((live \cup leaked)')
  BY <1>4, <1>5 DEF IInv, TableOK, NewInfo
<1>7. live' \cap leaked' = {}  BY <1>1, <1>2 DEF IInv, TableOK
<1>. QED  BY <1>1, <1>2, <1>6, <1>7, MaxAssumption DEF NewInfo

\* The fields of the new KProcessInfo have their types.
LEMMA NewType ==
  ASSUME IInv, NEW p \in Procs, NEW isThread \in BOOLEAN,
         NEW st \in {"INVALID", "IDLE", "RUNNING"}, NEW par \in Procs \cup {NULL},
         CreateCall(p, isThread), NewInfo(p, isThread, st, par), UNCHANGED leaked
  PROVE  /\ pid' \in [Procs -> 0..MAX_PROCESS_COUNT]
         /\ thread' \in [Procs -> BOOLEAN]
         /\ state' \in [Procs -> {"INVALID", "IDLE", "RUNNING"}]
         /\ parent' \in [Procs -> Procs \cup {NULL}]
         /\ context' \in [Procs -> Procs \cup {KERNEL}]
         /\ processCount' \in 0..MAX_PROCESS_COUNT
         /\ spaces' \in SUBSET (Procs \cup {KERNEL})
<1>1. processCount' \in 1..MAX_PROCESS_COUNT /\ processCount' = processCount + 1
  BY NewCounted DEF NewInfo
<1>2. processCount + 1 \in 0..MAX_PROCESS_COUNT /\ processCount' \in 0..MAX_PROCESS_COUNT
  BY <1>1, MaxAssumption
<1>3. kprocess_getCurrentContext \in Procs \cup {KERNEL}
  BY DEF kprocess_getCurrentContext, IInv, TypeOK
<1>. QED  BY <1>2, <1>3 DEF NewInfo, IInv, TypeOK

\* The new process gets a parent that is alive, or is the first process.
LEMMA Linked ==
  ASSUME IInv, NEW p \in Procs, NEW isThread \in BOOLEAN, NEW st,
         CreateCall(p, isThread), NewInfo(p, isThread, st, NewParent), LinkToCurrent(p),
         UNCHANGED <<rootProcess, leaked>>
  PROVE  /\ children' \in [Procs -> Seq(Procs)]
         /\ HierarchyOK'
         /\ children'[p] = <<>>
<1> DEFINE o == NewParent
<1>1. /\ p \notin live /\ \A q \in live : ~Undoing(q)
      /\ pc = "boot" => live = {} /\ currentProcess = NULL /\ ~isThread
      /\ pc = "user" => /\ currentProcess # NULL /\ o = Owner(currentProcess)
                        /\ o \in live /\ o # NULL /\ ~thread[o]
  BY Caller
<1>2. pc \in {"boot", "user"}  BY Caller
<1>3. live' = live \cup {p}  BY NewCounted
<1>4. /\ children[p] = <<>> /\ \A q \in live : parent[q] # p
      /\ \A q \in Procs : p \notin Items(children[q])
  <2>1. pid[p] = 0  BY DEF CreateCall
  <2>. QED  BY <2>1, Fresh
<1>5. /\ children \in [Procs -> Seq(Procs)]
      /\ thread' = [thread EXCEPT ![p] = isThread] /\ thread \in [Procs -> BOOLEAN]
      /\ parent' = [parent EXCEPT ![p] = o] /\ parent \in [Procs -> Procs \cup {NULL}]
  BY DEF NewInfo, IInv, TypeOK
<1>6. CASE pc = "boot"
  <2>1. live' = {p} /\ parent'[p] = NULL /\ ~thread'[p] /\ children' = children
    BY <1>1, <1>3, <1>5, <1>6 DEF NewParent, LinkToCurrent
  <2>2. rootProcess = NULL  BY <1>1, <1>6 DEF IInv, HierarchyOK, OneRoot
  <2>3. \A q \in Procs : Items(children[q]) = {}
    BY <1>1, <1>6 DEF IInv, HierarchyOK, ChildLinks
  <2>4. OneRoot'  BY <2>1, <2>2 DEF OneRoot
  <2>5. ParentLinks'  BY <2>1 DEF ParentLinks
  <2>6. ChildLinks'  BY <2>1, <2>3 DEF ChildLinks, IInv, HierarchyOK
  <2>. QED  BY <1>4, <1>5, <2>1, <2>4, <2>5, <2>6 DEF HierarchyOK
<1>7. CASE pc = "user"
  <2>1. o \in live /\ o # NULL /\ ~thread[o] /\ o \in Procs /\ o # p
    BY <1>1, <1>7 DEF live
  <2>2. children' = [children EXCEPT ![o] = Append(@, p)]
    BY <1>1, <1>7 DEF LinkToCurrent
  <2> HIDE DEF o
  <2>3. children[o] \in Seq(Procs) /\ NoRepeats(children[o]) /\ p \notin Items(children[o])
    BY <1>4, <1>5, <2>1 DEF IInv, HierarchyOK, ChildLinks
  <2>4. /\ Append(children[o], p) \in Seq(Procs)
        /\ Items(Append(children[o], p)) = Items(children[o]) \cup {p}
        /\ NoRepeats(Append(children[o], p))
    BY <2>3, AppendItems
  <2>5. /\ children' \in [Procs -> Seq(Procs)]
        /\ children'[o] = Append(children[o], p)
        /\ \A q \in Procs \ {o} : children'[q] = children[q]
    BY <1>5, <2>1, <2>2, <2>4
  <2>6. OneRoot'
    BY <1>3, <1>5, <2>1, <1>1 DEF OneRoot, IInv, HierarchyOK, live
  <2>7. ParentLinks'
    <3> SUFFICES ASSUME NEW q \in live'
                 PROVE  /\ thread'[q] => parent'[q] # NULL /\ children'[q] = <<>>
                        /\ parent'[q] # NULL =>
                              /\ parent'[q] \in live' \ {q}
                              /\ ~thread'[parent'[q]] /\ q \in Items(children'[parent'[q]])
      BY DEF ParentLinks
    <3>1. CASE q = p
      BY <3>1, <1>3, <1>4, <1>5, <2>1, <2>4, <2>5
    <3>2. CASE q # p
      <4>1. q \in live /\ q \in Procs  BY <3>2, <1>3 DEF live
      <4>2. parent'[q] = parent[q] /\ thread'[q] = thread[q]  BY <3>2, <4>1, <1>5
      <4>3. /\ thread[q] => parent[q] # NULL /\ children[q] = <<>>
            /\ parent[q] # NULL =>
                  /\ parent[q] \in live \ {q}
                  /\ ~thread[parent[q]] /\ q \in Items(children[parent[q]])
        BY <4>1, <1>1 DEF IInv, HierarchyOK, ParentLinks
      <4>4. thread[q] => children'[q] = <<>>  BY <4>1, <4>3, <2>1, <2>5
      <4>5. parent[q] # NULL =>
              /\ parent[q] \in Procs /\ parent[q] # p
              /\ thread'[parent[q]] = thread[parent[q]]
              /\ Items(children[parent[q]]) \subseteq Items(children'[parent[q]])
        BY <4>3, <1>1, <1>5, <2>4, <2>5 DEF live
      <4>. QED  BY <4>2, <4>3, <4>4, <4>5, <1>3
    <3>. QED  BY <3>1, <3>2
  <2>8. ChildLinks'
    <3> SUFFICES ASSUME NEW q \in Procs
                 PROVE  /\ NoRepeats(children'[q])
                        /\ \A c \in Items(children'[q]) : c \in live' /\ parent'[c] = q
      BY DEF ChildLinks
    <3>1. /\ NoRepeats(children[q])
          /\ \A c \in Items(children[q]) : c \in live /\ c \in Procs /\ c # p /\ parent[c] = q
      BY <1>1, <1>4 DEF IInv, HierarchyOK, ChildLinks, live
    <3>2. CASE q = o
      BY <3>1, <3>2, <1>3, <1>5, <2>1, <2>4, <2>5
    <3>3. CASE q # o
      BY <3>1, <3>3, <1>3, <1>5, <2>5
    <3>. QED  BY <3>2, <3>3
  <2>. QED  BY <1>4, <2>1, <2>5, <2>6, <2>7, <2>8 DEF HierarchyOK
<1>. QED  BY <1>2, <1>6, <1>7

\* A new process runs in its own address space, a new thread in its owner's.
LEMMA NewSpace ==
  ASSUME IInv, NEW p \in Procs, NEW isThread \in BOOLEAN, NEW st, NEW par,
         CreateCall(p, isThread), NewInfo(p, isThread, st, par), UNCHANGED <<leaked, cr3>>
  PROVE  /\ \A q \in live' : /\ context'[q] \in spaces' \ {KERNEL}
                             /\ ~thread'[q] => context'[q] = q
                             /\ q # p /\ thread'[q] => context'[q] = parent'[q]
         /\ isThread => context'[p] = NewParent
         /\ spaces' \ {KERNEL} \subseteq {q \in live' : ~thread'[q]} \cup leaked'
         /\ cr3' \in spaces'
         /\ pc = "user" => /\ currentProcess \in live' /\ currentProcess # p
                           /\ cr3' = context'[currentProcess]
<1>1. /\ p \notin live /\ \A q \in live : ~Undoing(q)
      /\ pc \in {"boot", "user"} /\ (pc = "boot" => ~isThread)
      /\ pc = "user" => /\ currentProcess \in live /\ NewParent \in live /\ ~thread[NewParent]
                        /\ kprocess_getCurrentContext = NewParent
  BY Caller
<1>2. live' = live \cup {p}  BY NewCounted
<1>3. /\ thread' = [thread EXCEPT ![p] = isThread] /\ thread \in [Procs -> BOOLEAN]
      /\ parent' = [parent EXCEPT ![p] = par] /\ parent \in [Procs -> Procs \cup {NULL}]
      /\ context' = [context EXCEPT ![p] = IF isThread THEN kprocess_getCurrentContext ELSE p]
      /\ context \in [Procs -> Procs \cup {KERNEL}]
      /\ spaces' = IF isThread THEN spaces ELSE spaces \cup {p}
  BY DEF NewInfo, IInv, TypeOK
<1>4. isThread => /\ context'[p] = NewParent
                  /\ NewParent \in spaces \ {KERNEL}
  BY <1>1, <1>3 DEF IInv, AddressSpacesOK
<1>5. \A q \in live : /\ q \in Procs /\ q # p
                      /\ context'[q] = context[q] /\ thread'[q] = thread[q]
                      /\ parent'[q] = parent[q]
  BY <1>1, <1>3 DEF live
<1>6. \A q \in live' : /\ context'[q] \in spaces' \ {KERNEL}
                       /\ ~thread'[q] => context'[q] = q
                       /\ q # p /\ thread'[q] => context'[q] = parent'[q]
  <2> SUFFICES ASSUME NEW q \in live'
               PROVE  /\ context'[q] \in spaces' \ {KERNEL}
                      /\ ~thread'[q] => context'[q] = q
                      /\ q # p /\ thread'[q] => context'[q] = parent'[q]
    OBVIOUS
  <2>1. CASE q = p  BY <2>1, <1>3, <1>4, ProcsAssumption
  <2>2. CASE q # p
    <3>1. q \in live  BY <2>2, <1>2
    <3>. QED  BY <3>1, <1>1, <1>3, <1>5 DEF IInv, AddressSpacesOK
  <2>. QED  BY <2>1, <2>2
<1>7. spaces' \ {KERNEL} \subseteq {q \in live' : ~thread'[q]} \cup leaked'
  BY <1>2, <1>3, <1>5 DEF IInv, AddressSpacesOK
<1>8. cr3' \in spaces'  BY <1>3 DEF IInv, AddressSpacesOK
<1>9. pc = "user" => /\ currentProcess \in live' /\ currentProcess # p
                     /\ cr3' = context'[currentProcess]
  BY <1>1, <1>2, <1>5 DEF IInv, AddressSpacesOK
<1>. QED  BY <1>4, <1>6, <1>7, <1>8, <1>9

\* A successful creation keeps the invariant.
LEMMA CreateKeeps ==
  ASSUME IInv, NEW p \in Procs, NEW isThread \in BOOLEAN, kprocess_create(p, isThread)
  PROVE  IInv'
<1> USE DEF kprocess_create, killVars, ghostVars
<1>0. NewParent \in Procs \cup {NULL}
  BY DEF NewParent, Owner, IInv, TypeOK
<1>1. live' = live \cup {p} /\ processCount' = Cardinality((live \cup leaked)')
      /\ live' \cap leaked' = {} /\ processCount' \in 1..MAX_PROCESS_COUNT
  BY NewCounted
<1>2. children' \in [Procs -> Seq(Procs)] /\ HierarchyOK'  BY Linked
<1>3. /\ pc \in {"boot", "user"} /\ (pc = "boot" => live = {} /\ currentProcess = NULL)
  BY Caller
<1>4. p \notin Items(schedulerQueue)
  <2>1. pid[p] = 0  BY DEF CreateCall
  <2>. QED  BY <2>1, Fresh
<1>5. /\ schedulerQueue' \in Seq(Procs) /\ NoRepeats(schedulerQueue')
      /\ Items(schedulerQueue') = Items(schedulerQueue) \cup {p}
  <2>1. schedulerQueue \in Seq(Procs) /\ NoRepeats(schedulerQueue)
    BY DEF IInv, TypeOK, TableOK
  <2>. QED  BY <1>4, <2>1, AppendItems
<1>6. TypeOK'
  <2>1. /\ pid' \in [Procs -> 0..MAX_PROCESS_COUNT]
        /\ thread' \in [Procs -> BOOLEAN]
        /\ state' \in [Procs -> {"INVALID", "IDLE", "RUNNING"}]
        /\ parent' \in [Procs -> Procs \cup {NULL}]
        /\ context' \in [Procs -> Procs \cup {KERNEL}]
        /\ processCount' \in 0..MAX_PROCESS_COUNT
        /\ spaces' \in SUBSET (Procs \cup {KERNEL})
    BY <1>0, NewType
  <2>. QED  BY <2>1, <1>2, <1>3, <1>5 DEF TypeOK, IInv, Routines
<1>7. TableOK'  BY <1>1, <1>5 DEF TableOK, IInv
<1>8. AddressSpacesOK'
  <2>1. isThread => parent'[p] = NewParent
    BY DEF NewInfo, IInv, TypeOK
  <2>2. pc' = "user" => pc = "user"  BY <1>3
  <2>3. /\ \A q \in live' : /\ context'[q] \in spaces' \ {KERNEL}
                            /\ ~thread'[q] => context'[q] = q
                            /\ q # p /\ thread'[q] => context'[q] = parent'[q]
        /\ isThread => context'[p] = NewParent
        /\ spaces' \ {KERNEL} \subseteq {q \in live' : ~thread'[q]} \cup leaked'
        /\ cr3' \in spaces'
        /\ pc = "user" => currentProcess \in live' /\ cr3' = context'[currentProcess]
    BY NewSpace
  <2>4. thread'[p] = isThread  BY DEF NewInfo, IInv, TypeOK
  <2>. QED  BY <2>1, <2>2, <2>3, <2>4 DEF AddressSpacesOK
<1>9. ControlOK'
  <2>1. KERNEL \in spaces'  BY DEF NewInfo, IInv, ControlOK
  <2>2. pc = "user" => currentProcess \in live' /\ cr3' = context'[currentProcess]
                       /\ currentProcess # NULL
    BY NewSpace, Caller
  <2>3. pc = "boot" => pc' = "yield" /\ currentProcess' = NULL
                       /\ \A q \in live' : parent'[q] = NULL
    <3>1. pc = "boot" => live' = {p} /\ NewParent = NULL  BY <1>1, <1>3 DEF NewParent
    <3>. QED  BY <3>1, <1>3 DEF NewInfo, IInv, TypeOK
  <2>. QED  BY <1>3, <2>1, <2>2, <2>3 DEF ControlOK, Killing, IInv
<1>. QED  BY <1>2, <1>6, <1>7, <1>8, <1>9 DEF IInv

\* So does one that the full scheduler queue refuses, up to the undo.
LEMMA QueueFullKeeps ==
  ASSUME IInv, NEW p \in Procs, NEW isThread \in BOOLEAN, CreateQueueFull(p, isThread)
  PROVE  IInv'
<1> USE DEF CreateQueueFull, ghostVars
<1>0. NewParent \in Procs \cup {NULL}
  BY DEF NewParent, Owner, IInv, TypeOK
<1>1. live' = live \cup {p} /\ processCount' = Cardinality((live \cup leaked)')
      /\ live' \cap leaked' = {}
  BY NewCounted
<1>2. children' \in [Procs -> Seq(Procs)] /\ HierarchyOK' /\ children'[p] = <<>>  BY Linked
<1>3. pc = "user"
  <2>1. pc \in {"boot", "user"}  BY Caller
  <2>2. pc = "boot" => processCount = 0  BY DEF IInv, ControlOK
  <2>. QED  BY <2>1, <2>2, MaxAssumption
<1>4. TypeOK'
  <2>1. /\ pid' \in [Procs -> 0..MAX_PROCESS_COUNT]
        /\ thread' \in [Procs -> BOOLEAN]
        /\ state' \in [Procs -> {"INVALID", "IDLE", "RUNNING"}]
        /\ parent' \in [Procs -> Procs \cup {NULL}]
        /\ context' \in [Procs -> Procs \cup {KERNEL}]
        /\ processCount' \in 0..MAX_PROCESS_COUNT
        /\ spaces' \in SUBSET (Procs \cup {KERNEL})
    BY <1>0, NewType
  <2>. QED  BY <2>1, <1>2 DEF TypeOK, IInv, Routines, Codes
<1>5. TableOK'  BY <1>1 DEF TableOK, IInv
<1>6. AddressSpacesOK'  BY <1>3, NewSpace DEF AddressSpacesOK, Undoing
<1>7. ControlOK'
  <2>1. KERNEL \in spaces'  BY DEF NewInfo, IInv, ControlOK
  <2>2. /\ currentProcess \in live' /\ cr3' = context'[currentProcess]
        /\ currentProcess # NULL /\ currentProcess # p
        /\ NewParent # NULL
    BY <1>3, NewSpace, Caller
  <2>3. parent'[p] # NULL  BY <2>2 DEF NewInfo, IInv, TypeOK
  <2>. QED  BY <1>1, <1>2, <2>1, <2>2, <2>3 DEF ControlOK, Killing, IInv
<1>. QED  BY <1>2, <1>4, <1>5, <1>6, <1>7 DEF IInv

\* So does one that fails with a live process where its parent should be.
LEMMA StaleKeeps ==
  ASSUME IInv, NEW p \in Procs, NEW isThread \in BOOLEAN, NEW par \in Procs,
         CreateParentStale(p, isThread, par)
  PROVE  IInv'
<1> USE DEF CreateParentStale, ghostVars
<1>1. live' = live \cup {p} /\ processCount' = Cardinality((live \cup leaked)')
      /\ live' \cap leaked' = {}
  BY NewCounted
<1>2. /\ p \notin live /\ \A q \in live : ~Undoing(q)
      /\ pc = "user"
      /\ currentProcess # NULL
  BY Caller
<1>3. pid[p] = 0  BY DEF CreateCall
<1>4. /\ children[p] = <<>> /\ \A q \in live : parent[q] # p
  BY <1>3, Fresh
<1>5. TypeOK'
  <2>1. /\ pid' \in [Procs -> 0..MAX_PROCESS_COUNT]
        /\ thread' \in [Procs -> BOOLEAN]
        /\ state' \in [Procs -> {"INVALID", "IDLE", "RUNNING"}]
        /\ parent' \in [Procs -> Procs \cup {NULL}]
        /\ context' \in [Procs -> Procs \cup {KERNEL}]
        /\ processCount' \in 0..MAX_PROCESS_COUNT
        /\ spaces' \in SUBSET (Procs \cup {KERNEL})
    BY NewType
  <2>. QED  BY <2>1 DEF TypeOK, IInv, Routines, Codes
<1>6. TableOK'  BY <1>1 DEF TableOK, IInv
<1>7. /\ parent'[p] = par /\ par # NULL /\ par # p /\ Undoing(p)'
      /\ \A q \in live : parent'[q] = parent[q] /\ thread'[q] = thread[q] /\ q # p
  BY <1>2, ProcsAssumption DEF NewInfo, IInv, TypeOK, Undoing, live
<1>8. HierarchyOK'
  <2>1. OneRoot'  BY <1>1, <1>7 DEF OneRoot, IInv, HierarchyOK
  <2>2. ParentLinks'
    <3> SUFFICES ASSUME NEW q \in live'
                 PROVE  /\ thread'[q] => parent'[q] # NULL /\ children'[q] = <<>>
                        /\ parent'[q] # NULL =>
                              /\ parent'[q] \in live' \ {q}
                              /\ \/ Undoing(q)'
                                 \/ ~thread'[parent'[q]] /\ q \in Items(children'[parent'[q]])
      BY DEF ParentLinks
    <3>1. CASE q = p  BY <3>1, <1>1, <1>4, <1>7
    <3>2. CASE q # p
      <4>1. q \in live  BY <3>2, <1>1
      <4>. QED  BY <4>1, <1>1, <1>2, <1>7 DEF IInv, HierarchyOK, ParentLinks
    <3>. QED  BY <3>1, <3>2
  <2>3. ChildLinks'  BY <1>1, <1>7 DEF ChildLinks, IInv, HierarchyOK
  <2>. QED  BY <2>1, <2>2, <2>3 DEF HierarchyOK
<1>9. AddressSpacesOK'  BY <1>7, NewSpace DEF AddressSpacesOK, Undoing
<1>10. ControlOK'
  <2>1. KERNEL \in spaces'  BY DEF NewInfo, IInv, ControlOK
  <2>2. /\ currentProcess \in live' /\ cr3' = context'[currentProcess]
        /\ currentProcess # p
    BY <1>2, NewSpace
  <2>. QED  BY <1>1, <1>2, <1>4, <1>7, <2>1, <2>2 DEF ControlOK, Killing, IInv
<1>. QED  BY <1>5, <1>6, <1>8, <1>9, <1>10 DEF IInv

\* A creation that fails with no parent loses the KProcessInfo and its count.
LEMMA ParentNullKeeps ==
  ASSUME IInv, NEW p \in Procs, NEW isThread \in BOOLEAN, CreateParentNull(p, isThread)
  PROVE  IInv'
<1> USE DEF CreateParentNull, infoVars, killVars
<1>1. live' = live  BY DEF live
<1>2. /\ p \notin live /\ p \notin leaked /\ \A q \in live : ~Undoing(q)
      /\ processCount < MAX_PROCESS_COUNT /\ pc \in {"boot", "user"}
  BY Caller
<1>3. spaces \subseteq spaces' /\ spaces' \subseteq spaces \cup {p}  OBVIOUS
<1>4. TypeOK'
  <2>1. processCount' \in 0..MAX_PROCESS_COUNT
    <3>1. processCount' = processCount + 1  BY Zenon
    <3> HIDE DEF CreateParentNull
    <3>2. processCount \in Nat  BY DEF TypeOK, IInv
    <3>. QED  BY <1>2, <3>1, <3>2, MaxAssumption
  <2>2. pc' \in Routines \cup Panics  BY <1>2 DEF Routines, Panics
  <2>3. spaces' \in SUBSET (Procs \cup {KERNEL}) /\ leaked' \in SUBSET Procs
    BY <1>3 DEF TypeOK, IInv
  <2>. QED  BY <2>1, <2>2, <2>3 DEF TypeOK, IInv
<1>5. TableOK'
  <2>1. live \cup leaked \in SUBSET Procs  BY DEF IInv, TypeOK, live
  <2>2. Cardinality((live \cup leaked) \cup {p}) = Cardinality(live \cup leaked) + 1
    BY <1>2, <2>1, Counting
  <2>3. (live \cup leaked)' = (live \cup leaked) \cup {p}  BY <1>1
  <2>4. processCount' = Cardinality((live \cup leaked)')
    BY <2>2, <2>3 DEF IInv, TableOK
  <2>. QED  BY <1>1, <1>2, <2>4 DEF TableOK, IInv
<1>6. HierarchyOK'
  BY <1>1, <1>2 DEF IInv, HierarchyOK, OneRoot, ParentLinks, ChildLinks
<1>7. AddressSpacesOK'
  BY <1>1, <1>2, <1>3 DEF IInv, AddressSpacesOK
<1>8. ControlOK'  BY <1>1, <1>2, <1>3 DEF IInv, ControlOK, Killing
<1>. QED  BY <1>4, <1>5, <1>6, <1>7, <1>8 DEF IInv

-----------------------------------------------------------------------------
(* kprocess_kill_process *)

\* To free a process without children leaves the table and hierarchy in order.
LEMMA ReapKeeps ==
  ASSUME IInv, NEW p \in live, NEW code \in Codes,
         parent[p] # NULL, children[p] = <<>>, \A q \in live : parent[q] # p,
         ParentEntry(p) # NULL, Reap(p, code), UNCHANGED <<rootProcess, leaked>>,
         \A q \in live \ {p} : Undoing(q) => Undoing(q)'
  PROVE  /\ live' = live \ {p}
         /\ pid' \in [Procs -> 0..MAX_PROCESS_COUNT]
         /\ thread' \in [Procs -> BOOLEAN]
         /\ state' \in [Procs -> {"INVALID", "IDLE", "RUNNING"}]
         /\ parent' \in [Procs -> Procs \cup {NULL}]
         /\ children' \in [Procs -> Seq(Procs)]
         /\ events' \in [Procs -> Seq(Event)]
         /\ context' \in [Procs -> Procs \cup {KERNEL}]
         /\ processCount' \in 0..MAX_PROCESS_COUNT
         /\ schedulerQueue' \in Seq(Procs)
         /\ someDied' \in BOOLEAN
         /\ TableOK' /\ HierarchyOK'
         /\ \A q \in live' : thread'[q] = thread[q] /\ context'[q] = context[q]
                            /\ parent'[q] = parent[q]
         /\ \A q \in live' : q # parent[p] => children'[q] = children[q]
<1> DEFINE par == parent[p]
<1>1. p \in Procs /\ par \in Procs /\ par # p /\ par \in live
  BY DEF IInv, TypeOK, live, HierarchyOK, ParentLinks
<1>2. /\ pid' = [pid EXCEPT ![p] = 0] /\ pid \in [Procs -> 0..MAX_PROCESS_COUNT]
      /\ thread' = [thread EXCEPT ![p] = FALSE] /\ thread \in [Procs -> BOOLEAN]
      /\ state' = [state EXCEPT ![p] = "INVALID"]
      /\ state \in [Procs -> {"INVALID", "IDLE", "RUNNING"}]
      /\ parent' = [parent EXCEPT ![p] = NULL] /\ parent \in [Procs -> Procs \cup {NULL}]
      /\ context' = [context EXCEPT ![p] = KERNEL]
      /\ context \in [Procs -> Procs \cup {KERNEL}]
      /\ processCount' = processCount - 1
      /\ schedulerQueue' = list_remove(schedulerQueue, p)
      /\ schedulerQueue \in Seq(Procs)
      /\ children \in [Procs -> Seq(Procs)] /\ events \in [Procs -> Seq(Event)]
  BY DEF Reap, IInv, TypeOK
<1>3. live' = live \ {p}  BY <1>1, <1>2 DEF live
<1>4. \A q \in live' : /\ thread'[q] = thread[q] /\ context'[q] = context[q]
                       /\ parent'[q] = parent[q] /\ q \in Procs /\ q # p /\ q \in live
  BY <1>1, <1>2, <1>3 DEF live
<1>5. /\ schedulerQueue' \in Seq(Procs)
      /\ Items(schedulerQueue') = Items(schedulerQueue) \ {p}
      /\ NoRepeats(schedulerQueue')
  <2>1. NoRepeats(schedulerQueue)  BY DEF IInv, TableOK
  <2>. QED  BY <1>2, <2>1, RemoveType, RemoveItems
<1>6. events' \in [Procs -> Seq(Event)]
  <2>1. ParentEntry(p) \in Procs
    BY <1>2, <1>5, FoundType DEF ParentEntry
  <2>2. [events EXCEPT ![p] = <<>>] \in [Procs -> Seq(Event)]  BY <1>1, <1>2
  <2>3. events' = Pushed([events EXCEPT ![p] = <<>>], ParentEntry(p), CHILD_KILLED, code, par)
    BY DEF Reap
  <2> HIDE DEF par
  <2>. QED  BY <1>1, <2>1, <2>2, <2>3, PushedType
<1>7. /\ list_remove(children[par], p) \in Seq(Procs)
      /\ Items(list_remove(children[par], p)) = Items(children[par]) \ {p}
      /\ NoRepeats(list_remove(children[par], p))
  <2>1. children[par] \in Seq(Procs) /\ NoRepeats(children[par])
    BY <1>1, <1>2 DEF IInv, HierarchyOK, ChildLinks
  <2> HIDE DEF par
  <2>. QED  BY <2>1, RemoveType, RemoveItems
<1>8. /\ children' \in [Procs -> Seq(Procs)]
      /\ children'[p] = <<>> /\ children'[par] = list_remove(children[par], p)
      /\ \A q \in Procs \ {p, par} : children'[q] = children[q]
  <2>1. children' = [children EXCEPT ![p] = <<>>, ![par] = list_remove(@, p)]
    BY DEF Reap
  <2>2. <<>> \in Seq(Procs)  OBVIOUS
  <2> HIDE DEF par
  <2>3. children' = [q \in Procs |-> IF q = par THEN list_remove(children[par], p)
                                     ELSE IF q = p THEN <<>> ELSE children[q]]
    BY <1>1, <1>2, <2>1
  <2>. QED  BY <1>1, <1>2, <1>7, <2>2, <2>3
<1>9. TableOK' /\ processCount' \in 0..MAX_PROCESS_COUNT
  <2>1. live \cup leaked \in SUBSET Procs /\ p \notin leaked
    BY DEF IInv, TypeOK, live, TableOK
  <2>2. (live \cup leaked)' = (live \cup leaked) \ {p}  BY <1>3, <2>1
  <2>3. /\ Cardinality((live \cup leaked) \ {p}) = Cardinality(live \cup leaked) - 1
        /\ Cardinality((live \cup leaked) \ {p}) \in Nat
    <3>1. (live \cup leaked) \ {p} \in SUBSET Procs  BY <2>1
    <3>. QED  BY <1>1, <2>1, <3>1, Counting
  <2>4. processCount = Cardinality(live \cup leaked) /\ processCount \in 0..MAX_PROCESS_COUNT
    BY DEF IInv, TableOK, TypeOK
  <2>5. processCount' = Cardinality((live \cup leaked)')
    BY <1>2, <2>2, <2>3, <2>4
  <2>6. processCount' \in 0..MAX_PROCESS_COUNT
    BY <1>2, <2>3, <2>4, MaxAssumption
  <2>. QED  BY <1>3, <1>5, <2>5, <2>6 DEF TableOK, IInv
<1>10. OneRoot'  BY <1>3, <1>4 DEF OneRoot, IInv, HierarchyOK
<1> HIDE DEF par
<1>11. ParentLinks'
  <2> SUFFICES ASSUME NEW q \in live'
               PROVE  /\ thread'[q] => parent'[q] # NULL /\ children'[q] = <<>>
                      /\ parent'[q] # NULL =>
                            /\ parent'[q] \in live' \ {q}
                            /\ \/ Undoing(q)'
                               \/ ~thread'[parent'[q]] /\ q \in Items(children'[parent'[q]])
    BY DEF ParentLinks
  <2>1. /\ thread[q] => parent[q] # NULL /\ children[q] = <<>>
        /\ parent[q] # NULL =>
              /\ parent[q] \in live \ {q}
              /\ \/ Undoing(q)
                 \/ ~thread[parent[q]] /\ q \in Items(children[parent[q]])
    BY <1>4 DEF IInv, HierarchyOK, ParentLinks
  <2>2. parent[q] # p /\ q # p /\ q \in Procs /\ (Undoing(q) => Undoing(q)')
    BY <1>3, <1>4
  <2>3. thread[q] => children'[q] = <<>>
    <3>1. CASE q = par
      <4>1. thread[q] => p \notin Items(children[par])  BY <2>1, <3>1, EmptyItems
      <4>. QED  BY <4>1, <2>1, <3>1, <1>8 DEF list_remove
    <3>2. CASE q # par  BY <3>2, <2>1, <2>2, <1>8
    <3>. QED  BY <3>1, <3>2
  <2>4. parent[q] # NULL =>
          /\ parent[q] \in live'
          /\ thread'[parent[q]] = thread[parent[q]]
          /\ q \in Items(children[parent[q]]) => q \in Items(children'[parent[q]])
    <3> SUFFICES ASSUME parent[q] # NULL
                 PROVE  /\ parent[q] \in live'
                        /\ thread'[parent[q]] = thread[parent[q]]
                        /\ q \in Items(children[parent[q]]) => q \in Items(children'[parent[q]])
      OBVIOUS
    <3>1. parent[q] \in live'  BY <1>3, <2>1, <2>2
    <3>2. parent[q] \in Procs /\ parent[q] # p  BY <3>1, <1>4
    <3>3. CASE parent[q] = par  BY <3>1, <3>3, <1>4, <1>7, <1>8, <2>2
    <3>4. CASE parent[q] # par  BY <3>1, <3>2, <3>4, <1>4, <1>8
    <3>. QED  BY <3>3, <3>4, <3>1
  <2>. QED  BY <1>4, <2>1, <2>2, <2>3, <2>4
<1>12. ChildLinks'
  <2> SUFFICES ASSUME NEW q \in Procs
               PROVE  /\ NoRepeats(children'[q])
                      /\ \A c \in Items(children'[q]) : c \in live' /\ parent'[c] = q
    BY DEF ChildLinks
  <2>1. /\ NoRepeats(children[q])
        /\ \A c \in Items(children[q]) : c \in live /\ parent[c] = q
    BY DEF IInv, HierarchyOK, ChildLinks
  <2>2. CASE q = p  BY <2>2, <1>8, EmptyItems
  <2>3. CASE q = par  BY <2>1, <2>3, <1>3, <1>4, <1>7, <1>8
  <2>4. CASE q \notin {p, par}
    <3>1. p \notin Items(children[q])  BY <2>1, <2>4 DEF par
    <3>. QED  BY <2>1, <2>4, <3>1, <1>3, <1>4, <1>8
  <2>. QED  BY <2>2, <2>3, <2>4
<1>13. /\ pid' \in [Procs -> 0..MAX_PROCESS_COUNT]
       /\ thread' \in [Procs -> BOOLEAN]
       /\ state' \in [Procs -> {"INVALID", "IDLE", "RUNNING"}]
       /\ parent' \in [Procs -> Procs \cup {NULL}]
       /\ context' \in [Procs -> Procs \cup {KERNEL}]
  <2>1. 0 \in 0..MAX_PROCESS_COUNT  BY MaxAssumption
  <2>. QED  BY <1>2, <2>1
<1>14. someDied' \in BOOLEAN  BY DEF Reap, IInv, TypeOK
<1>15. \A q \in live' : q # par => children'[q] = children[q]  BY <1>4, <1>8
<1>. QED
  BY <1>3, <1>4, <1>5, <1>6, <1>8, <1>9, <1>10, <1>11, <1>12, <1>13, <1>14, <1>15
     DEF HierarchyOK, par

\* The process that kprocess_kill_process works on, and its first child.
LEMMA VictimFacts ==
  ASSUME IInv, Killing
  PROVE  /\ victim \in live /\ victim \in Procs /\ parent[victim] # NULL
         /\ ~thread[victim] => context[victim] = victim
         /\ thread[victim] => children[victim] = <<>>
         /\ pc \in {"exit", "undo"} /\ (pc = "undo" => children[victim] = <<>>)
         /\ children[victim] = <<>> => \A q \in live : parent[q] # victim
<1>1. victim \in live /\ victim \in Procs /\ parent[victim] # NULL /\ victim # NULL
  BY ProcsAssumption DEF IInv, ControlOK, live
<1>2. /\ ~thread[victim] => context[victim] = victim
      /\ thread[victim] => children[victim] = <<>>
  BY <1>1 DEF IInv, AddressSpacesOK, HierarchyOK, ParentLinks
<1>3. pc \in {"exit", "undo"} /\ (pc = "undo" => children[victim] = <<>>)
  BY DEF Killing, IInv, ControlOK
<1>4. ASSUME children[victim] = <<>>, NEW q \in live, parent[q] = victim PROVE FALSE
  <2>1. q # victim  BY <1>1, <1>4 DEF IInv, HierarchyOK, ParentLinks
  <2>2. ~Undoing(q)  BY <2>1 DEF Undoing
  <2>3. q \in Items(children[victim])
    BY <1>1, <1>4, <2>2 DEF IInv, HierarchyOK, ParentLinks
  <2>. QED  BY <1>4, <2>3, EmptyItems
<1>. QED  BY <1>1, <1>2, <1>3, <1>4

\* While a process has children its first child is alive, and no root or undone
\* creation is involved.
LEMMA ChildFacts ==
  ASSUME IInv, Killing, children[victim] # <<>>
  PROVE  LET c == Head(children[victim])
         IN  /\ c \in live /\ c \in Procs /\ parent[c] = victim /\ c # victim
             /\ pc = "exit" /\ ~thread[victim]
             /\ \A q \in live : ~Undoing(q)
             /\ Tail(children[victim]) \in Seq(Procs)
             /\ Items(Tail(children[victim])) = Items(children[victim]) \ {c}
             /\ NoRepeats(Tail(children[victim]))
             /\ rootProcess \in live /\ rootProcess \in Procs /\ parent[rootProcess] = NULL
             /\ ~thread[rootProcess] /\ rootProcess # victim /\ rootProcess # c
<1> DEFINE c == Head(children[victim])
<1>1. /\ victim \in live /\ victim \in Procs /\ parent[victim] # NULL
      /\ pc = "exit" /\ ~thread[victim]
  BY VictimFacts
<1>2. children[victim] \in Seq(Procs) /\ NoRepeats(children[victim])
  BY <1>1 DEF IInv, TypeOK, HierarchyOK, ChildLinks
<1>3. /\ Tail(children[victim]) \in Seq(Procs) /\ c \in Items(children[victim])
      /\ Items(Tail(children[victim])) = Items(children[victim]) \ {c}
      /\ NoRepeats(Tail(children[victim]))
  BY <1>2, TailItems
<1> HIDE DEF c
<1>4. c \in live /\ parent[c] = victim
  BY <1>1, <1>3 DEF IInv, HierarchyOK, ChildLinks
<1>5. c \in Procs /\ victim # NULL  BY <1>1, <1>4, ProcsAssumption DEF live
<1>6. c # victim  BY <1>1, <1>4, <1>5 DEF IInv, HierarchyOK, ParentLinks
<1>7. \A q \in live : ~Undoing(q)  BY <1>1 DEF Undoing, Panics
<1>8. rootProcess \in live /\ parent[rootProcess] = NULL
  BY <1>1 DEF IInv, ControlOK, HierarchyOK, OneRoot
<1>9. rootProcess \in Procs /\ ~thread[rootProcess] /\ rootProcess # victim /\ rootProcess # c
  BY <1>1, <1>4, <1>5, <1>8 DEF live, IInv, HierarchyOK, ParentLinks
<1>. QED  BY <1>1, <1>3, <1>4, <1>5, <1>6, <1>7, <1>8, <1>9 DEF c

\* Adoption by the root process keeps the invariant.
LEMMA AdoptKeeps ==
  ASSUME IInv, KillAdoptChild
  PROVE  IInv'
<1> DEFINE c == Head(children[victim])
           r == rootProcess
           rest == Tail(children[victim])
<1>1. /\ Killing /\ children[victim] # <<>> /\ ~thread[c]
      /\ parent' = [parent EXCEPT ![c] = Owner(r)]
      /\ children' = [children EXCEPT ![victim] = rest, ![Owner(r)] = Append(@, c)]
      /\ UNCHANGED <<pid, thread, state, events, context, tableVars, spaceVars, pc,
                     killVars, ghostVars>>
  BY DEF KillAdoptChild
<1>2. /\ c \in live /\ c \in Procs /\ parent[c] = victim /\ c # victim
      /\ pc = "exit" /\ ~thread[victim]
      /\ \A q \in live : ~Undoing(q)
      /\ rest \in Seq(Procs) /\ Items(rest) = Items(children[victim]) \ {c}
      /\ NoRepeats(rest)
      /\ r \in live /\ r \in Procs /\ parent[r] = NULL
      /\ ~thread[r] /\ r # victim /\ r # c
  BY <1>1, ChildFacts
<1>3. Owner(r) = r  BY <1>2 DEF Owner
<1> HIDE DEF c, rest
<1>4. victim \in live /\ victim \in Procs /\ parent[victim] # NULL
  BY <1>1, VictimFacts
<1>5. /\ parent \in [Procs -> Procs \cup {NULL}] /\ children \in [Procs -> Seq(Procs)]
      /\ thread \in [Procs -> BOOLEAN]
  BY DEF IInv, TypeOK
<1>6. /\ parent' \in [Procs -> Procs \cup {NULL}] /\ parent'[c] = r
      /\ \A q \in Procs \ {c} : parent'[q] = parent[q]
  BY <1>1, <1>2, <1>3, <1>5
<1>7. /\ Append(children[r], c) \in Seq(Procs)
      /\ Items(Append(children[r], c)) = Items(children[r]) \cup {c}
      /\ NoRepeats(Append(children[r], c))
  <2>1. children[r] \in Seq(Procs) /\ NoRepeats(children[r]) /\ c \notin Items(children[r])
    BY <1>2, <1>5 DEF IInv, HierarchyOK, ChildLinks
  <2> HIDE DEF r
  <2>. QED  BY <1>2, <2>1, AppendItems
<1>8. /\ children' \in [Procs -> Seq(Procs)]
      /\ children'[victim] = rest /\ children'[r] = Append(children[r], c)
      /\ \A q \in Procs \ {victim, r} : children'[q] = children[q]
  <2> HIDE DEF r
  <2>1. children' = [q \in Procs |-> IF q = r THEN Append(children[r], c)
                                     ELSE IF q = victim THEN rest ELSE children[q]]
    BY <1>1, <1>2, <1>3, <1>4, <1>5
  <2>. QED  BY <1>2, <1>4, <1>5, <1>7, <2>1
<1>9. live' = live  BY <1>1 DEF live
<1>10. TypeOK'
  BY <1>1, <1>6, <1>8 DEF IInv, TypeOK, tableVars, spaceVars, killVars, ghostVars
<1>11. TableOK'  BY <1>1, <1>9 DEF IInv, TableOK, tableVars, ghostVars
<1>12. OneRoot'
  <2>1. r' = r  BY <1>1 DEF tableVars
  <2>2. r # NULL  BY <1>2, ProcsAssumption
  <2>. QED  BY <1>2, <1>6, <1>9, <2>1, <2>2 DEF IInv, HierarchyOK, OneRoot, live
<1>13. \A q \in live : q \in Procs  BY DEF live
<1>14. ParentLinks'
  <2> SUFFICES ASSUME NEW q \in live
               PROVE  /\ thread[q] => parent'[q] # NULL /\ children'[q] = <<>>
                      /\ parent'[q] # NULL =>
                            /\ parent'[q] \in live \ {q}
                            /\ ~thread[parent'[q]] /\ q \in Items(children'[parent'[q]])
    BY <1>1, <1>9 DEF ParentLinks
  <2>1. /\ thread[q] => parent[q] # NULL /\ children[q] = <<>>
        /\ parent[q] # NULL =>
              /\ parent[q] \in live \ {q}
              /\ ~thread[parent[q]] /\ q \in Items(children[parent[q]])
    BY <1>2 DEF IInv, HierarchyOK, ParentLinks
  <2>2. CASE q = c
    BY <2>2, <1>1, <1>2, <1>6, <1>7, <1>8
  <2>3. CASE q # c
    <3>1. parent'[q] = parent[q]  BY <2>3, <1>6, <1>13
    <3>2. thread[q] => children'[q] = <<>>
      BY <2>1, <2>3, <1>2, <1>8, <1>13
    <3>3. parent[q] # NULL => q \in Items(children'[parent[q]])
      BY <2>1, <2>3, <1>2, <1>7, <1>8, <1>13
    <3>. QED  BY <2>1, <3>1, <3>2, <3>3
  <2>. QED  BY <2>2, <2>3
<1>15. ChildLinks'
  <2> SUFFICES ASSUME NEW q \in Procs
               PROVE  /\ NoRepeats(children'[q])
                      /\ \A d \in Items(children'[q]) : d \in live /\ parent'[d] = q
    BY <1>9 DEF ChildLinks
  <2>1. /\ NoRepeats(children[q])
        /\ \A d \in Items(children[q]) : d \in live /\ parent[d] = q
    BY DEF IInv, HierarchyOK, ChildLinks
  <2>2. CASE q = victim  BY <2>1, <2>2, <1>2, <1>6, <1>8, <1>13
  <2>3. CASE q = r  BY <2>1, <2>3, <1>2, <1>6, <1>7, <1>8, <1>13
  <2>4. CASE q \notin {victim, r}
    BY <2>1, <2>4, <1>2, <1>6, <1>8, <1>13
  <2>. QED  BY <2>2, <2>3, <2>4
<1>16. AddressSpacesOK'
  BY <1>1, <1>2, <1>6, <1>9, <1>13 DEF IInv, AddressSpacesOK, tableVars, spaceVars, ghostVars
<1>17. ControlOK'
  <2>1. parent'[victim] # NULL  BY <1>2, <1>4, <1>6
  <2>. QED  BY <1>1, <1>2, <1>4, <1>9, <2>1
            DEF IInv, ControlOK, Killing, tableVars, spaceVars, killVars
<1>. QED  BY <1>10, <1>11, <1>12, <1>14, <1>15, <1>16, <1>17 DEF IInv, HierarchyOK

\* The kill of a child thread keeps the invariant.
LEMMA ChildThreadKeeps ==
  ASSUME IInv, KillChildThread
  PROVE  IInv'
<1> DEFINE c == Head(children[victim])
<1>1. /\ Killing /\ children[victim] # <<>> /\ thread[c] /\ ParentEntry(c) # NULL
      /\ Reap(c, FORCE_KILLED)
      /\ UNCHANGED <<currentProcess, rootProcess, spaceVars, pc, victim, exitCode, leaked>>
  BY DEF KillChildThread
<1>2. clobbered' \in BOOLEAN  BY DEF KillChildThread, IInv, TypeOK
<1>3. /\ c \in live /\ c \in Procs /\ parent[c] = victim /\ c # victim
      /\ pc = "exit" /\ ~thread[victim] /\ \A q \in live : ~Undoing(q)
  BY <1>1, ChildFacts
<1> HIDE DEF c
<1>4. victim \in live /\ victim \in Procs /\ victim # NULL /\ parent[victim] # NULL
  BY <1>1, VictimFacts, ProcsAssumption
<1>5. children[c] = <<>>  BY <1>1, <1>3 DEF IInv, HierarchyOK, ParentLinks
<1>6. \A q \in live : parent[q] # c
  BY <1>1, <1>3, <1>5, EmptyItems, ProcsAssumption DEF IInv, HierarchyOK, ParentLinks, live
<1>7. FORCE_KILLED \in Codes  BY DEF Codes
<1>8. /\ live' = live \ {c}
      /\ pid' \in [Procs -> 0..MAX_PROCESS_COUNT]
      /\ thread' \in [Procs -> BOOLEAN]
      /\ state' \in [Procs -> {"INVALID", "IDLE", "RUNNING"}]
      /\ parent' \in [Procs -> Procs \cup {NULL}]
      /\ children' \in [Procs -> Seq(Procs)]
      /\ events' \in [Procs -> Seq(Event)]
      /\ context' \in [Procs -> Procs \cup {KERNEL}]
      /\ processCount' \in 0..MAX_PROCESS_COUNT
      /\ schedulerQueue' \in Seq(Procs)
      /\ someDied' \in BOOLEAN
      /\ TableOK' /\ HierarchyOK'
      /\ \A q \in live' : thread'[q] = thread[q] /\ context'[q] = context[q]
                         /\ parent'[q] = parent[q]
  BY <1>1, <1>3, <1>4, <1>5, <1>6, <1>7, ReapKeeps
<1>9. TypeOK'  BY <1>1, <1>2, <1>8 DEF TypeOK, IInv, spaceVars
<1>10. AddressSpacesOK'
  <2>1. UNCHANGED <<spaces, cr3, pc, leaked>>  BY <1>1 DEF spaceVars
  <2>2. \A q \in live' : ~Undoing(q)'  BY <1>1, <1>3 DEF Undoing, Panics
  <2>3. \A q \in live' : /\ context'[q] \in spaces \ {KERNEL}
                         /\ ~thread'[q] => context'[q] = q
                         /\ thread'[q] => context'[q] = parent'[q]
    <3> SUFFICES ASSUME NEW q \in live'
                 PROVE  /\ context'[q] \in spaces \ {KERNEL}
                        /\ ~thread'[q] => context'[q] = q
                        /\ thread'[q] => context'[q] = parent'[q]
      OBVIOUS
    <3>1. q \in live /\ ~Undoing(q)  BY <1>3, <1>8
    <3>2. /\ context[q] \in spaces \ {KERNEL}
          /\ ~thread[q] => context[q] = q
          /\ thread[q] => context[q] = parent[q]
      BY <3>1 DEF IInv, AddressSpacesOK
    <3>. QED  BY <1>8, <3>2
  <2>4. spaces \ {KERNEL} \subseteq {q \in live' : ~thread'[q]} \cup leaked
    BY <1>1, <1>8 DEF IInv, AddressSpacesOK
  <2>. QED  BY <1>3, <2>1, <2>3, <2>4 DEF IInv, AddressSpacesOK
<1>11. ControlOK'
  <2>1. victim \in live' /\ parent'[victim] # NULL  BY <1>3, <1>4, <1>8
  <2>. QED  BY <1>1, <1>3, <2>1 DEF IInv, ControlOK, Killing, spaceVars
<1>. QED  BY <1>8, <1>9, <1>10, <1>11 DEF IInv

\* The end of kprocess_kill_process frees the victim, which has no children left,
\* and returns to where it was called.
LEMMA VictimReaped ==
  ASSUME IInv, Killing, children[victim] = <<>>, ParentEntry(victim) # NULL,
         Reap(victim, exitCode), KillReturns, UNCHANGED <<rootProcess, leaked>>,
         spaces' \in SUBSET (Procs \cup {KERNEL}), cr3' \in Procs \cup {KERNEL},
         KERNEL \in spaces',
         pc = "undo" => cr3' = cr3
  PROVE  /\ TypeOK' /\ TableOK' /\ HierarchyOK' /\ ControlOK'
         /\ live' = live \ {victim}
         /\ \A q \in live' : /\ thread'[q] = thread[q] /\ context'[q] = context[q]
                            /\ parent'[q] = parent[q] /\ ~Undoing(q)
         /\ pc' = "user" => currentProcess' \in live' /\ cr3' = context'[currentProcess']
<1>1. /\ victim \in live /\ victim \in Procs /\ parent[victim] # NULL
      /\ pc \in {"exit", "undo"} /\ \A q \in live : parent[q] # victim
  BY VictimFacts
<1>2. exitCode \in Codes  BY DEF IInv, TypeOK
<1>3. \A q \in live \ {victim} : ~Undoing(q)  BY DEF Undoing
<1>4. /\ live' = live \ {victim}
      /\ pid' \in [Procs -> 0..MAX_PROCESS_COUNT]
      /\ thread' \in [Procs -> BOOLEAN]
      /\ state' \in [Procs -> {"INVALID", "IDLE", "RUNNING"}]
      /\ parent' \in [Procs -> Procs \cup {NULL}]
      /\ children' \in [Procs -> Seq(Procs)]
      /\ events' \in [Procs -> Seq(Event)]
      /\ context' \in [Procs -> Procs \cup {KERNEL}]
      /\ processCount' \in 0..MAX_PROCESS_COUNT
      /\ schedulerQueue' \in Seq(Procs)
      /\ someDied' \in BOOLEAN
      /\ TableOK' /\ HierarchyOK'
      /\ \A q \in live' : thread'[q] = thread[q] /\ context'[q] = context[q]
                         /\ parent'[q] = parent[q]
  BY <1>1, <1>2, <1>3, ReapKeeps
<1>5. /\ pc' = IF pc = "exit" THEN "yield" ELSE "user"
      /\ currentProcess' = IF pc = "exit" THEN NULL ELSE currentProcess
      /\ victim' = NULL /\ exitCode' = 0 /\ clobbered' = FALSE
  BY DEF KillReturns
<1>6. TypeOK'
  BY <1>1, <1>4, <1>5 DEF TypeOK, IInv, Routines, Codes
<1>7. pc = "undo" => /\ currentProcess # NULL /\ currentProcess \in live'
                     /\ cr3' = context'[currentProcess]
  BY <1>4 DEF IInv, ControlOK
<1>8. rootProcess # NULL  BY <1>1 DEF IInv, ControlOK
<1>9. ControlOK'  BY <1>1, <1>5, <1>7, <1>8 DEF ControlOK, Killing
<1>. QED  BY <1>1, <1>3, <1>4, <1>5, <1>6, <1>7, <1>9

\* The kill of a thread keeps the invariant.
LEMMA ThreadKeeps ==
  ASSUME IInv, KillThread
  PROVE  IInv'
<1>1. /\ Killing /\ thread[victim] /\ ParentEntry(victim) # NULL
      /\ Reap(victim, exitCode) /\ KillReturns
      /\ UNCHANGED <<rootProcess, spaces, cr3, leaked>>
  BY DEF KillThread, spaceVars
<1>2. children[victim] = <<>>  BY <1>1, VictimFacts
<1>3. /\ spaces' \in SUBSET (Procs \cup {KERNEL}) /\ cr3' \in Procs \cup {KERNEL}
      /\ KERNEL \in spaces'
  BY <1>1 DEF IInv, TypeOK, ControlOK
<1>4. /\ TypeOK' /\ TableOK' /\ HierarchyOK' /\ ControlOK'
      /\ live' = live \ {victim}
      /\ \A q \in live' : /\ thread'[q] = thread[q] /\ context'[q] = context[q]
                         /\ parent'[q] = parent[q] /\ ~Undoing(q)
      /\ pc' = "user" => currentProcess' \in live' /\ cr3' = context'[currentProcess']
  BY <1>1, <1>2, <1>3, VictimReaped
<1>5. AddressSpacesOK'  BY <1>1, <1>4 DEF IInv, AddressSpacesOK
<1>. QED  BY <1>4, <1>5 DEF IInv

\* The kill of a process and its address space keeps the invariant.
LEMMA ProcessKeeps ==
  ASSUME IInv, KillProcess
  PROVE  IInv'
<1>1. /\ Killing /\ ~thread[victim] /\ children[victim] = <<>>
      /\ ParentEntry(victim) # NULL
      /\ Reap(victim, exitCode) /\ KillReturns
      /\ UNCHANGED <<rootProcess, leaked>>
      /\ spaces' = spaces \ {context[victim]}
  BY DEF KillProcess
<1>2. \/ SeesContext /\ cr3' = KERNEL
      \/ cr3 # context[victim] /\ cr3' = cr3
  BY DEF KillProcess
<1>3. /\ victim \in live /\ victim \in Procs /\ context[victim] = victim
      /\ \A q \in live : parent[q] # victim
  BY <1>1, VictimFacts
<1>4. KERNEL \in spaces'  BY <1>1, <1>3, ProcsAssumption DEF IInv, ControlOK
<1>5. cr3' \in spaces'  BY <1>1, <1>2, <1>4 DEF IInv, AddressSpacesOK
<1>6. /\ spaces' \in SUBSET (Procs \cup {KERNEL}) /\ cr3' \in Procs \cup {KERNEL}
  BY <1>1, <1>5 DEF IInv, TypeOK
<1>7. \A q \in live \ {victim} : context[q] # victim
  BY <1>3 DEF IInv, AddressSpacesOK, Undoing
<1>8. pc = "undo" => cr3' = cr3
  <2> SUFFICES ASSUME pc = "undo" PROVE cr3' = cr3  OBVIOUS
  <2>1. currentProcess \in live \ {victim}  BY DEF IInv, ControlOK
  <2>2. context[currentProcess] # context[victim]  BY <1>3, <1>7, <2>1
  <2>. QED  BY <1>2, <2>1, <2>2 DEF SeesContext
<1>9. /\ TypeOK' /\ TableOK' /\ HierarchyOK' /\ ControlOK'
      /\ live' = live \ {victim}
      /\ \A q \in live' : /\ thread'[q] = thread[q] /\ context'[q] = context[q]
                         /\ parent'[q] = parent[q] /\ ~Undoing(q)
      /\ pc' = "user" => currentProcess' \in live' /\ cr3' = context'[currentProcess']
  BY <1>1, <1>4, <1>6, <1>8, VictimReaped
<1>10. AddressSpacesOK'
  BY <1>1, <1>3, <1>5, <1>7, <1>9 DEF IInv, AddressSpacesOK
<1>. QED  BY <1>9, <1>10 DEF IInv

\* Every way through kprocess_kill_process keeps the invariant.
LEMMA KillKeeps ==
  ASSUME IInv, Kill
  PROVE  IInv'
<1>1. CASE KillDeletesCurrentPD  BY <1>1, PanicKeeps DEF KillDeletesCurrentPD, Panics
<1>2. CASE KillNotQueued  BY <1>2, PanicKeeps DEF KillNotQueued, Panics
<1>3. CASE KillParentNotQueued  BY <1>3, PanicKeeps DEF KillParentNotQueued, Panics
<1>. QED  BY <1>1, <1>2, <1>3, AdoptKeeps, ChildThreadKeeps, ProcessKeeps, ThreadKeeps
          DEF Kill

-----------------------------------------------------------------------------
(* The theorems *)

\* Every step of the kernel keeps the inductive invariant.
LEMMA StepKeeps ==
  ASSUME IInv, [Next]_vars
  PROVE  IInv'
<1>1. CASE Create
  BY <1>1, CreateKeeps, QueueFullKeeps, StaleKeeps, ParentNullKeeps DEF Create
<1>2. CASE CreateNoInfo
  <2>1. \E why \in Panics : Panic(why)  BY <1>2 DEF CreateNoInfo, Panics
  <2>. QED  BY <2>1, PanicKeeps
<1>3. CASE CreateParentWild
  BY <1>3, PanicKeeps DEF CreateParentWild, Panics
<1>4. CASE Exit  BY <1>4, KprocessExit DEF Exit
<1>5. CASE Kill  BY <1>5, KillKeeps
<1>6. CASE ksys_yieldProcess  BY <1>6, YieldCall
<1>7. CASE Yield  BY <1>7, YieldKeeps
<1>8. CASE keventmanager_invoke \/ ksys_processPopEvent  BY <1>8, EventsKeep
<1>9. CASE EventPidInvalid
  BY <1>9, PanicKeeps DEF EventPidInvalid, Panics
<1>10. CASE UNCHANGED vars
  <2> USE <1>10 DEF vars, infoVars, tableVars, spaceVars, killVars, ghostVars
  <2>1. live' = live  BY DEF live
  <2>2. TypeOK'  BY DEF IInv, TypeOK
  <2>3. TableOK'  BY <2>1 DEF IInv, TableOK
  <2>4. HierarchyOK'
    BY <2>1 DEF IInv, HierarchyOK, OneRoot, ParentLinks, ChildLinks, Undoing
  <2>5. AddressSpacesOK'  BY <2>1 DEF IInv, AddressSpacesOK, Undoing
  <2>6. ControlOK'  BY <2>1 DEF IInv, ControlOK, Killing
  <2>. QED  BY <2>2, <2>3, <2>4, <2>5, <2>6 DEF IInv
<1>. QED
  BY <1>1, <1>2, <1>3, <1>4, <1>5, <1>6, <1>7, <1>8, <1>9, <1>10 DEF Next, Halted

\* The inductive invariant holds in every state of process.c.
THEOREM Inductive == Spec => []IInv
<1>1. Init => IInv  BY InitIInv
<1>2. IInv /\ [Next]_vars => IInv'  BY StepKeeps
<1>. QED  BY <1>1, <1>2, PTL DEF Spec

\* Type correctness; processCount and the process IDs never leave the range of
\* MAX_PROCESS_COUNT.
THEOREM TypeCorrect == Spec => []TypeOK
<1>1. IInv => TypeOK  BY DEF IInv
<1>. QED  BY <1>1, Inductive, PTL

\* The scheduler queue never holds a freed KProcessInfo nor one twice, and
\* processCount counts the objects that exist.
THEOREM TableCorrect == Spec => []TableOK
<1>1. IInv => TableOK  BY DEF IInv
<1>. QED  BY <1>1, Inductive, PTL

\* Parent pointers and children lists always agree, parents are alive, and
\* threads have no children.
THEOREM HierarchyCorrect == Spec => []HierarchyOK
<1>1. IInv => HierarchyOK  BY DEF IInv
<1>. QED  BY <1>1, Inductive, PTL

\* No process outlives its address space, and CR3 never points to a page
\* directory that was deleted.
THEOREM AddressSpacesCorrect == Spec => []AddressSpacesOK
<1>1. IInv => AddressSpacesOK  BY DEF IInv
<1>. QED  BY <1>1, Inductive, PTL

\* kprocess_kill_process works on a process that is alive and not the root, and
\* kprocess_yield returns only to a process that is alive.
THEOREM ControlCorrect == Spec => []ControlOK
<1>1. IInv => ControlOK  BY DEF IInv
<1>. QED  BY <1>1, Inductive, PTL

\* For any number of processes, and whatever step of a creation fails, the process
\* table counts what exists and each routine of process.c finds what it relies on.
THEOREM KernelStateCorrect == Spec => []KernelStateOK
<1>1. IInv => KernelStateOK  BY DEF IInv, KernelStateOK
<1>. QED  BY <1>1, Inductive, PTL

-----------------------------------------------------------------------------
(* The scheduler *)

\* Only the current process has state RUNNING, whatever routine runs. What makes it
\* inductive is the last part: kprocess_exit kills the current process, or the process
\* whose thread it is, so that nobody is RUNNING when the scheduler looks for the next.
RunInv ==
  /\ \A p \in live : state[p] = "RUNNING" => p = currentProcess
  /\ pc \in {"user", "yield", "undo"} /\ currentProcess # NULL =>
       state[currentProcess] = "RUNNING"
  /\ pc = "exit" => \/ currentProcess = victim
                    \/ currentProcess \notin live
                    \/ thread[currentProcess] /\ parent[currentProcess] = victim

\* As long as no creation has lost a process, every process is in the scheduler queue,
\* except one whose creation is being undone, and the table is not full.
QueueInv ==
  leaked = {} /\ pc \notin Panics =>
    /\ pc # "undo" => Items(schedulerQueue) = live /\ processCount < MAX_PROCESS_COUNT
    /\ pc = "undo" => Items(schedulerQueue) = live \ {victim}

\* A list without repetitions is as long as it has items.
LEMMA LengthCounts ==
  ASSUME NEW S, NEW s \in Seq(S), NoRepeats(s)
  PROVE  Cardinality(Items(s)) = Len(s)
<1>1. s \in Bijection(1..Len(s), Items(s))
  BY DEF NoRepeats, Items, Bijection, Injection, IsInjective, Surjection
<1>2. ExistsBijection(1..Len(s), Items(s))  BY <1>1 DEF ExistsBijection
<1>. QED  BY <1>2, FS_CountingElements

\* What the death of a process changes for the others.
LEMMA Reaped ==
  ASSUME IInv, NEW p \in live, NEW code, Reap(p, code)
  PROVE  /\ live' = live \ {p}
         /\ \A q \in live' : /\ pid'[q] = pid[q] /\ state'[q] = state[q]
                            /\ thread'[q] = thread[q] /\ parent'[q] = parent[q]
         /\ Items(schedulerQueue') = Items(schedulerQueue) \ {p}
         /\ processCount' = processCount - 1
         /\ someDied' = (someDied \/ pc = "exit")
<1>1. /\ pid \in [Procs -> 0..MAX_PROCESS_COUNT] /\ thread \in [Procs -> BOOLEAN]
      /\ state \in [Procs -> {"INVALID", "IDLE", "RUNNING"}]
      /\ parent \in [Procs -> Procs \cup {NULL}]
  BY DEF IInv, TypeOK
<1>2. p \in Procs  BY DEF live
<1>3. live' = live \ {p}  BY <1>1, <1>2 DEF Reap, live
<1>4. \A q \in live' : q \in Procs /\ q # p  BY <1>3 DEF live
<1>5. \A q \in live' : /\ pid'[q] = pid[q] /\ state'[q] = state[q]
                      /\ thread'[q] = thread[q] /\ parent'[q] = parent[q]
  BY <1>1, <1>2, <1>4 DEF Reap
<1>6. schedulerQueue \in Seq(Procs) /\ NoRepeats(schedulerQueue)
  BY DEF IInv, TypeOK, TableOK
<1>7. Items(schedulerQueue') = Items(schedulerQueue) \ {p}  BY <1>6, RemoveItems DEF Reap
<1>. QED  BY <1>3, <1>5, <1>7 DEF Reap

\* Every step that ends in a panic stops the machine.
LEMMA PanicStops ==
  ASSUME NEW why \in Panics, Panic(why)
  PROVE  /\ pc' \in Panics /\ live' = live
         /\ UNCHANGED <<pid, state, thread, parent, currentProcess, victim, schedulerQueue,
                        processCount, leaked, someDied, events>>
BY DEF Panic, infoVars, tableVars, killVars, ghostVars, live

\* The steps that panic or do nothing; all others are named.
PanicStep ==
  \/ CreateNoInfo \/ CreateParentWild \/ KillDeletesCurrentPD \/ KillNotQueued
  \/ KillParentNotQueued \/ YieldQueueEmpty \/ EventPidInvalid

LEMMA PanicSteps ==
  ASSUME PanicStep
  PROVE  /\ pc' \in Panics /\ live' = live
         /\ UNCHANGED <<pid, state, thread, parent, currentProcess, victim, schedulerQueue,
                        processCount, leaked, someDied, events>>
<1>1. ASSUME CreateNoInfo PROVE \E why \in Panics : Panic(why)
  <2>1. PICK why : why = (IF processCount = 0 THEN "root not created" ELSE "null pointer") /\ Panic(why)
    BY <1>1, Zenon DEF CreateNoInfo
  <2>2. why \in Panics  BY <2>1, Zenon DEF Panics
  <2>. QED  BY <2>1, <2>2, Zenon
<1>2. ASSUME PanicStep, ~CreateNoInfo PROVE \E why \in Panics : Panic(why)
  BY <1>2, Zenon DEF PanicStep, CreateParentWild, KillDeletesCurrentPD, KillNotQueued,
            KillParentNotQueued, YieldQueueEmpty, EventPidInvalid, Panics
<1>. QED  BY <1>1, <1>2, PanicStops

\* No routine has the name of a panic.
LEMMA RoutineNames == \A r \in Routines : r \notin Panics
BY Zenon DEF Routines, Panics

\* A new KProcessInfo is not RUNNING.
LEMMA NewRun ==
  ASSUME IInv, RunInv, NEW p \in Procs, NEW isThread \in BOOLEAN, NEW st \in {"IDLE", "INVALID"},
         NEW par, CreateCall(p, isThread), NewInfo(p, isThread, st, par),
         UNCHANGED <<currentProcess, leaked>>, pc' \in {"user", "yield", "undo"}
  PROVE  RunInv'
<1>1. live' = live \cup {p}  BY NewCounted
<1>2. /\ p \notin live /\ pc \in {"boot", "user"}
      /\ pc = "boot" => currentProcess = NULL
      /\ pc = "user" => currentProcess \in live
  BY Caller
<1>3. p # NULL /\ p # currentProcess  BY <1>2, ProcsAssumption
<1>4. state \in [Procs -> {"INVALID", "IDLE", "RUNNING"}] /\ state' = [state EXCEPT ![p] = st]
  BY DEF IInv, TypeOK, NewInfo
<1>5. \A q \in live : q \in Procs /\ q # p  BY <1>2 DEF live
<1>6. state'[p] # "RUNNING" /\ \A q \in live : state'[q] = state[q]  BY <1>4, <1>5
<1>. QED  BY <1>1, <1>2, <1>3, <1>6 DEF RunInv

\* After kprocess_kill_process nobody is RUNNING if the current process had itself killed,
\* and the current process goes on if it undoes a creation.
LEMMA VictimRun ==
  ASSUME IInv, RunInv, Killing, children[victim] = <<>>, Reap(victim, exitCode), KillReturns
  PROVE  RunInv'
<1>1. /\ victim \in live /\ pc \in {"exit", "undo"}
      /\ \A q \in live : parent[q] # victim
  BY VictimFacts
<1>2. live' = live \ {victim} /\ \A q \in live' : state'[q] = state[q]  BY <1>1, Reaped
<1>3. CASE pc = "exit"
  BY <1>1, <1>2, <1>3 DEF RunInv, KillReturns
<1>4. CASE pc = "undo"
  <2>1. currentProcess \in live' /\ currentProcess # NULL  BY <1>2, <1>4 DEF IInv, ControlOK
  <2>. QED  BY <1>2, <1>4, <2>1 DEF RunInv, KillReturns
<1>. QED  BY <1>1, <1>3, <1>4

\* Every step keeps the current process the only RUNNING one.
LEMMA RunStep ==
  ASSUME IInv, RunInv, [Next]_vars
  PROVE  RunInv'
<1> USE DEF infoVars, tableVars, spaceVars, killVars, ghostVars
<1>1. CASE Create
  <2> PICK p \in Procs, isThread \in BOOLEAN :
             \/ kprocess_create(p, isThread)
             \/ CreateQueueFull(p, isThread)
             \/ CreateParentNull(p, isThread)
             \/ \E par \in Procs : CreateParentStale(p, isThread, par)
    BY <1>1 DEF Create
  <2>1. CASE kprocess_create(p, isThread)
    BY <2>1, NewRun DEF kprocess_create
  <2>2. CASE CreateQueueFull(p, isThread)
    BY <2>2, NewRun DEF CreateQueueFull
  <2>3. CASE CreateParentNull(p, isThread)
    <3>1. /\ UNCHANGED <<pid, state, currentProcess>>
          /\ pc \in {"boot", "user"} /\ (pc' = pc \/ pc' \in Panics)
      BY <2>3, Zenon DEF CreateParentNull, CreateCall, Panics
    <3>2. live' = live  BY <3>1 DEF live
    <3>3. pc' \in Panics => pc' \notin {"user", "yield", "undo", "exit"}
      BY RoutineNames DEF Routines
    <3>. QED  BY <3>1, <3>2, <3>3 DEF RunInv
  <2>4. CASE \E par \in Procs : CreateParentStale(p, isThread, par)
    BY <2>4, NewRun DEF CreateParentStale
  <2>. QED  BY <2>1, <2>2, <2>3, <2>4
<1>2. CASE Exit
  <2> PICK code \in ExitCodes, destroyContext \in BOOLEAN : kprocess_exit(code, destroyContext)
    BY <1>2 DEF Exit
  <2>1. live' = live  BY DEF kprocess_exit, live
  <2>. QED  BY <2>1 DEF kprocess_exit, RunInv
<1>3. CASE KillAdoptChild
  <2> DEFINE c == Head(children[victim])
  <2>1. c \in live /\ c \in Procs /\ pc = "exit"  BY <1>3, ChildFacts DEF KillAdoptChild
  <2>2. /\ ~thread[c] /\ parent' = [parent EXCEPT ![c] = Owner(rootProcess)]
        /\ UNCHANGED <<pid, thread, state, currentProcess, pc, victim>>
    BY <1>3 DEF KillAdoptChild
  <2> HIDE DEF c
  <2>3. live' = live /\ \A q \in live : q \in Procs  BY <2>2 DEF live
  <2>4. parent \in [Procs -> Procs \cup {NULL}]  BY DEF IInv, TypeOK
  <2>5. currentProcess \in live /\ thread[currentProcess] =>
          parent'[currentProcess] = parent[currentProcess]
    BY <2>2, <2>3, <2>4
  <2>. QED  BY <2>1, <2>2, <2>3, <2>5 DEF RunInv
<1>4. CASE KillChildThread
  <2> DEFINE c == Head(children[victim])
  <2>1. c \in live /\ c # victim /\ pc = "exit"  BY <1>4, ChildFacts DEF KillChildThread
  <2>2. Reap(c, FORCE_KILLED) /\ UNCHANGED <<currentProcess, pc, victim>>
    BY <1>4 DEF KillChildThread
  <2> HIDE DEF c
  <2>3. /\ live' = live \ {c}
        /\ \A q \in live' : /\ state'[q] = state[q] /\ thread'[q] = thread[q]
                           /\ parent'[q] = parent[q]
    BY <2>1, <2>2, Reaped
  <2>. QED  BY <2>1, <2>2, <2>3 DEF RunInv
<1>5. CASE KillProcess
  BY <1>5, VictimRun DEF KillProcess
<1>6. CASE KillThread
  <2>1. children[victim] = <<>>  BY <1>6, VictimFacts DEF KillThread
  <2>. QED  BY <1>6, <2>1, VictimRun DEF KillThread
<1>7. CASE ksys_yieldProcess
  <2>1. live' = live  BY <1>7 DEF ksys_yieldProcess, live
  <2>. QED  BY <1>7, <2>1 DEF ksys_yieldProcess, RunInv
<1>8. CASE YieldAgain \/ YieldToSelf \/ YieldQueueFull
  <2>1. /\ UNCHANGED <<pid, state, currentProcess>> /\ pc = "yield"
        /\ (pc' \in {"user", "yield"} \/ pc' \in Panics)
    <3>1. CASE YieldAgain  BY <3>1 DEF YieldAgain
    <3>2. CASE YieldToSelf  BY <3>2 DEF YieldToSelf
    <3>3. CASE YieldQueueFull  BY <3>3, Zenon DEF YieldQueueFull, Panics
    <3>. QED  BY <1>8, <3>1, <3>2, <3>3
  <2>2. live' = live  BY <2>1 DEF live
  <2>3. pc' \in Panics => pc' \notin {"user", "yield", "undo", "exit"}
    BY RoutineNames DEF Routines
  <2>. QED  BY <2>1, <2>2, <2>3 DEF RunInv
<1>9. CASE YieldSwitch
  <2> DEFINE next == Head(schedulerQueue)
  <2>1. next \in live  BY <1>9, Rotated DEF YieldSwitch
  <2>2. /\ ~IsCurrentPid(next) /\ currentProcess' = next /\ pc' = "user" /\ UNCHANGED pid
        /\ state' = [p \in Procs |-> IF p = next THEN "RUNNING"
                                     ELSE IF p = currentProcess THEN "IDLE"
                                     ELSE state[p]]
    BY <1>9 DEF YieldSwitch
  <2> HIDE DEF next
  <2>3. live' = live /\ \A q \in live : q \in Procs  BY <2>2 DEF live
  <2>. QED  BY <2>1, <2>2, <2>3 DEF RunInv
<1>10. CASE keventmanager_invoke \/ ksys_processPopEvent
  <2>1. UNCHANGED <<pid, thread, state, parent, currentProcess, pc, victim>>
    BY <1>10 DEF keventmanager_invoke, ksys_processPopEvent
  <2>2. live' = live  BY <2>1 DEF live
  <2>. QED  BY <2>1, <2>2 DEF RunInv
<1>11. CASE PanicStep
  <2>1. /\ pc' \in Panics /\ live' = live
        /\ UNCHANGED <<state, thread, parent, currentProcess, victim>>
    BY <1>11, PanicSteps
  <2>2. pc' \notin {"user", "yield", "undo", "exit"}  BY <2>1, RoutineNames DEF Routines
  <2>. QED  BY <2>1, <2>2 DEF RunInv
<1>12. CASE UNCHANGED vars
  <2>1. live' = live  BY <1>12 DEF vars, live
  <2>. QED  BY <1>12, <2>1 DEF vars, RunInv
<1>. QED
  BY <1>1, <1>2, <1>3, <1>4, <1>5, <1>6, <1>7, <1>8, <1>9, <1>10, <1>11, <1>12
  DEF Next, Kill, Yield, Halted, PanicStep

\* The end of kprocess_kill_process takes the process out of the queue.
LEMMA VictimQueue ==
  ASSUME IInv, QueueInv, Killing, Reap(victim, exitCode), KillReturns, UNCHANGED leaked
  PROVE  QueueInv'
<1>1. victim \in live /\ pc \in {"exit", "undo"}  BY VictimFacts
<1>2. /\ live' = live \ {victim} /\ processCount' = processCount - 1
      /\ Items(schedulerQueue') = Items(schedulerQueue) \ {victim}
  BY <1>1, Reaped
<1>3. pc' # "undo"  BY DEF KillReturns
<1>4. pc \notin Panics  BY <1>1, RoutineNames DEF Routines
<1>5. leaked = {} => Items(schedulerQueue') = live'
  BY <1>1, <1>2, <1>4 DEF QueueInv
<1>6. processCount \in 0..MAX_PROCESS_COUNT  BY DEF IInv, TypeOK
<1>7. processCount' < MAX_PROCESS_COUNT  BY <1>2, <1>6, MaxAssumption
<1>. QED  BY <1>3, <1>5, <1>7 DEF QueueInv

\* Every step keeps every process in the scheduler queue.
LEMMA QueueStep ==
  ASSUME IInv, QueueInv, [Next]_vars
  PROVE  QueueInv'
<1> USE DEF infoVars, tableVars, spaceVars, killVars, ghostVars
<1>0. \A r \in Routines : r \notin Panics  BY RoutineNames
<1>1. CASE Create
  <2> PICK p \in Procs, isThread \in BOOLEAN :
             \/ kprocess_create(p, isThread)
             \/ CreateQueueFull(p, isThread)
             \/ CreateParentNull(p, isThread)
             \/ \E par \in Procs : CreateParentStale(p, isThread, par)
    BY <1>1 DEF Create
  <2>1. ASSUME CreateCall(p, isThread)
        PROVE  /\ p \notin live /\ pc # "undo" /\ pc \notin Panics
               /\ leaked = {} => Items(schedulerQueue) = live
    <3>1. p \notin live /\ pc \in {"boot", "user"}  BY <2>1, Caller
    <3>. QED  BY <1>0, <3>1 DEF QueueInv, Routines
  <2>2. CASE kprocess_create(p, isThread)
    <3>1. /\ CreateCall(p, isThread) /\ NewInfo(p, isThread, "IDLE", NewParent)
          /\ schedulerQueue' = Append(schedulerQueue, p) /\ pc' # "undo"
          /\ processCount' = processCount + 1 /\ processCount + 1 < MAX_PROCESS_COUNT
          /\ UNCHANGED leaked
      BY <2>2 DEF kprocess_create, NewInfo
    <3>2. live' = live \cup {p}  BY <3>1, NewCounted
    <3>3. schedulerQueue \in Seq(Procs)  BY DEF IInv, TypeOK
    <3>4. Items(schedulerQueue') = Items(schedulerQueue) \cup {p}
      BY <3>1, <3>3, AppendItems
    <3>. QED  BY <2>1, <3>1, <3>2, <3>4 DEF QueueInv
  <2>3. CASE CreateQueueFull(p, isThread) \/ \E par \in Procs : CreateParentStale(p, isThread, par)
    <3>1. \E st, par : NewInfo(p, isThread, st, par)
      BY <2>3 DEF CreateQueueFull, CreateParentStale
    <3>2. /\ CreateCall(p, isThread) /\ pc' = "undo" /\ victim' = p
          /\ UNCHANGED <<leaked, schedulerQueue>>
      BY <2>3 DEF CreateQueueFull, CreateParentStale
    <3>3. live' = live \cup {p}  BY <3>1, <3>2, NewCounted
    <3>. QED  BY <2>1, <3>2, <3>3 DEF QueueInv
  <2>4. CASE CreateParentNull(p, isThread)
    <3>1. leaked' = leaked \cup {p}  BY <2>4, Zenon DEF CreateParentNull
    <3>. QED  BY <3>1 DEF QueueInv
  <2>. QED  BY <2>2, <2>3, <2>4
<1>2. CASE Exit
  <2>1. /\ pc = "user" /\ pc' = "exit"
        /\ UNCHANGED <<pid, leaked, processCount, schedulerQueue>>
    BY <1>2 DEF Exit, kprocess_exit
  <2>2. live' = live  BY <2>1 DEF live
  <2>. QED  BY <1>0, <2>1, <2>2 DEF QueueInv, Routines
<1>3. CASE KillAdoptChild
  <2>1. /\ UNCHANGED <<pid, leaked, processCount, schedulerQueue, pc, victim>>
    BY <1>3 DEF KillAdoptChild
  <2>2. live' = live  BY <2>1 DEF live
  <2>. QED  BY <2>1, <2>2 DEF QueueInv
<1>4. CASE KillChildThread
  <2> DEFINE c == Head(children[victim])
  <2>1. c \in live /\ pc = "exit"  BY <1>4, ChildFacts DEF KillChildThread
  <2>2. Reap(c, FORCE_KILLED) /\ UNCHANGED <<leaked, pc>>
    BY <1>4 DEF KillChildThread
  <2> HIDE DEF c
  <2>3. /\ live' = live \ {c} /\ processCount' = processCount - 1
        /\ Items(schedulerQueue') = Items(schedulerQueue) \ {c}
    BY <2>1, <2>2, Reaped
  <2>4. processCount \in Nat /\ MAX_PROCESS_COUNT \in Nat  BY MaxAssumption DEF IInv, TypeOK
  <2>. QED  BY <2>1, <2>2, <2>3, <2>4 DEF QueueInv
<1>5. CASE KillProcess
  BY <1>5, VictimQueue DEF KillProcess
<1>6. CASE KillThread
  BY <1>6, VictimQueue DEF KillThread
<1>7. CASE ksys_yieldProcess
  <2>1. /\ pc = "user" /\ pc' = "yield"
        /\ UNCHANGED <<pid, leaked, processCount, schedulerQueue>>
    BY <1>7 DEF ksys_yieldProcess
  <2>2. live' = live  BY <2>1 DEF live
  <2>. QED  BY <1>0, <2>1, <2>2 DEF QueueInv, Routines
<1>8. CASE YieldAgain \/ YieldToSelf \/ YieldSwitch
  <2>1. /\ schedulerQueue' = Append(Tail(schedulerQueue), Head(schedulerQueue))
        /\ schedulerQueue # <<>> /\ pc = "yield" /\ pc' \in {"yield", "user"}
        /\ UNCHANGED <<pid, leaked, processCount>>
    BY <1>8 DEF YieldAgain, YieldToSelf, YieldSwitch
  <2>2. live' = live  BY <2>1 DEF live
  <2>3. Items(schedulerQueue') = Items(schedulerQueue)  BY <2>1, Rotated
  <2>. QED  BY <1>0, <2>1, <2>2, <2>3 DEF QueueInv, Routines
<1>9. CASE YieldQueueFull
  <2>1. pc = "yield" /\ processCount >= MAX_PROCESS_COUNT /\ UNCHANGED leaked
    BY <1>9, Zenon DEF YieldQueueFull
  <2>2. pc \notin Panics  BY <1>0, <2>1 DEF Routines
  <2>3. processCount \in Nat /\ MAX_PROCESS_COUNT \in Nat  BY MaxAssumption DEF IInv, TypeOK
  <2>4. leaked # {}  BY <2>1, <2>2, <2>3 DEF QueueInv
  <2>. QED  BY <2>1, <2>4 DEF QueueInv
<1>10. CASE keventmanager_invoke \/ ksys_processPopEvent
  <2>1. UNCHANGED <<pid, pc, victim, leaked, processCount, schedulerQueue>>
    BY <1>10 DEF keventmanager_invoke, ksys_processPopEvent
  <2>2. live' = live  BY <2>1 DEF live
  <2>. QED  BY <2>1, <2>2 DEF QueueInv
<1>11. CASE PanicStep
  BY <1>11, PanicSteps DEF QueueInv
<1>12. CASE UNCHANGED vars
  <2>1. live' = live  BY <1>12 DEF vars, live
  <2>. QED  BY <1>12, <2>1 DEF vars, QueueInv
<1>. QED
  BY <1>1, <1>2, <1>3, <1>4, <1>5, <1>6, <1>7, <1>8, <1>9, <1>10, <1>11, <1>12
  DEF Next, Kill, Yield, Halted, PanicStep

\* The scheduler knows who runs, and forgets nobody: in user mode the current process and
\* no other is RUNNING, and unless a failed creation has lost a process everyone waits in
\* the scheduler queue, which kprocess_yield therefore never finds full.
THEOREM ScheduledCorrect == Spec => []Scheduled
<1>1. Init => RunInv /\ QueueInv
  <2> SUFFICES ASSUME Init PROVE RunInv /\ QueueInv  OBVIOUS
  <2>1. live = {} /\ Items(schedulerQueue) = {}  BY EmptyItems DEF Init, live
  <2>2. RunInv  BY <2>1 DEF Init, RunInv
  <2>3. QueueInv  BY <2>1, MaxAssumption DEF Init, QueueInv
  <2>. QED  BY <2>2, <2>3
<1>2. IInv /\ RunInv /\ QueueInv /\ [Next]_vars => RunInv' /\ QueueInv'
  BY RunStep, QueueStep
<1>3. IInv /\ RunInv /\ QueueInv => Scheduled
  <2> SUFFICES ASSUME IInv, RunInv, QueueInv PROVE RunningIsCurrent /\ NoneForgotten
    BY DEF Scheduled
  <2>1. RunningIsCurrent  BY DEF IInv, ControlOK, RunInv, RunningIsCurrent
  <2>2. ASSUME pc \in {"user", "yield"}, leaked = {}
        PROVE  /\ Items(schedulerQueue) = live
               /\ processCount = Len(schedulerQueue)
               /\ processCount < MAX_PROCESS_COUNT
    <3>1. pc \notin Panics  BY <2>2, RoutineNames DEF Routines
    <3>2. Items(schedulerQueue) = live /\ processCount < MAX_PROCESS_COUNT
      BY <2>2, <3>1 DEF QueueInv
    <3>3. schedulerQueue \in Seq(Procs) /\ NoRepeats(schedulerQueue)
      BY DEF IInv, TypeOK, TableOK
    <3>4. processCount = Cardinality(live)  BY <2>2 DEF IInv, TableOK
    <3>. QED  BY <3>2, <3>3, <3>4, LengthCounts
  <2>. QED  BY <2>1, <2>2 DEF NoneForgotten
<1>. QED  BY <1>1, <1>2, <1>3, Inductive, PTL DEF Spec

-----------------------------------------------------------------------------
(* Process IDs and events *)

\* If no process is created once one has died, process IDs are unique: a new one gets
\* processCount + 1, and the IDs in use are at most processCount.
PidInv ==
  /\ \A p, q \in live : pid[p] = pid[q] => p = q
  /\ ~someDied => \A p \in live : pid[p] <= processCount
  /\ pc = "undo" => ~someDied /\ pid[victim] = processCount

\* Every event is in the queue of the process it is meant for, and a freed KProcessInfo
\* leaves no events to the process that gets its address.
Private(ev) == \A p \in Procs : \A i \in 1..Len(ev[p]) : ev[p][i].for = p

EventInv ==
  /\ \A p \in Procs \ live : events[p] = <<>>
  /\ Private(events)

\* With unique process IDs it is the process that was looked for.
LEMMA FoundRight ==
  ASSUME IInv, PidInv, NEW q \in Seq(Procs), Items(q) \subseteq live, NEW t \in live,
         s_getProcessInfoFromID(q, pid[t]) # NULL
  PROVE  s_getProcessInfoFromID(q, pid[t]) = t
<1> DEFINE f == s_getProcessInfoFromID(q, pid[t])
<1>1. f \in Items(q) /\ pid[f] = pid[t]  BY FoundItem
<1> HIDE DEF f
<1>2. f = t  BY <1>1 DEF PidInv
<1>. QED  BY <1>2 DEF f

\* A new process gets a process ID that no other has.
LEMMA NewPid ==
  ASSUME ~SpawnAfterExit, IInv, PidInv, NEW p \in Procs, NEW isThread \in BOOLEAN,
         NEW st, NEW par, CreateCall(p, isThread), NewInfo(p, isThread, st, par),
         UNCHANGED <<leaked, someDied>>, pc' = "undo" => victim' = p
  PROVE  PidInv'
<1>1. live' = live \cup {p} /\ processCount' = processCount + 1  BY NewCounted DEF NewInfo
<1>2. ~someDied /\ ~someDied'  BY DEF CreateCall
<1>3. p \notin live  BY Caller
<1>4. pid \in [Procs -> 0..MAX_PROCESS_COUNT] /\ pid' = [pid EXCEPT ![p] = processCount + 1]
      /\ processCount \in Nat /\ MAX_PROCESS_COUNT \in Nat
  BY MaxAssumption DEF IInv, TypeOK, NewInfo
<1>5. \A q \in live : q \in Procs /\ q # p  BY <1>3 DEF live
<1>6. /\ pid'[p] = processCount + 1
      /\ \A q \in live : pid'[q] = pid[q] /\ pid[q] \in Nat /\ pid[q] <= processCount
  BY <1>2, <1>4, <1>5 DEF PidInv
<1>7. \A q, r \in live' : pid'[q] = pid'[r] => q = r  BY <1>1, <1>4, <1>6 DEF PidInv
<1>8. \A q \in live' : pid'[q] <= processCount'  BY <1>1, <1>4, <1>6
<1>9. pc' = "undo" => pid'[victim'] = processCount'  BY <1>1, <1>6
<1>. QED  BY <1>2, <1>7, <1>8, <1>9 DEF PidInv

\* Deaths leave the process IDs of the others unique.
LEMMA ReapPid ==
  ASSUME IInv, PidInv, Killing, NEW p \in live, NEW code, Reap(p, code), pc' # "undo" ,
         pc = "undo" => p = victim
  PROVE  PidInv'
<1>1. /\ live' = live \ {p} /\ \A q \in live' : pid'[q] = pid[q]
      /\ processCount' = processCount - 1 /\ someDied' = (someDied \/ pc = "exit")
  BY Reaped
<1>2. \A q, r \in live' : pid'[q] = pid'[r] => q = r  BY <1>1 DEF PidInv
<1>3. ASSUME ~someDied', NEW q \in live' PROVE pid'[q] <= processCount'
  <2>1. pc = "undo" /\ ~someDied  BY <1>1, <1>3 DEF Killing
  <2>2. p = victim /\ pid[p] = processCount /\ pid[q] # pid[p] /\ pid[q] <= processCount
    BY <1>1, <2>1 DEF PidInv
  <2>3. pid[q] \in Nat /\ processCount \in Nat
    BY <1>1, MaxAssumption DEF IInv, TypeOK, live
  <2>. QED  BY <1>1, <2>2, <2>3
<1>. QED  BY <1>2, <1>3 DEF PidInv

\* Every step keeps process IDs unique.
LEMMA PidStep ==
  ASSUME ~SpawnAfterExit, IInv, PidInv, [Next]_vars
  PROVE  PidInv'
<1> USE DEF infoVars, tableVars, spaceVars, killVars, ghostVars
<1>0. ASSUME UNCHANGED <<pid, processCount, someDied>>, pc' # "undo" PROVE PidInv'
  <2>1. live' = live  BY <1>0 DEF live
  <2>. QED  BY <1>0, <2>1 DEF PidInv
<1>1. CASE Create
  <2> PICK p \in Procs, isThread \in BOOLEAN :
             \/ kprocess_create(p, isThread)
             \/ CreateQueueFull(p, isThread)
             \/ CreateParentNull(p, isThread)
             \/ \E par \in Procs : CreateParentStale(p, isThread, par)
    BY <1>1 DEF Create
  <2>1. CASE kprocess_create(p, isThread)
    BY <2>1, NewPid DEF kprocess_create
  <2>2. CASE CreateQueueFull(p, isThread)
    BY <2>2, NewPid DEF CreateQueueFull
  <2>3. CASE CreateParentNull(p, isThread)
    <3>1. /\ UNCHANGED <<pid, someDied>> /\ processCount' = processCount + 1
          /\ pc \in {"boot", "user"} /\ (pc' = pc \/ pc' \in Panics)
      BY <2>3, Zenon DEF CreateParentNull, CreateCall, Panics
    <3>2. live' = live /\ \A q \in live : pid[q] \in Nat
      BY <3>1, MaxAssumption DEF live, IInv, TypeOK
    <3>3. pc' # "undo"  BY <3>1, RoutineNames DEF Routines
    <3>4. processCount \in Nat  BY DEF IInv, TypeOK
    <3>. QED  BY <3>1, <3>2, <3>3, <3>4 DEF PidInv
  <2>4. CASE \E par \in Procs : CreateParentStale(p, isThread, par)
    BY <2>4, NewPid DEF CreateParentStale
  <2>. QED  BY <2>1, <2>2, <2>3, <2>4
<1>2. CASE Exit
  BY <1>0, <1>2 DEF Exit, kprocess_exit
<1>3. CASE KillAdoptChild
  <2>1. pc = "exit"  BY <1>3, ChildFacts DEF KillAdoptChild
  <2>. QED  BY <1>0, <1>3, <2>1 DEF KillAdoptChild
<1>4. CASE KillChildThread
  <2>1. Head(children[victim]) \in live /\ pc = "exit"  BY <1>4, ChildFacts DEF KillChildThread
  <2>. QED  BY <1>4, <2>1, ReapPid DEF KillChildThread
<1>5. CASE KillProcess \/ KillThread
  <2>1. Killing /\ Reap(victim, exitCode) /\ pc' # "undo"
    BY <1>5 DEF KillProcess, KillThread, KillReturns
  <2>2. victim \in live  BY <2>1, VictimFacts
  <2>. QED  BY <2>1, <2>2, ReapPid
<1>6. CASE ksys_yieldProcess
  BY <1>0, <1>6 DEF ksys_yieldProcess
<1>7. CASE YieldAgain \/ YieldToSelf \/ YieldSwitch
  BY <1>0, <1>7 DEF YieldAgain, YieldToSelf, YieldSwitch
<1>8. CASE YieldQueueFull
  <2>1. /\ UNCHANGED <<pid, processCount, someDied>>
        /\ (pc' = "user" \/ pc' \in Panics)
    BY <1>8, Zenon DEF YieldQueueFull, Panics
  <2>2. pc' # "undo"  BY <2>1, RoutineNames DEF Routines
  <2>. QED  BY <1>0, <2>1, <2>2
<1>9. CASE keventmanager_invoke \/ ksys_processPopEvent
  BY <1>0, <1>9 DEF keventmanager_invoke, ksys_processPopEvent
<1>10. CASE PanicStep
  <2>1. pc' \in Panics /\ UNCHANGED <<pid, processCount, someDied>>  BY <1>10, PanicSteps
  <2>2. pc' # "undo"  BY <2>1, RoutineNames DEF Routines
  <2>. QED  BY <1>0, <2>1, <2>2
<1>11. CASE UNCHANGED vars
  <2>1. live' = live  BY <1>11 DEF vars, live
  <2>. QED  BY <1>11, <2>1 DEF vars, PidInv
<1>. QED
  BY <1>1, <1>2, <1>3, <1>4, <1>5, <1>6, <1>7, <1>8, <1>9, <1>10, <1>11
  DEF Next, Kill, Yield, Halted, PanicStep

\* An event that is pushed to the process it is meant for is in the right queue, and the
\* other queues stay as they are.
LEMMA PushedPrivate ==
  ASSUME NEW ev \in [Procs -> Seq(Event)], NEW t \in Procs, NEW id, NEW data,
         Private(ev)
  PROVE  /\ \A p \in Procs \ {t} : Pushed(ev, t, id, data, t)[p] = ev[p]
         /\ Private(Pushed(ev, t, id, data, t))
<1> DEFINE e == [event |-> id, data |-> data, for |-> t]
           new == Pushed(ev, t, id, data, t)
<1>1. e.for = t  OBVIOUS
<1>2. new = ev \/ new = [ev EXCEPT ![t] = Append(@, e)]  BY DEF Pushed
<1> HIDE DEF e, new
<1>3. ev[t] \in Seq(Event) /\ Len(ev[t]) \in Nat  OBVIOUS
<1>4. \A i \in 1..Len(Append(ev[t], e)) : Append(ev[t], e)[i].for = t
  <2> SUFFICES ASSUME NEW i \in 1..Len(Append(ev[t], e)) PROVE Append(ev[t], e)[i].for = t
    OBVIOUS
  <2>1. Len(Append(ev[t], e)) = Len(ev[t]) + 1 /\ Append(ev[t], e)[Len(ev[t]) + 1] = e
    BY <1>3
  <2>2. CASE i = Len(ev[t]) + 1  BY <1>1, <2>1, <2>2
  <2>3. CASE i # Len(ev[t]) + 1
    <3>1. i \in 1..Len(ev[t])  BY <1>3, <2>1, <2>3
    <3>2. Append(ev[t], e)[i] = ev[t][i]  BY <1>3, <3>1
    <3>. QED  BY <3>1, <3>2 DEF Private
  <2>. QED  BY <2>2, <2>3
<1>5. CASE new = ev  BY <1>5 DEF new
<1>6. CASE new = [ev EXCEPT ![t] = Append(@, e)]
  <2>1. new[t] = Append(ev[t], e) /\ \A p \in Procs \ {t} : new[p] = ev[p]  BY <1>6
  <2>2. Private(new)  BY <1>4, <2>1 DEF Private
  <2>. QED  BY <2>1, <2>2 DEF new
<1>. QED  BY <1>2, <1>5, <1>6

\* The parent is the process that is told of a death.
LEMMA ParentTold ==
  ASSUME IInv, PidInv, NEW p \in live, NEW code, parent[p] # NULL, ParentEntry(p) # NULL,
         Reap(p, code)
  PROVE  /\ parent[p] \in live /\ parent[p] # p
         /\ events' = Pushed([events EXCEPT ![p] = <<>>], parent[p], CHILD_KILLED, code,
                             parent[p])
<1>1. parent[p] \in live \ {p}  BY DEF IInv, HierarchyOK, ParentLinks
<1>2. schedulerQueue \in Seq(Procs) /\ NoRepeats(schedulerQueue)
      /\ Items(schedulerQueue) \subseteq live
  BY DEF IInv, TypeOK, TableOK
<1>3. /\ list_remove(schedulerQueue, p) \in Seq(Procs)
      /\ Items(list_remove(schedulerQueue, p)) \subseteq live
  BY <1>2, RemoveType, RemoveItems
<1>4. ParentEntry(p) = parent[p]  BY <1>1, <1>3, FoundRight DEF ParentEntry
<1>. QED  BY <1>1, <1>4 DEF Reap

\* The death of a process empties its queue and tells its parent only.
LEMMA ReapEvents ==
  ASSUME IInv, PidInv, EventInv, NEW p \in live, NEW code, parent[p] # NULL,
         ParentEntry(p) # NULL, Reap(p, code)
  PROVE  EventInv'
<1> DEFINE t == parent[p]
           ev == [events EXCEPT ![p] = <<>>]
<1>1. t \in live /\ t # p /\ events' = Pushed(ev, t, CHILD_KILLED, code, t)  BY ParentTold
<1>2. p \in Procs /\ t \in Procs /\ events \in [Procs -> Seq(Event)]
  BY <1>1 DEF live, IInv, TypeOK
<1>3. live' = live \ {p}  BY Reaped
<1>4. /\ ev \in [Procs -> Seq(Event)] /\ ev[p] = <<>>
      /\ \A q \in Procs \ {p} : ev[q] = events[q]
  <2>1. <<>> \in Seq(Event)  OBVIOUS
  <2>. QED  BY <1>2, <2>1
<1> HIDE DEF ev, t
<1>5. Private(ev)
  <2>1. Len(<<>>) = 0  OBVIOUS
  <2>2. ASSUME NEW i \in 1..Len(ev[p]) PROVE FALSE  BY <1>4, <2>1, <2>2
  <2>. QED  BY <1>4, <2>2 DEF EventInv, Private
<1>6. /\ \A q \in Procs \ {t} : events'[q] = ev[q]
      /\ Private(events')
  <2>1. ev \in [Procs -> Seq(Event)] /\ t \in Procs  BY <1>2, <1>4
  <2>2. events' = Pushed(ev, t, CHILD_KILLED, code, t)  BY <1>1
  <2>. QED  BY ONLY <1>5, <2>1, <2>2, PushedPrivate
<1>7. ASSUME NEW q \in Procs, q \notin live' PROVE events'[q] = <<>>
  BY <1>1, <1>3, <1>4, <1>6, <1>7 DEF EventInv
<1>. QED  BY <1>6, <1>7 DEF EventInv

\* In user mode the process that the search by ID finds is the current one.
LEMMA CurrentFound ==
  ASSUME IInv, PidInv, pc = "user", CurrentEntry # NULL
  PROVE  CurrentEntry = currentProcess /\ currentProcess \in live /\ currentProcess \in Procs
<1>1. currentProcess \in live /\ currentProcess \in Procs  BY DEF IInv, AddressSpacesOK, live
<1>2. schedulerQueue \in Seq(Procs) /\ Items(schedulerQueue) \subseteq live
  BY DEF IInv, TypeOK, TableOK
<1>. QED  BY <1>1, <1>2, FoundRight DEF CurrentEntry

\* Every step leaves every event with the process it is meant for.
LEMMA EventStep ==
  ASSUME IInv, PidInv, EventInv, [Next]_vars
  PROVE  EventInv'
<1> USE DEF infoVars, tableVars, spaceVars, killVars, ghostVars
<1>0. ASSUME UNCHANGED events, live \subseteq live' PROVE EventInv'
  BY <1>0 DEF EventInv
<1>1. CASE Create
  <2> PICK p \in Procs, isThread \in BOOLEAN :
             \/ kprocess_create(p, isThread)
             \/ CreateQueueFull(p, isThread)
             \/ CreateParentNull(p, isThread)
             \/ \E par \in Procs : CreateParentStale(p, isThread, par)
    BY <1>1 DEF Create
  <2>1. CASE CreateParentNull(p, isThread)
    <3>1. UNCHANGED <<pid, events>>  BY <2>1, Zenon DEF CreateParentNull
    <3>2. live' = live  BY <3>1 DEF live
    <3>. QED  BY <1>0, <3>1, <3>2
  <2>2. CASE ~CreateParentNull(p, isThread)
    <3>1. /\ CreateCall(p, isThread) /\ UNCHANGED <<events, leaked>>
          /\ \E st, par : NewInfo(p, isThread, st, par)
      BY <2>2 DEF kprocess_create, CreateQueueFull, CreateParentStale
    <3>2. live' = live \cup {p}  BY <3>1, NewCounted
    <3>. QED  BY <1>0, <3>1, <3>2
  <2>. QED  BY <2>1, <2>2
<1>2. CASE KillChildThread
  <2> DEFINE c == Head(children[victim])
  <2>1. c \in live /\ parent[c] = victim /\ victim \in Procs
    BY <1>2, ChildFacts, VictimFacts DEF KillChildThread
  <2>2. Reap(c, FORCE_KILLED) /\ ParentEntry(c) # NULL  BY <1>2 DEF KillChildThread
  <2> HIDE DEF c
  <2>. QED  BY <2>1, <2>2, ReapEvents, ProcsAssumption
<1>3. CASE KillProcess \/ KillThread
  <2>1. Killing /\ Reap(victim, exitCode) /\ ParentEntry(victim) # NULL
    BY <1>3 DEF KillProcess, KillThread
  <2>. QED  BY <2>1, VictimFacts, ReapEvents
<1>4. CASE keventmanager_invoke
  <2>1. /\ CurrentEntry = currentProcess /\ currentProcess \in live /\ currentProcess \in Procs
        /\ events' = Pushed(events, CurrentEntry, YIELD_REQ, 0, currentProcess)
        /\ UNCHANGED pid
    BY <1>4, CurrentFound DEF keventmanager_invoke
  <2>2. live' = live  BY <2>1 DEF live
  <2>3. events \in [Procs -> Seq(Event)]  BY DEF IInv, TypeOK
  <2>4. Private(events)  BY DEF EventInv
  <2>5. /\ \A q \in Procs \ {currentProcess} : events'[q] = events[q]
        /\ Private(events')
    BY <2>1, <2>3, <2>4, PushedPrivate
  <2>. QED  BY <2>1, <2>2, <2>5 DEF EventInv
<1>5. CASE ksys_processPopEvent
  <2> DEFINE c == currentProcess
  <2>1. /\ c \in live /\ c \in Procs /\ events[c] # <<>>
        /\ events' = [events EXCEPT ![c] = Tail(@)] /\ UNCHANGED pid
    BY <1>5, CurrentFound DEF ksys_processPopEvent
  <2>2. live' = live  BY <2>1 DEF live
  <2>3. events \in [Procs -> Seq(Event)]  BY DEF IInv, TypeOK
  <2> HIDE DEF c
  <2>4. events[c] \in Seq(Event) /\ Len(events[c]) \in Nat /\ Len(events[c]) # 0
    BY <2>1, <2>3
  <2>5. \A i \in 1..Len(Tail(events[c])) :
           i + 1 \in 1..Len(events[c]) /\ Tail(events[c])[i] = events[c][i + 1]
    BY <2>1, <2>4
  <2>6. \A i \in 1..Len(Tail(events[c])) : Tail(events[c])[i].for = c
    BY <2>1, <2>5 DEF EventInv, Private
  <2>7. events'[c] = Tail(events[c]) /\ \A q \in Procs \ {c} : events'[q] = events[q]
    BY <2>1, <2>3
  <2>. QED  BY <2>1, <2>2, <2>6, <2>7 DEF EventInv, Private
<1>6. CASE Exit \/ KillAdoptChild \/ ksys_yieldProcess \/ YieldAgain \/ YieldToSelf \/ YieldSwitch
  <2>1. UNCHANGED <<pid, events>>
    BY <1>6 DEF Exit, kprocess_exit, KillAdoptChild, ksys_yieldProcess, YieldAgain,
                YieldToSelf, YieldSwitch
  <2>2. live' = live  BY <2>1 DEF live
  <2>. QED  BY <1>0, <2>1, <2>2
<1>7. CASE YieldQueueFull \/ PanicStep \/ UNCHANGED vars
  <2>1. UNCHANGED <<pid, events>>
    <3>1. CASE YieldQueueFull  BY <3>1, Zenon DEF YieldQueueFull
    <3>2. CASE PanicStep  BY <3>2, PanicSteps
    <3>3. CASE UNCHANGED vars  BY <3>3 DEF vars
    <3>. QED  BY <1>7, <3>1, <3>2, <3>3
  <2>2. live' = live  BY <2>1 DEF live
  <2>. QED  BY <1>0, <2>1, <2>2
<1>. QED
  BY <1>1, <1>2, <1>3, <1>4, <1>5, <1>6, <1>7 DEF Next, Kill, Yield, Halted, PanicStep

\* If no process is created once one has died, every process finds in its queue only the
\* events that were meant for it. (With creations after a death process IDs are given
\* twice and this fails.)
THEOREM EventsCorrect ==
  ASSUME ~SpawnAfterExit
  PROVE  Spec => []EventsArePrivate
<1>1. Init => PidInv /\ EventInv
  <2> SUFFICES ASSUME Init PROVE PidInv /\ EventInv  OBVIOUS
  <2>1. live = {}  BY DEF Init, live
  <2>2. PidInv  BY <2>1 DEF Init, PidInv
  <2>3. Len(<<>>) = 0  OBVIOUS
  <2>4. \A p \in Procs : events[p] = <<>>  BY DEF Init
  <2>5. EventInv  BY <2>3, <2>4 DEF EventInv, Private
  <2>. QED  BY <2>2, <2>5
<1>2. IInv /\ PidInv /\ EventInv /\ [Next]_vars => PidInv' /\ EventInv'
  <2> SUFFICES ASSUME IInv, PidInv, EventInv, [Next]_vars PROVE PidInv' /\ EventInv'
    OBVIOUS
  <2>1. PidInv'  BY PidStep
  <2>2. EventInv'  BY EventStep
  <2>. QED  BY <2>1, <2>2
<1>3. EventInv => EventsArePrivate  BY DEF EventInv, Private, EventsArePrivate, live
<1>. QED  BY <1>1, <1>2, <1>3, Inductive, PTL DEF Spec

\* What a step in which a process dies owes to its parent.
Announces ==
  \A p \in live \ live' :
    LET q == parent[p]
    IN  HeapHasRoom([events EXCEPT ![p] = <<>>]) =>
          events'[q] = Append(events[q],
                              [event |-> CHILD_KILLED, for |-> q,
                               data |-> IF p = victim THEN exitCode ELSE FORCE_KILLED])

\* kprocess_kill_process tells the parent, with the exit code of this process.
LEMMA ReapAnnounces ==
  ASSUME IInv, PidInv, NEW p \in live, NEW code, parent[p] # NULL, ParentEntry(p) # NULL,
         Reap(p, code), code = IF p = victim THEN exitCode ELSE FORCE_KILLED
  PROVE  Announces
<1> DEFINE q == parent[p]
           ev == [events EXCEPT ![p] = <<>>]
           e == [event |-> CHILD_KILLED, data |-> code, for |-> q]
<1>1. live' = live \ {p}  BY Reaped
<1>2. q \in live /\ q # p /\ events' = Pushed(ev, q, CHILD_KILLED, code, q)  BY ParentTold
<1>3. HeapHasRoom(ev) => events' = [ev EXCEPT ![q] = Append(@, e)]  BY <1>2 DEF Pushed
<1>4. events \in [Procs -> Seq(Event)] /\ p \in Procs /\ q \in Procs
  BY <1>2 DEF live, IInv, TypeOK
<1>5. q \in DOMAIN ev /\ ev[q] = events[q]  BY <1>2, <1>4
<1>6. e = [event |-> CHILD_KILLED, for |-> q, data |-> code]  OBVIOUS
<1> HIDE DEF e
<1>7. HeapHasRoom(ev) => events'[q] = Append(events[q], e)
  <2> HIDE DEF ev
  <2>. QED  BY <1>3, <1>5
<1> SUFFICES ASSUME NEW r \in live \ live', HeapHasRoom([events EXCEPT ![r] = <<>>])
             PROVE  events'[parent[r]] =
                      Append(events[parent[r]],
                             [event |-> CHILD_KILLED, for |-> parent[r],
                              data |-> IF r = victim THEN exitCode ELSE FORCE_KILLED])
  BY DEF Announces
<1>8. r = p  BY <1>1
<1>. QED  BY <1>6, <1>7, <1>8

\* Every step announces the deaths in it.
LEMMA AnnounceStep ==
  ASSUME IInv, PidInv, [Next]_vars
  PROVE  Announces
<1> USE DEF infoVars, tableVars, spaceVars, killVars, ghostVars
<1>0. ASSUME live \subseteq live' PROVE Announces  BY <1>0 DEF Announces
<1>1. CASE Create
  <2> PICK p \in Procs, isThread \in BOOLEAN :
             \/ kprocess_create(p, isThread)
             \/ CreateQueueFull(p, isThread)
             \/ CreateParentNull(p, isThread)
             \/ \E par \in Procs : CreateParentStale(p, isThread, par)
    BY <1>1 DEF Create
  <2>1. CASE CreateParentNull(p, isThread)
    <3>1. UNCHANGED pid  BY <2>1, Zenon DEF CreateParentNull
    <3>. QED  BY <1>0, <3>1 DEF live
  <2>2. CASE ~CreateParentNull(p, isThread)
    <3>1. /\ CreateCall(p, isThread) /\ UNCHANGED leaked
          /\ \E st, par : NewInfo(p, isThread, st, par)
      BY <2>2 DEF kprocess_create, CreateQueueFull, CreateParentStale
    <3>2. live' = live \cup {p}  BY <3>1, NewCounted
    <3>. QED  BY <1>0, <3>2
  <2>. QED  BY <2>1, <2>2
<1>2. CASE KillChildThread
  <2> DEFINE c == Head(children[victim])
  <2>1. c \in live /\ c # victim /\ parent[c] = victim /\ victim \in Procs
    BY <1>2, ChildFacts, VictimFacts DEF KillChildThread
  <2>2. Reap(c, FORCE_KILLED) /\ ParentEntry(c) # NULL  BY <1>2 DEF KillChildThread
  <2> HIDE DEF c
  <2>. QED  BY <2>1, <2>2, ReapAnnounces, ProcsAssumption
<1>3. CASE KillProcess \/ KillThread
  <2>1. Killing /\ Reap(victim, exitCode) /\ ParentEntry(victim) # NULL
    BY <1>3 DEF KillProcess, KillThread
  <2>. QED  BY <2>1, VictimFacts, ReapAnnounces
<1>4. CASE \/ Exit \/ KillAdoptChild \/ ksys_yieldProcess \/ YieldAgain \/ YieldToSelf
           \/ YieldSwitch \/ keventmanager_invoke \/ ksys_processPopEvent
  <2>1. UNCHANGED pid
    BY <1>4 DEF Exit, kprocess_exit, KillAdoptChild, ksys_yieldProcess, YieldAgain,
                YieldToSelf, YieldSwitch, keventmanager_invoke, ksys_processPopEvent
  <2>. QED  BY <1>0, <2>1 DEF live
<1>5. CASE YieldQueueFull \/ PanicStep \/ UNCHANGED vars
  <2>1. UNCHANGED pid
    <3>1. CASE YieldQueueFull  BY <3>1, Zenon DEF YieldQueueFull
    <3>2. CASE PanicStep  BY <3>2, PanicSteps
    <3>3. CASE UNCHANGED vars  BY <3>3 DEF vars
    <3>. QED  BY <1>5, <3>1, <3>2, <3>3
  <2>. QED  BY <1>0, <2>1 DEF live
<1>. QED
  BY <1>1, <1>2, <1>3, <1>4, <1>5 DEF Next, Kill, Yield, Halted, PanicStep

\* If no process is created once one has died, kprocess_kill_process tells exactly the
\* parent of the process that dies, with its exit code, while the heap has room.
THEOREM DeathsCorrect ==
  ASSUME ~SpawnAfterExit
  PROVE  Spec => DeathIsAnnounced
<1>1. Init => PidInv
  <2> SUFFICES ASSUME Init PROVE PidInv  OBVIOUS
  <2>1. live = {}  BY DEF Init, live
  <2>. QED  BY <2>1 DEF Init, PidInv
<1>2. IInv /\ PidInv /\ [Next]_vars => PidInv'  BY PidStep
<1>3. IInv /\ PidInv /\ [Next]_vars => [Announces]_vars  BY AnnounceStep
<1>4. Spec => [][Announces]_vars  BY <1>1, <1>2, <1>3, Inductive, PTL DEF Spec
<1>. QED  BY <1>4 DEF DeathIsAnnounced, Announces
=============================================================================
