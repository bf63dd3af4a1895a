------------------------------ MODULE Process ------------------------------
(***************************************************************************)
(* Process management of the kernel (src/kernel/x86/process.c): the table  *)
(* of KProcessInfo objects, the process hierarchy, the scheduler queue,    *)
(* the events queues and the address space loaded in CR3.                  *)
(*                                                                         *)
(* System calls and interrupts enter the kernel through interrupt gates,   *)
(* so kernel code is never preempted: `pc' says which kernel routine is    *)
(* running, and the timer interrupt only happens while pc = "user".        *)
(* Straight-line kernel code is one action; the two loops of the file (the *)
(* do-while of kprocess_yield, the loop over the children in               *)
(* kprocess_kill_process) take one action per iteration.                   *)
(***************************************************************************)
EXTENDS Naturals, FiniteSets, Sequences, IntrusiveList

CONSTANTS
  Procs,              \* addresses at which kmalloc may place a KProcessInfo
  NULL,               \* the null KProcessInfo pointer
  KERNEL,             \* the kernel's own address space, g_kstate.context
  MAX_PROCESS_COUNT,
  ExitCodes,          \* codes that applications pass to exit and abort
  MaxEvents,          \* bound: the kernel heap has memory for this many events
  Faults,             \* steps of kprocess_create that may run out of memory
  SpawnAfterExit      \* may applications create processes once one has died?

ASSUME ProcsAssumption == IsFiniteSet(Procs) /\ NULL \notin Procs /\ KERNEL \notin Procs
ASSUME MaxAssumption == MAX_PROCESS_COUNT \in Nat /\ MAX_PROCESS_COUNT > 1
ASSUME BoundAssumption == MaxEvents \in Nat
ASSUME CodesAssumption == ExitCodes \subseteq Nat
ASSUME FaultsAssumption == Faults \subseteq {"info", "context", "sections"}
ASSUME SpawnAssumption == SpawnAfterExit \in BOOLEAN

VARIABLES
  \* fields of the KProcessInfo at each address; pid 0 marks a free address
  pid, thread, state, parent, children, events, context,
  \* static variables of the file
  processCount, currentProcess, rootProcess, schedulerQueue,
  \* address spaces (a VMemoryManager and its page directory) that exist,
  \* named by the process made for them; the one that CR3 points to
  spaces, cr3,
  \* kernel control: routine, the process that kprocess_kill_process removes,
  \* its exit code, and whether the freed current KProcessInfo was written over
  pc, victim, exitCode, clobbered,
  \* history: addresses lost by failed creations; has any process died?
  leaked, someDied

infoVars  == <<pid, thread, state, parent, children, events, context>>
tableVars == <<processCount, currentProcess, rootProcess, schedulerQueue>>
spaceVars == <<spaces, cr3>>
killVars  == <<victim, exitCode, clobbered>>
ghostVars == <<leaked, someDied>>
vars == <<infoVars, tableVars, spaceVars, pc, killVars, ghostVars>>

FORCE_KILLED == 255     \* KPROCESS_EXIT_CODE_FORCE_KILLED
YIELD_REQ    == "PROCCESS_YIELD_REQ"
CHILD_KILLED == "PROCCESS_CHILD_KILLED"

Codes == ExitCodes \cup {0, FORCE_KILLED}

\* `for' is history: the process the kernel meant the event for.
Event == [event : {YIELD_REQ, CHILD_KILLED}, data : Codes, for : Procs]

Routines == {"boot", "user", "yield", "exit", "undo"}
Panics   == {"root not created", "null pointer", "wild pointer", "invalid PID",
             "current PD deleted", "queue empty", "return to dead process"}

live == {p \in Procs : pid[p] # 0}

-----------------------------------------------------------------------------
(* Pure helpers *)

\* Definitions named Mut_... are faulty variants of the definition that follows
\* them. No action uses them: they show that the properties notice the fault.

\* The search stops at the first larger process ID too.
Mut_getProcessInfoFromID(q, n) ==
  IF \E i \in 1..Len(q) : pid[q[i]] >= n
  THEN q[CHOOSE i \in 1..Len(q) : /\ pid[q[i]] >= n
                                  /\ \A j \in 1..(i - 1) : pid[q[j]] < n]
  ELSE NULL

\* The first process of queue q with process ID n, NULL if there is none.
s_getProcessInfoFromID(q, n) ==
  IF \E i \in 1..Len(q) : pid[q[i]] = n
  THEN q[CHOOSE i \in 1..Len(q) : /\ pid[q[i]] = n
                                  /\ \A j \in 1..(i - 1) : pid[q[j]] # n]
  ELSE NULL

\* Threads own what they create.
Mut_Owner(p) == p

\* Whose child does a process created (or adopted) by p become?
Owner(p) == IF thread[p] THEN parent[p] ELSE p

\* Does kmalloc find memory for one more event when the queues hold ev?
HeapHasRoom(ev) ==
  Cardinality(UNION {{p} \X (1..Len(ev[p])) : p \in Procs}) < MaxEvents

\* The events queues after kprocess_pushEvent to process q of an event that is
\* meant for process p; without memory the event is dropped.
Pushed(ev, q, id, data, p) ==
  IF HeapHasRoom(ev)
  THEN [ev EXCEPT ![q] = Append(@, [event |-> id, data |-> data, for |-> p])]
  ELSE ev

-----------------------------------------------------------------------------
Init ==
  /\ pid      = [p \in Procs |-> 0]
  /\ thread   = [p \in Procs |-> FALSE]
  /\ state    = [p \in Procs |-> "INVALID"]
  /\ parent   = [p \in Procs |-> NULL]
  /\ children = [p \in Procs |-> <<>>]
  /\ events   = [p \in Procs |-> <<>>]
  /\ context  = [p \in Procs |-> KERNEL]
  /\ processCount = 0
  /\ currentProcess = NULL
  /\ rootProcess = NULL
  /\ schedulerQueue = <<>>
  /\ spaces = {KERNEL}
  /\ cr3 = KERNEL
  /\ pc = "boot"
  /\ victim = NULL
  /\ exitCode = 0
  /\ clobbered = FALSE
  /\ leaked = {}
  /\ someDied = FALSE

Panic(why) ==
  /\ pc' = why
  /\ UNCHANGED <<infoVars, tableVars, spaceVars, killVars, ghostVars>>

-----------------------------------------------------------------------------
(* kprocess_create *)

kprocess_getCurrentContext ==
  IF currentProcess = NULL THEN KERNEL ELSE context[currentProcess]

\* The three early returns; a create that takes one of them changes nothing.
CreateAllowed(isThread) ==
  /\ processCount # MAX_PROCESS_COUNT
  /\ ~(currentProcess = NULL /\ isThread)
  /\ ~(currentProcess = NULL /\ processCount > 0)

\* A process calls create, or the kernel does for the root process; kmalloc
\* returns address p.
CreateCall(p, isThread) ==
  /\ pc \in {"boot", "user"}
  /\ CreateAllowed(isThread)
  /\ SpawnAfterExit \/ ~someDied
  /\ pid[p] = 0 /\ p \notin leaked

\* The fields that s_processInfo_malloc, the page directory step and the memory
\* sections set, with `par' as the parent the new process ends up with.
NewInfo(p, isThread, st, par) ==
  /\ processCount' = processCount + 1
  /\ pid'     = [pid EXCEPT ![p] = processCount + 1]
  /\ thread'  = [thread EXCEPT ![p] = isThread]
  /\ state'   = [state EXCEPT ![p] = st]
  /\ parent'  = [parent EXCEPT ![p] = par]
  /\ context' = [context EXCEPT ![p] = IF isThread THEN kprocess_getCurrentContext ELSE p]
  /\ spaces'  = IF isThread THEN spaces ELSE spaces \cup {p}

\* change_parent_process(p, currentProcess), or no parent for the root process.
LinkToCurrent(p) ==
  children' = IF currentProcess = NULL
              THEN children
              ELSE [children EXCEPT ![Owner(currentProcess)] = Append(@, p)]

NewParent == IF currentProcess = NULL THEN NULL ELSE Owner(currentProcess)

\* Everything succeeds. run_root_process goes on with kprocess_yield.
kprocess_create(p, isThread) ==
  /\ CreateCall(p, isThread)
  /\ processCount + 1 < MAX_PROCESS_COUNT
  /\ NewInfo(p, isThread, "IDLE", NewParent)
  /\ LinkToCurrent(p)
  /\ schedulerQueue' = Append(schedulerQueue, p)
  /\ pc' = IF pc = "boot" THEN "yield" ELSE "user"
  /\ UNCHANGED <<events, currentProcess, rootProcess, cr3, killVars, ghostVars>>

\* s_enqueue refuses the new process; the failure path kills it.
CreateQueueFull(p, isThread) ==
  /\ CreateCall(p, isThread)
  /\ processCount + 1 >= MAX_PROCESS_COUNT
  /\ NewInfo(p, isThread, "IDLE", NewParent)
  /\ LinkToCurrent(p)
  /\ victim' = p
  /\ exitCode' = FORCE_KILLED
  /\ pc' = "undo"
  /\ UNCHANGED <<events, currentProcess, rootProcess, schedulerQueue, cr3,
                 clobbered, ghostVars>>

\* No memory for the KProcessInfo or its registers: the failure path follows a
\* NULL pinfo, except for the root process, whose failure run_root_process sees.
CreateNoInfo ==
  /\ "info" \in Faults
  /\ \E p \in Procs, t \in BOOLEAN : CreateCall(p, t)
  /\ Panic(IF processCount = 0 THEN "root not created" ELSE "null pointer")

\* No memory for the address space or for a section in it. pinfo->parent has
\* not been assigned yet and kmalloc does not clear memory, so the failure path
\* reads what the previous owner of the block left there: a NULL (kill refuses
\* and the block stays), some live process, or anything else.
CreateParentNull(p, isThread) ==
  /\ CreateCall(p, isThread)
  /\ \/ "context" \in Faults /\ ~isThread /\ UNCHANGED spaces
     \/ "sections" \in Faults /\ spaces' = IF isThread THEN spaces ELSE spaces \cup {p}
  /\ processCount' = processCount + 1
  /\ leaked' = leaked \cup {p}
  /\ pc' = IF pc = "boot" THEN "root not created" ELSE pc
  /\ UNCHANGED <<infoVars, currentProcess, rootProcess, schedulerQueue, cr3,
                 killVars, someDied>>

CreateParentStale(p, isThread, par) ==
  /\ CreateCall(p, isThread)
  /\ "sections" \in Faults
  /\ par \in live
  /\ NewInfo(p, isThread, "INVALID", par)
  /\ victim' = p
  /\ exitCode' = FORCE_KILLED
  /\ pc' = "undo"
  /\ UNCHANGED <<children, events, currentProcess, rootProcess, schedulerQueue,
                 cr3, clobbered, ghostVars>>

CreateParentWild ==
  /\ Faults \cap {"context", "sections"} # {}
  /\ \E p \in Procs, t \in BOOLEAN : CreateCall(p, t)
  /\ Panic("wild pointer")

-----------------------------------------------------------------------------
(* kprocess_exit and kprocess_kill_process *)

\* destroyContext distinguishes abort from exit. The kill of a process without
\* a parent is refused: the call returns to the caller and nothing changes.
kprocess_exit(code, destroyContext) ==
  LET process == IF destroyContext /\ parent[currentProcess] # NULL
                                   /\ thread[currentProcess]
                 THEN parent[currentProcess]
                 ELSE currentProcess
  IN  /\ pc = "user"
      /\ parent[process] # NULL
      /\ victim' = process
      /\ exitCode' = code
      /\ pc' = "exit"
      /\ UNCHANGED <<infoVars, tableVars, spaceVars, clobbered, ghostVars>>

Killing == pc \in {"exit", "undo"}

\* The root process is told instead of the parent.
Mut_ParentEntry(p) ==
  s_getProcessInfoFromID(list_remove(schedulerQueue, p), pid[rootProcess])

\* The end of kprocess_kill_process for process p: its events are freed, it
\* leaves its parent's list and the scheduler queue, its parent is told, and
\* the KProcessInfo is freed.
ParentEntry(p) ==
  s_getProcessInfoFromID(list_remove(schedulerQueue, p), pid[parent[p]])

\* A process that kprocess_yield dropped has a NULL schedulerQueueNode, and to
\* unlink it faults; the node of one that was never queued points to itself.
Unlinkable(p) == p \in Items(schedulerQueue) \/ pc = "undo"

Reap(p, code) ==
  /\ schedulerQueue' = list_remove(schedulerQueue, p)
  /\ children' = [children EXCEPT ![p] = <<>>, ![parent[p]] = list_remove(@, p)]
  /\ events' = Pushed([events EXCEPT ![p] = <<>>], ParentEntry(p), CHILD_KILLED,
                      code, parent[p])
  /\ pid'     = [pid EXCEPT ![p] = 0]
  /\ thread'  = [thread EXCEPT ![p] = FALSE]
  /\ state'   = [state EXCEPT ![p] = "INVALID"]
  /\ parent'  = [parent EXCEPT ![p] = NULL]
  /\ context' = [context EXCEPT ![p] = KERNEL]
  /\ processCount' = processCount - 1
  /\ someDied' = (someDied \/ pc = "exit")

\* Where the call of kprocess_kill_process returns to: kprocess_exit forgets the
\* current process and yields, kprocess_create returns its error.
KillReturns ==
  /\ pc' = IF pc = "exit" THEN "yield" ELSE "user"
  /\ currentProcess' = IF pc = "exit" THEN NULL ELSE currentProcess
  /\ victim' = NULL
  /\ exitCode' = 0
  /\ clobbered' = FALSE

\* Threads are adopted like other children.
Mut_KillAdoptChild ==
  LET c == Head(children[victim])
  IN  /\ Killing /\ ~thread[victim]
      /\ children[victim] # <<>>
      /\ parent' = [parent EXCEPT ![c] = Owner(rootProcess)]
      /\ children' = [children EXCEPT ![victim] = Tail(@),
                                      ![Owner(rootProcess)] = Append(@, c)]
      /\ UNCHANGED <<pid, thread, state, events, context, tableVars, spaceVars, pc,
                     killVars, ghostVars>>

\* Loop over the children, first child not a thread: the root adopts it.
KillAdoptChild ==
  LET c == Head(children[victim])
  IN  /\ Killing /\ ~thread[victim]
      /\ children[victim] # <<>>
      /\ ~thread[c]
      /\ parent' = [parent EXCEPT ![c] = Owner(rootProcess)]
      /\ children' = [children EXCEPT ![victim] = Tail(@),
                                      ![Owner(rootProcess)] = Append(@, c)]
      /\ UNCHANGED <<pid, thread, state, events, context, tableVars, spaceVars, pc,
                     killVars, ghostVars>>

\* Loop over the children, first child a thread: it is killed. When the current
\* thread has been freed by an earlier iteration, the event pushed here may be
\* allocated over its KProcessInfo.
KillChildThread ==
  LET c == Head(children[victim])
  IN  /\ Killing /\ ~thread[victim]
      /\ children[victim] # <<>>
      /\ thread[c]
      /\ Unlinkable(c) /\ ParentEntry(c) # NULL
      /\ Reap(c, FORCE_KILLED)
      /\ clobbered' \in {clobbered} \cup
           (IF currentProcess \notin live /\ HeapHasRoom([events EXCEPT ![c] = <<>>])
            THEN {TRUE} ELSE {})
      /\ UNCHANGED <<currentProcess, rootProcess, spaceVars, pc, victim, exitCode,
                     leaked>>

\* Does kprocess_kill_process find the victim's address space current, or not? A
\* freed current KProcessInfo was a thread of the victim; once it has been
\* written over its context field holds anything.
SeesContext ==
  currentProcess \in live => context[currentProcess] = context[victim]

MissesContext ==
  IF currentProcess \in live THEN context[currentProcess] # context[victim] ELSE clobbered

\* After the loop: switch to the kernel page directory, delete the address
\* space and reap the process.
KillProcess ==
  /\ Killing /\ ~thread[victim]
  /\ children[victim] = <<>>
  /\ Unlinkable(victim) /\ ParentEntry(victim) # NULL
  /\ \/ SeesContext /\ cr3' = KERNEL
     \/ MissesContext /\ cr3 # context[victim] /\ UNCHANGED cr3
  /\ spaces' = spaces \ {context[victim]}
  /\ Reap(victim, exitCode)
  /\ KillReturns
  /\ UNCHANGED <<rootProcess, leaked>>

\* kpg_deletePageDirectory asserts that CR3 does not point to the directory.
KillDeletesCurrentPD ==
  /\ Killing /\ ~thread[victim]
  /\ children[victim] = <<>>
  /\ MissesContext
  /\ cr3 = context[victim]
  /\ Panic("current PD deleted")

\* A thread only loses its stack.
KillThread ==
  /\ Killing /\ thread[victim]
  /\ Unlinkable(victim) /\ ParentEntry(victim) # NULL
  /\ Reap(victim, exitCode)
  /\ KillReturns
  /\ UNCHANGED <<rootProcess, spaceVars, leaked>>

\* The process that this turn of kprocess_kill_process frees, if it frees one.
Doomed == IF thread[victim] \/ children[victim] = <<>>
          THEN victim ELSE Head(children[victim])

Dies ==
  /\ Killing
  /\ Doomed = victim \/ thread[Doomed]
  /\ Doomed = victim /\ ~thread[victim] =>
       SeesContext \/ cr3 # context[victim]

KillNotQueued ==
  /\ Dies
  /\ ~Unlinkable(Doomed)
  /\ Panic("null pointer")

\* kprocess_pushEvent asserts that the parent's process ID is in the queue.
KillParentNotQueued ==
  /\ Dies
  /\ Unlinkable(Doomed)
  /\ ParentEntry(Doomed) = NULL
  /\ Panic("invalid PID")

-----------------------------------------------------------------------------
(* kprocess_yield *)

ksys_yieldProcess ==
  /\ pc = "user"
  /\ pc' = "yield"
  /\ UNCHANGED <<infoVars, tableVars, spaceVars, killVars, ghostVars>>

IsCurrentPid(p) == currentProcess # NULL /\ pid[p] = pid[currentProcess]

\* enqueue_front instead of enqueue.
Mut_YieldAgain ==
  /\ pc = "yield"
  /\ schedulerQueue # <<>>
  /\ processCount < MAX_PROCESS_COUNT
  /\ processCount > 1 /\ IsCurrentPid(Head(schedulerQueue))
  /\ UNCHANGED vars

\* One more turn of the do-while: the process found is the current one.
YieldAgain ==
  /\ pc = "yield"
  /\ schedulerQueue # <<>>
  /\ processCount < MAX_PROCESS_COUNT
  /\ processCount > 1 /\ IsCurrentPid(Head(schedulerQueue))
  /\ schedulerQueue' = Append(Tail(schedulerQueue), Head(schedulerQueue))
  /\ UNCHANGED <<infoVars, processCount, currentProcess, rootProcess, spaceVars,
                 pc, killVars, ghostVars>>

\* The process is not put back.
Mut_YieldToSelf ==
  /\ pc = "yield"
  /\ schedulerQueue # <<>>
  /\ processCount < MAX_PROCESS_COUNT
  /\ processCount <= 1 /\ IsCurrentPid(Head(schedulerQueue))
  /\ schedulerQueue' = Tail(schedulerQueue)
  /\ pc' = "user"
  /\ UNCHANGED <<infoVars, processCount, currentProcess, rootProcess, spaceVars,
                 killVars, ghostVars>>

\* The only process goes on running.
YieldToSelf ==
  /\ pc = "yield"
  /\ schedulerQueue # <<>>
  /\ processCount < MAX_PROCESS_COUNT
  /\ processCount <= 1 /\ IsCurrentPid(Head(schedulerQueue))
  /\ schedulerQueue' = Append(Tail(schedulerQueue), Head(schedulerQueue))
  /\ pc' = "user"
  /\ UNCHANGED <<infoVars, processCount, currentProcess, rootProcess, spaceVars,
                 killVars, ghostVars>>

\* The process is put back second instead of last.
Mut_YieldSwitchOrder ==
  LET next == Head(schedulerQueue)
      rest == Tail(schedulerQueue)
  IN  /\ pc = "yield"
      /\ schedulerQueue # <<>>
      /\ processCount < MAX_PROCESS_COUNT
      /\ ~IsCurrentPid(next)
      /\ schedulerQueue' = IF rest = <<>> THEN <<next>>
                           ELSE <<Head(rest), next>> \o Tail(rest)
      /\ state' = [p \in Procs |-> IF p = next THEN "RUNNING"
                                   ELSE IF p = currentProcess THEN "IDLE"
                                   ELSE state[p]]
      /\ currentProcess' = next
      /\ rootProcess' = IF parent[next] = NULL THEN next ELSE rootProcess
      /\ cr3' = context[next]
      /\ pc' = "user"
      /\ UNCHANGED <<pid, thread, parent, children, events, context, processCount,
                     spaces, killVars, ghostVars>>

\* s_switchProcess to the process found. (Its k_assert that the page directory
\* of that process is an allocated page is a part of AddressSpacesOK.)
YieldSwitch ==
  LET next == Head(schedulerQueue)
  IN  /\ pc = "yield"
      /\ schedulerQueue # <<>>
      /\ processCount < MAX_PROCESS_COUNT
      /\ ~IsCurrentPid(next)
      /\ schedulerQueue' = Append(Tail(schedulerQueue), next)
      /\ state' = [p \in Procs |-> IF p = next THEN "RUNNING"
                                   ELSE IF p = currentProcess THEN "IDLE"
                                   ELSE state[p]]
      /\ currentProcess' = next
      /\ rootProcess' = IF parent[next] = NULL THEN next ELSE rootProcess
      /\ cr3' = context[next]
      /\ pc' = "user"
      /\ UNCHANGED <<pid, thread, parent, children, events, context, processCount,
                     spaces, killVars, ghostVars>>

\* s_enqueue refuses the process that was just dequeued: it is in no queue any
\* more and the yield returns false, to a process that kprocess_exit has freed
\* when it is kprocess_exit that yields.
YieldQueueFull ==
  /\ pc = "yield"
  /\ schedulerQueue # <<>>
  /\ processCount >= MAX_PROCESS_COUNT
  /\ schedulerQueue' = Tail(schedulerQueue)
  /\ pc' = IF currentProcess = NULL THEN "return to dead process" ELSE "user"
  /\ UNCHANGED <<infoVars, processCount, currentProcess, rootProcess, spaceVars,
                 killVars, ghostVars>>

YieldQueueEmpty ==
  /\ pc = "yield"
  /\ schedulerQueue = <<>>
  /\ Panic("queue empty")

-----------------------------------------------------------------------------
(* Events *)

CurrentEntry == s_getProcessInfoFromID(schedulerQueue, pid[currentProcess])

\* The timer interrupt asks the current process to yield, by its process ID.
keventmanager_invoke ==
  /\ pc = "user"
  /\ CurrentEntry # NULL
  /\ events' = Pushed(events, CurrentEntry, YIELD_REQ, 0, currentProcess)
  /\ UNCHANGED <<pid, thread, state, parent, children, context, tableVars,
                 spaceVars, pc, killVars, ghostVars>>

\* A pop from an empty queue reports no event and changes nothing.
ksys_processPopEvent ==
  /\ pc = "user"
  /\ CurrentEntry # NULL
  /\ events[CurrentEntry] # <<>>
  /\ events' = [events EXCEPT ![CurrentEntry] = Tail(@)]
  /\ UNCHANGED <<pid, thread, state, parent, children, context, tableVars,
                 spaceVars, pc, killVars, ghostVars>>

EventPidInvalid ==
  /\ pc = "user"
  /\ CurrentEntry = NULL
  /\ Panic("invalid PID")

-----------------------------------------------------------------------------
\* k_panic halts the machine.
Halted == pc \in Panics /\ UNCHANGED vars

Create ==
  \E p \in Procs, isThread \in BOOLEAN :
    \/ kprocess_create(p, isThread)
    \/ CreateQueueFull(p, isThread)
    \/ CreateParentNull(p, isThread)
    \/ \E par \in Procs : CreateParentStale(p, isThread, par)

Exit == \E code \in ExitCodes, destroyContext \in BOOLEAN :
          kprocess_exit(code, destroyContext)

Kill == \/ KillAdoptChild \/ KillChildThread \/ KillProcess
        \/ KillDeletesCurrentPD \/ KillThread
        \/ KillNotQueued \/ KillParentNotQueued

Yield == \/ YieldAgain \/ YieldToSelf \/ YieldSwitch
         \/ YieldQueueFull \/ YieldQueueEmpty

Next ==
  \/ Create \/ CreateNoInfo \/ CreateParentWild
  \/ Exit \/ Kill
  \/ ksys_yieldProcess \/ Yield
  \/ keventmanager_invoke \/ ksys_processPopEvent \/ EventPidInvalid
  \/ Halted

Spec == Init /\ [][Next]_vars

-----------------------------------------------------------------------------
(* Fairness. Kernel code runs to its end: nothing preempts it. *)
KernelSpec == Spec /\ WF_vars(Kill \/ Yield)

\* Applications cooperate: a process that goes on running yields again and
\* again, which cm_process_handle_events does when it is called regularly.
CooperativeSpec == KernelSpec /\ SF_vars(ksys_yieldProcess)

-----------------------------------------------------------------------------
(* Invariants *)

\* Every variable has its type; processCount and the process IDs stay in range.
TypeOK ==
  /\ pid \in [Procs -> 0..MAX_PROCESS_COUNT]
  /\ thread \in [Procs -> BOOLEAN]
  /\ state \in [Procs -> {"INVALID", "IDLE", "RUNNING"}]
  /\ parent \in [Procs -> Procs \cup {NULL}]
  /\ children \in [Procs -> Seq(Procs)]
  /\ events \in [Procs -> Seq(Event)]
  /\ context \in [Procs -> Procs \cup {KERNEL}]
  /\ processCount \in 0..MAX_PROCESS_COUNT
  /\ currentProcess \in Procs \cup {NULL}
  /\ rootProcess \in Procs \cup {NULL}
  /\ schedulerQueue \in Seq(Procs)
  /\ spaces \in SUBSET (Procs \cup {KERNEL})
  /\ cr3 \in Procs \cup {KERNEL}
  /\ pc \in Routines \cup Panics
  /\ victim \in Procs \cup {NULL}
  /\ exitCode \in Codes
  /\ clobbered \in BOOLEAN
  /\ leaked \in SUBSET Procs
  /\ someDied \in BOOLEAN

\* A process whose creation failed and is being undone may be in no children
\* list and have a stale parent.
Undoing(p) == p = victim /\ pc \in {"undo"} \cup Panics

\* The scheduler queue holds every process once and no freed KProcessInfo, and
\* processCount counts the KProcessInfo objects that exist, lost ones included.
TableOK ==
  /\ NoRepeats(schedulerQueue)
  /\ Items(schedulerQueue) \subseteq live
  /\ live \cap leaked = {}
  /\ processCount = Cardinality(live \cup leaked)

\* There is at most one process without a parent, the root.
OneRoot ==
  /\ \A p, q \in live : parent[p] = NULL /\ parent[q] = NULL => p = q
  /\ rootProcess # NULL => rootProcess \in live /\ parent[rootProcess] = NULL

ParentLinks ==
  \A p \in live :
    /\ thread[p] => parent[p] # NULL /\ children[p] = <<>>
    /\ parent[p] # NULL =>
         /\ parent[p] \in live \ {p}
         /\ \/ Undoing(p)
            \/ ~thread[parent[p]] /\ p \in Items(children[parent[p]])

ChildLinks ==
  \A p \in Procs :
    /\ NoRepeats(children[p])
    /\ \A c \in Items(children[p]) : c \in live /\ parent[c] = p

\* There is one process without a parent, the root, and it is no thread; every
\* parent is alive and no thread; the children lists say the same as the parent
\* pointers; threads have no children (k_assert "Threads cannot have children").
HierarchyOK == OneRoot /\ ParentLinks /\ ChildLinks

\* No process outlives its address space: a thread runs in its parent's, any
\* other process in its own, both exist, and address spaces that exist belong
\* to someone. CR3 always points to an existing page directory (k_assert
\* "Cannot delete the current PD"), in user mode to the current process's.
AddressSpacesOK ==
  /\ \A p \in live :
       /\ context[p] \in spaces \ {KERNEL}
       /\ ~thread[p] => context[p] = p
       /\ thread[p] /\ ~Undoing(p) => context[p] = parent[p]
  /\ spaces \ {KERNEL} \subseteq {p \in live : ~thread[p]} \cup leaked
  /\ cr3 \in spaces
  /\ pc = "user" => currentProcess \in live /\ cr3 = context[currentProcess]

\* What the routine that runs relies on: a process that is being killed is alive
\* and not the root; an undone one has no children and is not the current one;
\* whoever adopts children is known; a yield that finds nobody else returns to a
\* process that is alive, in its address space.
ControlOK ==
  /\ KERNEL \in spaces
  /\ pc = "boot" => processCount = 0 /\ currentProcess = NULL
  /\ Killing => victim \in live /\ parent[victim] # NULL
  /\ pc = "undo" => children[victim] = <<>> /\ victim # currentProcess
  /\ pc \in {"user", "exit", "undo"} => currentProcess # NULL
  /\ currentProcess # NULL => rootProcess # NULL
  /\ pc \in {"user", "yield", "undo"} /\ currentProcess # NULL =>
       currentProcess \in live /\ cr3 = context[currentProcess]
  /\ pc = "yield" /\ rootProcess = NULL => \A p \in live : parent[p] = NULL

\* In user mode the running process, and no other, has state RUNNING.
RunningIsCurrent ==
  pc = "user" => \A p \in live : state[p] = "RUNNING" <=> p = currentProcess

\* Unless a failed creation has lost a process, every process waits in the scheduler
\* queue, and the process table never reaches its limit.
NoneForgotten ==
  pc \in {"user", "yield"} /\ leaked = {} =>
    /\ Items(schedulerQueue) = live
    /\ processCount = Len(schedulerQueue)
    /\ processCount < MAX_PROCESS_COUNT

\* What holds through every interleaving of create, exit, abort and yield, with a
\* creation that fails at any of its steps: the table counts what exists, and the
\* routine that runs finds what it relies on.
KernelStateOK == TypeOK /\ TableOK /\ ControlOK

\* The scheduler knows who runs and forgets nobody who could.
Scheduled == RunningIsCurrent /\ NoneForgotten

-----------------------------------------------------------------------------
(* What a step may never do *)

\* The death of a child is told to its parent with the exit code that goes with
\* it, unless the heap has no room for the event.
DeathIsAnnounced ==
  [][\A p \in live \ live' :
       LET q == parent[p]
       IN  HeapHasRoom([events EXCEPT ![p] = <<>>]) =>
             events'[q] = Append(events[q],
                                 [event |-> CHILD_KILLED, for |-> q,
                                  data |-> IF p = victim THEN exitCode ELSE FORCE_KILLED])
    ]_vars

\* "Every process & thread have separate events queue": an event that a process
\* finds in its queue is one that was meant for it.
EventsArePrivate ==
  \A p \in live : \A i \in 1..Len(events[p]) : events[p][i].for = p

-----------------------------------------------------------------------------
(* Liveness *)

\* Every system call returns to user mode, of some process, or panics: neither
\* the loop of kprocess_yield nor the one over the children runs forever.
KernelReturns == (pc \in {"yield", "exit", "undo"}) ~> (pc \in {"user"} \cup Panics)

\* Every process in the scheduler queue runs again, unless it dies first.
NoStarvation ==
  \A p \in Procs :
    p \in live ~> (currentProcess = p \/ p \notin live \/ pc \in Panics)

=============================================================================
