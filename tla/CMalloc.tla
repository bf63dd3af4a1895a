------------------------------ MODULE CMalloc ------------------------------
(***************************************************************************)
(* The heap of applications (src/cm/malloc.c), next to the kernel's. Both  *)
(* cut, search and merge in the same way; they differ in the sizes they    *)
(* accept and in what a free of something that is no block does. All       *)
(* threads of an application share its heap; a call is not interrupted by  *)
(* another one, since threads give up the processor in system calls only.  *)
(***************************************************************************)
EXTENDS KMalloc

VARIABLES
  program,    \* whose heap it is: "kernel" or "application"
  aborted     \* the application has called cm_panic

heapVars == <<vars, program, aborted>>

\* kmalloc_init or cm_malloc_init.
HeapInit == Init /\ program \in {"kernel", "application"} /\ aborted = FALSE

Live == program = "application" /\ ~aborted /\ UNCHANGED <<program, aborted>>

\* s_findFirst, s_splitFreeNode and s_createNewNode as in the kernel.
SplitFirst(bytes) == kmalloc(bytes)

\* Nothing is allocated without a size (CM_ERR_INVALID_INPUT).
cm_malloc(bytes) == Live /\ bytes # 0 /\ SplitFirst(bytes)

\* cm_free, with s_combineAdjFreeNodes as in the kernel.
cm_free(node) == Live /\ kfree(node)

\* "Could not find allocated node. Either double free or tatal error.": cm_panic
\* aborts the application.
cm_free_panics ==
  /\ program = "application" /\ ~aborted
  /\ \E node \in Addr : node \notin Items(s_alloc)
  /\ aborted' = TRUE
  /\ UNCHANGED <<vars, program>>

HeapNext ==
  \/ program = "kernel" /\ Next /\ UNCHANGED <<program, aborted>>
  \/ \E bytes \in Requests : cm_malloc(bytes)
  \/ \E node \in Addr : cm_free(node)
  \/ cm_free_panics

HeapsSpec == HeapInit /\ [][HeapNext]_heapVars
=============================================================================
