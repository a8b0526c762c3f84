------------------------------- MODULE CowFork -------------------------------
(***************************************************************************)
(* fork with copy-on-write at user level (lib/fork.c), the page fault      *)
(* handler it installs (lib/pgfault.c) and the way of a fault to it        *)
(* (page_fault_handler of kern/trap.c).  A step is one system call, one    *)
(* fault or one access to memory; environments run on several CPUs.        *)
(*                                                                         *)
(* Addresses are pages: PFTEMP below the program's, XSTACK (the exception  *)
(* stack) above them.  A page is free when nobody maps it; its contents    *)
(* are cleared when it becomes free instead of when it is allocated, which *)
(* nobody can tell.                                                        *)
(***************************************************************************)
EXTENDS Integers, FiniteSets, FiniteSetsExt

CONSTANTS Env, Root,  \* the environments, the first one
          Private,    \* addresses the program writes, its stack too
          Shared,     \* addresses with PTE_SHARE
          ReadOnly,   \* addresses of its text
          NPage,      \* pages of memory
          Value, Zero, None

Program == Private \cup Shared \cup ReadOnly
PFTEMP == 0
XSTACK == Max(Program) + 1
VA == Program \cup {PFTEMP, XSTACK}
Page == 1 .. NPage

ASSUME ForkAssumption ==
  /\ IsFiniteSet(Env) /\ Root \in Env /\ None \notin Env \cup Value
  /\ Private # {} /\ Program \subseteq Nat \ {0} /\ IsFiniteSet(Program)
  /\ Private \cap (Shared \cup ReadOnly) = {} /\ Shared \cap ReadOnly = {}
  /\ NPage \in Nat /\ Cardinality(Program) <= NPage /\ Zero \in Value

VARIABLES
  map,      \* for each environment and address, a page with a permission
  mem,      \* the contents of a page
  handler,  \* who has a page fault handler (env_pgfault_upcall)
  fault,    \* the step of pgfault each one is at, and its address
  pc        \* where each one is, with the local variables of fork

vars == <<map, mem, handler, fault, pc>>

\* "w" is PTE_W, "cow" PTE_COW, "share" PTE_W with PTE_SHARE, "ro" none of them.
Pte == [page : Page, perm : {"w", "cow", "share", "ro"}]

ASSUME NoneAssumption == None \notin Pte

(* The places: "none" no environment, "new" a child that is not started,   *)
(* "run" in its own code; in fork: "dup" at the address min(todo), "self"  *)
(* it is mapped in the child, "start" the child is complete; "nomem" in    *)
(* the panic after a failed allocation, "bad" destroyed for a fault, or in *)
(* the panic of pgfault.                                                   *)
Local == [at : {"none", "new", "run", "dup", "self", "start", "nomem", "bad", "gone"},
          todo : SUBSET VA, child : Env \cup {None}]

At(place) == [at |-> place, todo |-> {}, child |-> None]

NoFault == [at |-> "none", va |-> PFTEMP]

FirstPage == CHOOSE f \in [Program -> Page] : \A a, b \in Program : f[a] = f[b] => a = b

Perm(va) == IF va \in Private THEN "w" ELSE IF va \in Shared THEN "share" ELSE "ro"

Init ==
  /\ map = [e \in Env |-> [va \in VA |-> IF e = Root /\ va \in Program
                THEN [page |-> FirstPage[va], perm |-> Perm(va)] ELSE None]]
  /\ mem = [p \in Page |-> Zero]
  /\ handler = {}
  /\ fault = [e \in Env |-> NoFault]
  /\ pc = [e \in Env |-> At(IF e = Root THEN "run" ELSE "none")]

-----------------------------------------------------------------------------
Used(m) == {p \in Page : \E e \in Env, va \in VA : m[e][va] # None /\ m[e][va].page = p}

Free == Page \ Used(map)

\* The mappings become m; pages that nobody maps any more are free.
Remap(m, contents) ==
  /\ map' = m
  /\ mem' = [p \in Page |-> IF p \in Used(m) THEN contents[p] ELSE Zero]

\* sys_page_alloc: a mapping that was there goes.  Which free page is taken does
\* not matter; exception stacks take the last one.
PageAlloc(e, va) ==
  /\ Free # {}
  /\ LET p == IF va = XSTACK THEN Max(Free) ELSE Min(Free)
     IN Remap([map EXCEPT ![e][va] = [page |-> p, perm |-> "w"]], mem)

PageMap(src, srcva, dst, dstva, perm) ==
  Remap([map EXCEPT ![dst][dstva] = [page |-> map[src][srcva].page, perm |-> perm]], mem)

Panic(e, place) == pc' = [pc EXCEPT ![e].at = place]

\* e executes its own code or fork, not pgfault.
Running(e) ==
  pc[e].at \in {"run", "dup", "self", "start"} /\ fault[e].at = "none"

-----------------------------------------------------------------------------
\* Memory accesses and page faults.

Write(e, va, v) ==
  /\ Running(e) /\ va \in Private \cup Shared /\ map[e][va].perm \in {"w", "share"}
  /\ mem' = [mem EXCEPT ![map[e][va].page] = v]
  /\ UNCHANGED <<map, handler, fault, pc>>

\* page_fault_handler: without a handler or an exception stack e is destroyed.
Fault(e, va) ==
  /\ Running(e) /\ va \in Private \cup Shared /\ map[e][va].perm \notin {"w", "share"}
  /\ IF e \in handler /\ map[e][XSTACK] # None /\ map[e][XSTACK].perm = "w"
          /\ map[e][va].perm = "cow"
       THEN fault' = [fault EXCEPT ![e] = [at |-> "alloc", va |-> va]] /\ UNCHANGED pc
       ELSE Panic(e, "bad") /\ UNCHANGED fault
  /\ UNCHANGED <<map, mem, handler>>

\* A page that is at PFTEMP already is used again (mutant).
PgfaultReuse(e) ==
  /\ fault[e].at = "alloc"
  /\ IF map[e][PFTEMP] = None THEN PageAlloc(e, PFTEMP) ELSE UNCHANGED <<map, mem>>
  /\ fault' = [fault EXCEPT ![e].at = "copy"] /\ UNCHANGED <<handler, pc>>

\* pgfault: a new page at PFTEMP, whatever is there, ...
PgfaultAlloc(e) ==
  /\ fault[e].at = "alloc" /\ PageAlloc(e, PFTEMP)
  /\ fault' = [fault EXCEPT ![e].at = "copy"] /\ UNCHANGED <<handler, pc>>

\* ... the contents of the old one, ...
PgfaultCopy(e) ==
  /\ fault[e].at = "copy"
  /\ mem' = [mem EXCEPT ![map[e][PFTEMP].page] = mem[map[e][fault[e].va].page]]
  /\ fault' = [fault EXCEPT ![e].at = "map"] /\ UNCHANGED <<map, handler, pc>>

\* ... and its place; PFTEMP keeps it too.  Then the write is tried again.
PgfaultMap(e) ==
  /\ fault[e].at = "map" /\ PageMap(e, PFTEMP, e, fault[e].va, "w")
  /\ fault' = [fault EXCEPT ![e] = NoFault] /\ UNCHANGED <<handler, pc>>

\* The panic never returns.
PgfaultNoMemory(e) ==
  /\ fault[e].at = "alloc" /\ Free = {}
  /\ fault' = [fault EXCEPT ![e] = NoFault]
  /\ Panic(e, "nomem") /\ UNCHANGED <<map, mem, handler>>

-----------------------------------------------------------------------------
\* fork.

\* set_pgfault_handler, the first time.
SetHandler(e) ==
  /\ Running(e) /\ pc[e].at = "run" /\ e \notin handler
  /\ IF Free = {} THEN Panic(e, "nomem") /\ UNCHANGED <<map, mem, handler>>
     ELSE /\ PageAlloc(e, XSTACK) /\ handler' = handler \cup {e} /\ UNCHANGED pc
  /\ UNCHANGED fault

\* The addresses are gone through to UTOP included (mutant).
ExoforkUtop(e, d) ==
  /\ Running(e) /\ pc[e].at = "run" /\ e \in handler /\ pc[d].at = "none"
  /\ pc' = [pc EXCEPT ![d] = At("new"), ![e] = [at |-> "dup",
                         todo |-> VA \cup {XSTACK + 1}, child |-> d]]
  /\ UNCHANGED <<map, mem, handler, fault>>

\* sys_exofork
Exofork(e, d) ==
  /\ Running(e) /\ pc[e].at = "run" /\ e \in handler /\ pc[d].at = "none"
  /\ pc' = [pc EXCEPT ![d] = At("new"),
                      ![e] = [at |-> "dup", todo |-> VA, child |-> d]]
  /\ UNCHANGED <<map, mem, handler, fault>>

NextVa(e) == Min(pc[e].todo)

Done(e, place, va) == pc' = [pc EXCEPT ![e].at = place, ![e].todo = @ \ va]

\* duppage: the exception stack is left out, shared and read-only pages are
\* mapped in the child ...
DupPage(e) ==
  /\ Running(e) /\ pc[e].at = "dup" /\ pc[e].todo # {}
  /\ LET va == NextVa(e)
         pte == map[e][va]
     IN IF va = XSTACK \/ pte = None
          THEN Done(e, "dup", {va}) /\ UNCHANGED <<map, mem>>
        ELSE IF pte.perm \in {"share", "ro"}
          THEN PageMap(e, va, pc[e].child, va, pte.perm) /\ Done(e, "dup", {va})
        ELSE PageMap(e, va, pc[e].child, va, "cow") /\ Done(e, "self", {})
  /\ UNCHANGED <<handler, fault>>

\* ... and the others copy-on-write, first in the child, then in the parent.
DupSelf(e) ==
  /\ Running(e) /\ pc[e].at = "self"
  /\ PageMap(e, NextVa(e), e, NextVa(e), "cow") /\ Done(e, "dup", {NextVa(e)})
  /\ UNCHANGED <<handler, fault>>

\* The exception stack of the child.
ChildStack(e) ==
  /\ Running(e) /\ pc[e].at = "dup" /\ pc[e].todo = {}
  /\ IF Free = {} THEN Panic(e, "nomem") /\ UNCHANGED <<map, mem>>
     ELSE PageAlloc(pc[e].child, XSTACK) /\ Done(e, "start", {})
  /\ UNCHANGED <<handler, fault>>

\* The child starts without an upcall (mutant).
StartNoUpcall(e) ==
  /\ Running(e) /\ pc[e].at = "start"
  /\ pc' = [pc EXCEPT ![e] = At("run"), ![pc[e].child] = At("run")]
  /\ UNCHANGED <<map, mem, handler, fault>>

\* sys_env_set_pgfault_upcall and sys_env_set_status.
Start(e) ==
  /\ Running(e) /\ pc[e].at = "start"
  /\ handler' = handler \cup {pc[e].child}
  /\ pc' = [pc EXCEPT ![e] = At("run"), ![pc[e].child] = At("run")]
  /\ UNCHANGED <<map, mem, fault>>

\* exit, and env_free.
Exit(e) ==
  /\ Running(e) /\ pc[e].at = "run"
  /\ Remap([map EXCEPT ![e] = [va \in VA |-> None]], mem)
  /\ handler' = handler \ {e}
  /\ pc' = [pc EXCEPT ![e] = At("gone")] /\ UNCHANGED fault

Next ==
  \E e \in Env :
    \/ \E va \in Private \cup Shared, v \in Value : Write(e, va, v)
    \/ \E va \in Private \cup Shared : Fault(e, va)
    \/ PgfaultAlloc(e) \/ PgfaultCopy(e) \/ PgfaultMap(e) \/ PgfaultNoMemory(e)
    \/ SetHandler(e) \/ DupPage(e) \/ DupSelf(e) \/ ChildStack(e) \/ Start(e)
    \/ \E d \in Env : Exofork(e, d)
    \/ Exit(e)

Spec == Init /\ [][Next]_vars

-----------------------------------------------------------------------------
TypeOK ==
  /\ map \in [Env -> [VA -> Pte \cup {None}]]
  /\ mem \in [Page -> Value]
  /\ handler \subseteq Env
  /\ fault \in [Env -> [at : {"none", "alloc", "copy", "map"}, va : VA]]
  /\ pc \in [Env -> Local]

\* A program that writes its own writable memory is never destroyed for it, and
\* pgfault never panics because of the kind of the fault.
LegalFaults == \A e \in Env : pc[e].at # "bad"

\* Who is copying into d, if anybody.
Forker(d) ==
  IF pc[d].at # "new" THEN None
  ELSE CHOOSE e \in Env : pc[e].at \in {"dup", "self", "start", "nomem"} /\ pc[e].child = d

Memory == [e \in Env |-> [va \in Private |->
             IF map[e][va] = None THEN None ELSE mem[map[e][va].page]]]

\* Every environment that maps a shared address maps the page of the others.
Common == [va \in Shared |->
  LET E == {e \in Env : map[e][va] # None}
  IN IF E = {} THEN Zero ELSE mem[map[CHOOSE e \in E : TRUE][va].page]]

Forks == INSTANCE AbstractFork WITH
  memory <- Memory, common <- Common, parent <- [d \in Env |-> Forker(d)]

\* fork with copy-on-write is a copy: no write of anybody reaches the private
\* memory of another environment that runs, whatever the order of the system
\* calls of fork, the faults and the writes on several CPUs.
ImplementsFork == Forks!Spec
=============================================================================
