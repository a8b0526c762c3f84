------------------------------ MODULE AddrSpace ------------------------------
(***************************************************************************)
(* Physical pages and page tables (kern/pmap.c), and what changes them:    *)
(* the page system calls, IPC with a page, exec, the creation and the      *)
(* destruction of environments.  A step is one stay in the kernel; which   *)
(* environment sched_yield picks is left open (Kernel.tla).                *)
(*                                                                         *)
(* Directories and tables are physical pages: mem.pt gives the entries a   *)
(* page holds.  The part of the address space above UTOP, the same in all, *)
(* is left out, and so is the order of page_free_list.                     *)
(***************************************************************************)
EXTENDS Integers, FiniteSets

CONSTANTS CPU,     \* the processors
          Env,     \* the slots of envs[]
          Page,    \* the physical pages page_init puts on the free list
          Page0,   \* the physical page 0, which it does not
          Idx,     \* indices of a directory, and of a table
          VA,      \* the addresses programs use, as pairs of indices
          DTemp,   \* the one from which sys_exec takes a page
          Stack,   \* the one at which load_icode puts a page
          REFMOD,  \* pp_ref is a uint16_t: 2^16
          None

ASSUME AddrSpaceAssumption ==
  /\ IsFiniteSet(Page) /\ IsFiniteSet(Idx) /\ IsFiniteSet(Env)
  /\ Page0 \notin Page /\ None \notin Page \cup {Page0} \cup Env
  /\ VA \subseteq Idx \X Idx /\ DTemp \in VA /\ Stack \in VA
  /\ None \notin VA
  /\ REFMOD \in Nat /\ REFMOD >= 2

VARIABLES
  mem,     \* pp_ref of each page, the free pages, the contents of the pages
  pgdir,   \* env_pgdir
  status,  \* env_status, with the reason why it is ENV_NOT_RUNNABLE
  parent,  \* the environment env_parent_id stands for, or None
  dstva,   \* env_ipc_dstva while e receives; None if it wants no page
  curenv,  \* cpu_env of each CPU, or None
  stale,   \* addresses for which the TLB of each CPU may be out of date
  booted   \* i386_init and mp_main have called sched_yield

vars == <<mem, pgdir, status, parent, dstva, curenv, stale, booted>>
envVars == <<pgdir, status, parent, dstva, booted>>

Phys == Page \cup {Page0}

\* An entry of a directory or a table; 0 is not present and names page 0.
Zero == [page |-> Page0, p |-> FALSE, w |-> FALSE]
ZeroPage == [i \in Idx |-> Zero]
Pte(p, w) == [page |-> p, p |-> TRUE, w |-> w]
Entry == {Zero} \cup {Pte(p, w) : p \in Phys, w \in BOOLEAN}

Mem == [pp_ref : [Phys -> 0 .. REFMOD - 1], free : SUBSET Page,
        pt : [Page -> [Idx -> Entry]]]

\* "new": created by sys_exofork and not started; "recv": in sys_ipc_recv.
Status == {"free", "new", "ready", "recv", "dying"}

-----------------------------------------------------------------------------
(* pmap.c: operators that return the memory they leave behind *)

\* page_alloc(ALLOC_ZERO), when it returns the page p.
PageAlloc(m, p) == [m EXCEPT !.free = @ \ {p}, !.pt[p] = ZeroPage]

PageFree(m, p) == [m EXCEPT !.free = @ \cup {p}]

IncRef(m, p) == [m EXCEPT !.pp_ref[p] = (@ + 1) % REFMOD]

PageDecref(m, p) ==
  LET n == (m.pp_ref[p] - 1) % REFMOD
      d == [m EXCEPT !.pp_ref[p] = n]
  IN  IF n = 0 THEN PageFree(d, p) ELSE d

\* pgdir_walk(dir, va, 0) is not null.
HasTable(m, dir, va) == m.pt[dir][va[1]].p

Table(m, dir, va) == m.pt[dir][va[1]].page

\* The entry it points to, 0 when there is no table.
Walk(m, dir, va) ==
  IF HasTable(m, dir, va) THEN m.pt[Table(m, dir, va)][va[2]] ELSE Zero

\* The pages pgdir_walk(dir, va, 1) may have to take: {None} if it needs none,
\* no element if there are none left.
NewTables(m, dir, va) == IF HasTable(m, dir, va) THEN {None} ELSE m.free

\* Mutant of PgdirWalk: the reference to the new table is not counted.
PgdirWalkNoRef(m, dir, va, t) ==
  IF HasTable(m, dir, va) THEN m
  ELSE [PageAlloc(m, t) EXCEPT !.pt[dir][va[1]] = Pte(t, TRUE)]

\* pgdir_walk(dir, va, 1), which takes the page t if it needs one.
PgdirWalk(m, dir, va, t) ==
  IF HasTable(m, dir, va) THEN m
  ELSE [IncRef(PageAlloc(m, t), t) EXCEPT !.pt[dir][va[1]] = Pte(t, TRUE)]

SetPte(m, dir, va, entry) == [m EXCEPT !.pt[Table(m, dir, va)][va[2]] = entry]

\* Mutant of PageRemove: PTE_P is not looked at.
PageRemoveAbsent(m, dir, va) ==
  IF ~HasTable(m, dir, va) THEN m
  ELSE SetPte(PageDecref(m, Walk(m, dir, va).page), dir, va, Zero)

PageRemove(m, dir, va) ==
  IF ~HasTable(m, dir, va) THEN m
  ELSE SetPte(IF Walk(m, dir, va).p THEN PageDecref(m, Walk(m, dir, va).page)
                                    ELSE m, dir, va, Zero)

\* Mutant of PageInsert: inserting the same page again counts again.
PageInsertTwice(m, dir, p, va, w, t) ==
  LET k == PgdirWalk(m, dir, va, t)
      old == Walk(k, dir, va)
  IN  IF old.p /\ old.page = p THEN IncRef(SetPte(k, dir, va, Pte(p, w)), p)
      ELSE IncRef(SetPte(PageRemove(k, dir, va), dir, va, Pte(p, w)), p)

\* Mutant of PageInsert: no special case for the same page.
PageInsertOnePath(m, dir, p, va, w, t) ==
  LET k == PgdirWalk(m, dir, va, t)
  IN  IncRef(SetPte(PageRemove(k, dir, va), dir, va, Pte(p, w)), p)

\* page_insert(dir, p, va, w), with the same t.
PageInsert(m, dir, p, va, w, t) ==
  LET k == PgdirWalk(m, dir, va, t)
      old == Walk(k, dir, va)
  IN  IF old.p /\ old.page = p THEN SetPte(k, dir, va, Pte(p, w))
      ELSE IncRef(SetPte(PageRemove(k, dir, va), dir, va, Pte(p, w)), p)

\* None is no mapping.
ASSUME NoneAssumption == None \notin [page : Phys, w : BOOLEAN]

\* The address space of a directory, as the MMU sees it.
Space(m, dir) ==
  [va \in VA |->
     IF dir = None THEN None
     ELSE LET pte == Walk(m, dir, va)
          IN  IF pte.p THEN [page |-> pte.page, w |-> pte.w] ELSE None]

\* env_setup_vm, when page_alloc returns the page d.
EnvSetupVm(m, d) == IncRef(PageAlloc(m, d), d)

(* env_free.  FreeLoop is what it does: for every table, page_remove for   *)
(* every present entry, then page_decref for the table; in the end         *)
(* page_decref for the directory.  EnvFree says what comes of it, where    *)
(* Hits(m, dir, p) is how often p is decremented.                          *)

\* The indices one after the other; the result does not depend on the order.
Visit == CHOOSE f \in [1 .. Cardinality(Idx) -> Idx] :
           \A i \in Idx : \E n \in 1 .. Cardinality(Idx) : f[n] = i

\* The loop over the entries of the table with the index i.
Unmapped(m, dir, i) ==
  LET loop[n \in 0 .. Cardinality(Idx)] ==
        IF n = 0 THEN m
        ELSE LET va == <<i, Visit[n]>>
             IN  IF Walk(loop[n - 1], dir, va).p
                 THEN PageRemove(loop[n - 1], dir, va) ELSE loop[n - 1]
  IN  loop[Cardinality(Idx)]

\* Mutant of FreeTable: the table is unmapped but not released.
FreeTableKept(m, dir, i) ==
  IF ~m.pt[dir][i].p THEN m ELSE [Unmapped(m, dir, i) EXCEPT !.pt[dir][i] = Zero]

\* One round of the loop over the tables.
FreeTable(m, dir, i) ==
  IF ~m.pt[dir][i].p THEN m
  ELSE PageDecref([Unmapped(m, dir, i) EXCEPT !.pt[dir][i] = Zero], m.pt[dir][i].page)

FreeLoop(m, dir) ==
  LET loop[n \in 0 .. Cardinality(Idx)] ==
        IF n = 0 THEN m ELSE FreeTable(loop[n - 1], dir, Visit[n])
  IN  PageDecref(loop[Cardinality(Idx)], dir)

Tables(m, dir) == {m.pt[dir][i].page : i \in {j \in Idx : m.pt[dir][j].p}}

Hits(m, dir, p) ==
  Cardinality({va \in VA : Walk(m, dir, va).p /\ Walk(m, dir, va).page = p})
  + Cardinality({i \in Idx : m.pt[dir][i].p /\ m.pt[dir][i].page = p})
  + (IF p = dir THEN 1 ELSE 0)

EnvFree(m, dir) ==
  [pp_ref |-> [p \in Phys |-> (m.pp_ref[p] - Hits(m, dir, p)) % REFMOD],
   free   |-> m.free \cup {p \in Page : /\ m.pp_ref[p] > 0
                                        /\ m.pp_ref[p] <= Hits(m, dir, p)},
   pt     |-> [p \in Page |-> IF p \in Tables(m, dir) \cup {dir}
                              THEN ZeroPage ELSE m.pt[p]]]

-----------------------------------------------------------------------------
Init ==
  /\ mem = [pp_ref |-> [p \in Phys |-> IF p = Page0 THEN 1 ELSE 0],
            free |-> Page, pt |-> [p \in Page |-> ZeroPage]]
  /\ pgdir = [e \in Env |-> None]
  /\ status = [e \in Env |-> "free"]
  /\ parent = [e \in Env |-> None]
  /\ dstva = [e \in Env |-> None]
  /\ curenv = [c \in CPU |-> None]
  /\ stale = [c \in CPU |-> {}]
  /\ booted = FALSE

\* ENV_CREATE in i386_init, before anything runs: env_setup_vm, and the pages
\* of load_icode, of which one, the stack, stands for all.
EnvCreate(e) ==
  /\ ~booted /\ status[e] = "free"
  /\ \E d \in mem.free : LET m0 == EnvSetupVm(mem, d)
     IN  \E p \in m0.free : LET m1 == PageAlloc(m0, p)
     IN  \E t \in NewTables(m1, d, Stack) :
           /\ mem' = PageInsert(m1, d, p, Stack, TRUE, t)
           /\ pgdir' = [pgdir EXCEPT ![e] = d]
  /\ status' = [status EXCEPT ![e] = "ready"]
  /\ UNCHANGED <<parent, dstva, curenv, stale, booted>>

\* Mutant of Flushed: cr3 is not loaded.
FlushedKept(c, m) ==
  [d \in CPU |->
     IF curenv[d] = None THEN {}
     ELSE stale[d] \cup
            LET old == Space(mem, pgdir[curenv[d]])
                new == Space(m, pgdir[curenv[d]])
            IN  {va \in VA : old[va] # None /\ new[va] # old[va]}]

(* The two ways out of the kernel of CPU c, once memory is m.  env_run and *)
(* sched_halt load cr3, which empties the TLB of c; a TLB in use elsewhere *)
(* keeps what it holds, which may be all of the address space.             *)
Flushed(c, m) ==
  [d \in CPU |->
     IF d = c THEN {}
     ELSE IF curenv[d] = None THEN stale[d]
     ELSE stale[d] \cup
            LET old == Space(mem, pgdir[curenv[d]])
                new == Space(m, pgdir[curenv[d]])
            IN  {va \in VA : old[va] # None /\ new[va] # old[va]}]

\* Back to the current environment.
Return(c, m) ==
  /\ mem' = m
  /\ stale' = Flushed(c, m)
  /\ UNCHANGED curenv

\* sched_yield with the statuses st: an environment that can run, or
\* sched_halt when there is none.
SchedYield(c, m, st) ==
  LET able == {e \in Env : /\ st[e] = "ready"
                           /\ \A d \in CPU \ {c} : curenv[d] # e}
  IN  /\ mem' = m
      /\ stale' = Flushed(c, m)
      /\ \E next \in IF able = {} THEN {None} ELSE able :
           curenv' = [curenv EXCEPT ![c] = next]

\* The first sched_yield of a CPU, and any interrupt of a halted one.
WakeUp(c) ==
  /\ curenv[c] = None
  /\ \E e \in Env : status[e] # "free"
  /\ SchedYield(c, mem, status)
  /\ booted' = TRUE
  /\ UNCHANGED <<pgdir, status, parent, dstva>>

\* A trap from an environment that is not dying.
Trap(c) == curenv[c] # None /\ status[curenv[c]] # "dying"

Yield(c) ==
  /\ Trap(c)
  /\ SchedYield(c, mem, status)
  /\ UNCHANGED envVars

-----------------------------------------------------------------------------
(* System calls *)

\* envid2env with checkperm.
MayManage(c, e) ==
  e = curenv[c] \/ (status[e] # "free" /\ parent[e] = curenv[c])

SysPageAlloc(c, e, va, w) ==
  /\ Trap(c) /\ MayManage(c, e)
  /\ \E p \in mem.free : LET m == PageAlloc(mem, p)
     IN  IF NewTables(m, pgdir[e], va) = {} THEN Return(c, PageFree(m, p))
         ELSE \E t \in NewTables(m, pgdir[e], va) :
                Return(c, PageInsert(m, pgdir[e], p, va, w, t))
  /\ UNCHANGED envVars

\* Mutant of SysPageMap: PTE_W is not asked of the source.
SysPageMapWritable(c, src, srcva, dst, va, w) ==
  /\ Trap(c) /\ MayManage(c, src) /\ MayManage(c, dst)
  /\ HasTable(mem, pgdir[src], srcva)
  /\ \E t \in NewTables(mem, pgdir[dst], va) :
       Return(c, PageInsert(mem, pgdir[dst], Walk(mem, pgdir[src], srcva).page,
                            va, w, t))
  /\ UNCHANGED envVars

SysPageMap(c, src, srcva, dst, va, w) ==
  /\ Trap(c) /\ MayManage(c, src) /\ MayManage(c, dst)
  /\ HasTable(mem, pgdir[src], srcva)
  /\ LET pte == Walk(mem, pgdir[src], srcva)
     IN  /\ w => pte.w
         /\ \E t \in NewTables(mem, pgdir[dst], va) :
              Return(c, PageInsert(mem, pgdir[dst], pte.page, va, w, t))
  /\ UNCHANGED envVars

SysPageUnmap(c, e, va) ==
  /\ Trap(c) /\ MayManage(c, e)
  /\ Return(c, PageRemove(mem, pgdir[e], va))
  /\ UNCHANGED envVars

SysExofork(c, e) ==
  /\ Trap(c) /\ status[e] = "free"
  /\ \E d \in mem.free :
       /\ Return(c, EnvSetupVm(mem, d))
       /\ pgdir' = [pgdir EXCEPT ![e] = d]
  /\ status' = [status EXCEPT ![e] = "new"]
  /\ parent' = [parent EXCEPT ![e] = curenv[c]]
  /\ UNCHANGED <<dstva, booted>>

\* sys_env_set_status, as fork and spawn use it.
SysEnvStart(c, e) ==
  /\ Trap(c) /\ MayManage(c, e) /\ status[e] = "new"
  /\ status' = [status EXCEPT ![e] = "ready"]
  /\ Return(c, mem)
  /\ UNCHANGED <<pgdir, parent, dstva, booted>>

\* va = None: the receiver wants no page.
SysIpcRecv(c, va) ==
  /\ Trap(c)
  /\ status' = [status EXCEPT ![curenv[c]] = "recv"]
  /\ dstva' = [dstva EXCEPT ![curenv[c]] = va]
  /\ SchedYield(c, mem, status')
  /\ UNCHANGED <<pgdir, parent, booted>>

\* Mutant of SysIpcTrySend: the bits asked for are not compared.
SysIpcTrySendUnmapped(c, e, va, w) ==
  /\ Trap(c) /\ status[e] = "recv"
  /\ IF va = None \/ dstva[e] = None THEN Return(c, mem)
     ELSE /\ HasTable(mem, pgdir[curenv[c]], va)
          /\ \E t \in NewTables(mem, pgdir[e], dstva[e]) :
               Return(c, PageInsert(mem, pgdir[e],
                                    Walk(mem, pgdir[curenv[c]], va).page,
                                    dstva[e], w, t))
  /\ status' = [status EXCEPT ![e] = "ready"]
  /\ dstva' = [dstva EXCEPT ![e] = None]
  /\ UNCHANGED <<pgdir, parent, booted>>

\* Mutant of SysIpcTrySend: the page goes where the sender has it.
SysIpcTrySendSameVa(c, e, va, w) ==
  /\ Trap(c) /\ status[e] = "recv"
  /\ IF va = None THEN Return(c, mem)
     ELSE LET pte == Walk(mem, pgdir[curenv[c]], va)
          IN  /\ pte.p /\ (w => pte.w)
              /\ \E t \in NewTables(mem, pgdir[e], va) :
                   Return(c, PageInsert(mem, pgdir[e], pte.page, va, w, t))
  /\ status' = [status EXCEPT ![e] = "ready"]
  /\ dstva' = [dstva EXCEPT ![e] = None]
  /\ UNCHANGED <<pgdir, parent, booted>>

\* va = None: the sender sends no page.  The programs of the repository have
\* PTE_P among the permissions they send, so that the page must be there.
SysIpcTrySend(c, e, va, w) ==
  /\ Trap(c) /\ status[e] = "recv"
  /\ IF va = None THEN Return(c, mem)
     ELSE LET pte == Walk(mem, pgdir[curenv[c]], va)
          IN  /\ pte.p /\ (w => pte.w)
              /\ IF dstva[e] = None THEN Return(c, mem)
                 ELSE \E t \in NewTables(mem, pgdir[e], dstva[e]) :
                        Return(c, PageInsert(mem, pgdir[e], pte.page,
                                             dstva[e], w, t))
  /\ status' = [status EXCEPT ![e] = "ready"]
  /\ dstva' = [dstva EXCEPT ![e] = None]
  /\ UNCHANGED <<pgdir, parent, booted>>

(* One round of the loops of sys_exec, which move the pages of the new     *)
(* program one by one: a program of one page.                              *)
SysExec(c, va, w) ==
  /\ Trap(c)
  /\ LET dir == pgdir[curenv[c]]
     IN  /\ HasTable(mem, dir, DTemp)
         /\ \E t \in NewTables(mem, dir, va) :
              Return(c, PageRemove(PageInsert(mem, dir, Walk(mem, dir, DTemp).page,
                                              va, w, t), dir, DTemp))
  /\ UNCHANGED envVars

(* env_free(e).  Its id is nobody's any more, so that its children have no *)
(* parent.                                                                 *)
Free(e) ==
  /\ pgdir' = [pgdir EXCEPT ![e] = None]
  /\ status' = [status EXCEPT ![e] = "free"]
  /\ parent' = [f \in Env |-> IF f = e \/ parent[f] = e THEN None ELSE parent[f]]
  /\ dstva' = [dstva EXCEPT ![e] = None]
  /\ UNCHANGED booted

\* sys_env_destroy, exceptions, exit.  To destroy a dying environment again is
\* the subject of Kernel.tla.
Destroy(c, e) ==
  /\ Trap(c) /\ MayManage(c, e) /\ status[e] # "dying"
  /\ IF e = curenv[c]
     THEN /\ Free(e)
          /\ SchedYield(c, EnvFree(mem, pgdir[e]), status')
     ELSE IF \E d \in CPU : curenv[d] = e
     THEN /\ status' = [status EXCEPT ![e] = "dying"]
          /\ Return(c, mem)
          /\ UNCHANGED <<pgdir, parent, dstva, booted>>
     ELSE /\ Free(e)
          /\ Return(c, EnvFree(mem, pgdir[e]))

\* Any trap from a dying environment.
Reap(c) ==
  /\ curenv[c] # None /\ status[curenv[c]] = "dying"
  /\ Free(curenv[c])
  /\ SchedYield(c, EnvFree(mem, pgdir[curenv[c]]), status')

-----------------------------------------------------------------------------
CommonNext(c) ==
  \/ WakeUp(c) \/ Yield(c) \/ Reap(c)
  \/ \E e \in Env : SysExofork(c, e) \/ SysEnvStart(c, e) \/ Destroy(c, e)
  \/ \E va \in VA \cup {None} : SysIpcRecv(c, va)
  \/ \E e \in Env, va \in VA \cup {None}, w \in BOOLEAN :
       SysIpcTrySend(c, e, va, w)

Next ==
  \/ \E e \in Env : EnvCreate(e)
  \/ \E c \in CPU :
       \/ CommonNext(c)
       \/ \E e \in Env, va \in VA, w \in BOOLEAN : SysPageAlloc(c, e, va, w)
       \/ \E e \in Env, va \in VA : SysPageUnmap(c, e, va)
       \/ \E src, dst \in Env, srcva, va \in VA, w \in BOOLEAN :
            SysPageMap(c, src, srcva, dst, va, w)
       \/ \E va \in VA \ {DTemp}, w \in BOOLEAN : SysExec(c, va, w)

Spec == Init /\ [][Next]_vars

(* The programs of the repository change the address space of a child only *)
(* before they start it, and map and move only what is mapped.             *)
Own(c, e) == e = curenv[c] \/ status[e] = "new"

Mapped(e, va) == pgdir[e] # None /\ Walk(mem, pgdir[e], va).p

LibPageMap(c, src, srcva, dst, va, w) ==
  /\ curenv[c] # None /\ Own(c, src) /\ Own(c, dst) /\ Mapped(src, srcva)
  /\ SysPageMap(c, src, srcva, dst, va, w)

LibExec(c, va, w) ==
  /\ curenv[c] # None /\ Mapped(curenv[c], DTemp)
  /\ SysExec(c, va, w)

LibNext ==
  \/ \E e \in Env : EnvCreate(e)
  \/ \E c \in CPU :
       \/ CommonNext(c)
       \/ \E e \in Env, va \in VA, w \in BOOLEAN :
            Own(c, e) /\ SysPageAlloc(c, e, va, w)
       \/ \E e \in Env, va \in VA : Own(c, e) /\ SysPageUnmap(c, e, va)
       \/ \E src, dst \in Env, srcva, va \in VA, w \in BOOLEAN :
            LibPageMap(c, src, srcva, dst, va, w)
       \/ \E va \in VA \ {DTemp}, w \in BOOLEAN : LibExec(c, va, w)

LibSpec == Init /\ [][LibNext]_vars
-----------------------------------------------------------------------------
TypeOK ==
  /\ mem \in Mem
  /\ pgdir \in [Env -> Page \cup {None}]
  /\ status \in [Env -> Status]
  /\ parent \in [Env -> Env \cup {None}]
  /\ dstva \in [Env -> VA \cup {None}]
  /\ curenv \in [CPU -> Env \cup {None}]
  /\ stale \in [CPU -> SUBSET VA]
  /\ booted \in BOOLEAN

\* Entries of directories and tables that name p.
Refs(p) == {r \in Page \X Idx : mem.pt[r[1]][r[2]].p /\ mem.pt[r[1]][r[2]].page = p}

\* pp_ref is the number of pointers to a page: present entries, env_pgdir, and
\* one for a page that page_init reserves.
RefCountExact ==
  \A p \in Phys : mem.pp_ref[p] = Cardinality(Refs(p))
    + Cardinality({e \in Env : pgdir[e] = p}) + (IF p = Page0 THEN 1 ELSE 0)

\* Outside the kernel a page is free exactly when it has no reference: none
\* leaks, none is freed while it is used.
FreeExact == mem.free = {p \in Page : mem.pp_ref[p] = 0}

\* A directory or a table is used as one once: it is not also a table of
\* another address space, and user code does not have it mapped.
TablesPrivate ==
  \A e \in Env : pgdir[e] # None =>
    /\ mem.pp_ref[pgdir[e]] = 1
    /\ \A i \in Idx : mem.pt[pgdir[e]][i].p =>
         /\ mem.pt[pgdir[e]][i].page \in Page
         /\ mem.pp_ref[mem.pt[pgdir[e]][i].page] = 1

\* The TLB of a CPU in user mode holds nothing that the page tables do not.
NoStaleTlb == \A c \in CPU : stale[c] = {}

\* Freeing an environment undoes exactly what its address space holds: the
\* loops of env_free come to EnvFree.
EnvFreeIsItsLoops ==
  \A e \in Env : pgdir[e] # None =>
    EnvFree(mem, pgdir[e]) = FreeLoop(mem, pgdir[e])

\* While an environment that was started does not run, its address space does
\* not change, except that a receiver gets its page where it asked for it.
QuietWhileWaiting ==
  [][\A e \in Env :
       /\ status[e] \in {"ready", "recv"} /\ status'[e] # "free"
       /\ \A c \in CPU : curenv[c] # e
       => \A va \in VA :
            \/ Space(mem, pgdir[e])[va] = Space(mem', pgdir'[e])[va]
            \/ status[e] = "recv" /\ status'[e] = "ready" /\ va = dstva[e]]_vars

\* Reserved pages appear in no address space.
ReservedUnmapped == Refs(Page0) = {}

Abstract == INSTANCE AbstractSpaces WITH
  space <- [e \in Env |-> Space(mem, pgdir[e])]

\* Every step acts on the address spaces as AbstractSpaces allows.
ImplementsSpaces == Abstract!Spec
=============================================================================
